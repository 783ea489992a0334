# Smart DNS proxy: formal models

TLA+ models of the parts of the Smart DNS proxy whose correctness depends on
the order in which things happen: configuration pushed to nodes by a panel,
swapped under a running data plane, repaired by a poll loop, compiled from rule
lists that are downloaded and approved concurrently, edited by operators whose
requests overlap, with processes that may die between any two steps.

Run from this directory, for example

    tlc -workers 2 -config MCDataPlane.cfg MCDataPlane
    tlapm AgentProofs.tla

`PROJECT.json` lists every run, the lines of source each definition stands for,
the mutant that shows each property can fail, the findings and the hazards.

## The system

| Part | State | Operations | What is hard about it | What makes it correct |
|---|---|---|---|---|
| **Agent** (`agent/internal/agentcore`) | `revisions/<id>/`, symlinks `active` and `previous`, `state.json`, the same in memory, identity files | `POST /v1/config`, restart, provisioning, health, certificates | requests run in their own goroutines and lock single fields; a crash between two system calls; ignored I/O errors | the data plane can always read a complete, accepted revision; what is reported is what is active; one identity |
| **Loader** (`node/nodecfg`) | current configuration, stamp of the file, subscribers | `WaitFor`, `Watch`, `reload`, `Get` | the file changes between read and stat; torn or missing file | a process that sees nothing to reload runs the active file |
| **Rollout** (`panel/internal/api/revisions.go`, `dispatch.go`) | revision states, deployments, desired and applied revision per node | deploy, rollback, push, poll, reconcile | goroutines of several rollouts and the poll loop interleave SQL statements; answers are lost; the panel restarts | at most one active revision, active only after every node ran it, drift heals, rollouts finish |
| **Jobs** (`panel/internal/jobs`) | the `jobs` table | enqueue, lease, execute, finish, retention | leases that run out under a live worker, crashes, several panels | no job is lost, run by two workers, or retried for ever |
| **Rule sets** (`panel/internal/rules`, `api/rulesets.go`) | versions, the active one, the mode | build, approve, reject | minutes between reading the active version and replacing it; READ COMMITTED | nothing drastic or partial goes into force without a human |
| **Compiler and domain sets** (`panel/internal/compiler`, `shared/domainset`) | none (pure), the stored revision | `Compile`, `detectConflicts`, `Match`, `Specificity` | two definitions of "covers" and "most specific"; nodes on different revisions | what DNS promises is routed and admitted; no ambiguous owner |
| **Egress selector** (`node/proxy/selector.go`) | verdict and counters per target and pool | observe, order, dial, probe, `Apply` | reload under live probes and dials | a usable target is tried, verdicts follow the relays |
| **SNI proxy, relay, tunnel** (`node/proxy`, `node/relay`, `shared/tunnel`) | session counter and limit, two copiers per session | `handle`, `Splice`, `Apply` | atomic counter against a changing limit; half-closed connections | the limit holds, nothing sent is cut off, sessions end |
| **DNS front end** (`node/dnsfe`) | routing table, limiter buckets, inflight channel | `Handle`, `Apply`, `Reload`, `allow` | reload while answering; time taken before a lock | origin addresses of managed names stay hidden; the rate is kept |
| **Certificates** (`cert.go`, `shared/tlsutil`) | key pair on disk, pair in memory | issue, start, handshake | two files replaced one after the other, concurrent handshakes | a complete pair is always served, a renewed one soon |
| **Sessions** (`api/session.go`) | rows of `users` and `sessions` | login, logout, password, second factor | statements of several requests interleave | no old session after a password change, one use per code, bounded guesses |
| **Inventory** (`nodes.go`, `groups.go`, `services.go`, `server.go`) | nodes, groups, services, idempotency keys | create, edit, delete, maintenance, poll | check-then-act, late answers, retries | an operator's word stands; one effect per key |
| **Devices** (`devices.go`, `settings.go`) | profiles and the list of accepted tokens | create, delete | read-modify-write of one row | tokens match profiles |
| **Wizard** (`catalog.go`) | a half-built rule set | create and undo | undo with the context of a cancelled request | a failed wizard can be retried |
| **Backup** (`backup.go`, `cmd/panel-api`) | database, key files, archives | backup, restore, start | several replacements that are not one | the panel stays one panel |

The panel compiles a revision (one artifact per node), records what each node
should run and pushes the artifacts; the agent stages and activates them; the
data plane processes on the node poll the active file.  In the other direction
the panel polls the agents and re-pushes where a node runs something else.  Rule
sets feed the compiler; jobs run the scheduled builds of rule sets.  A client
asks the DNS front end, is given an ingress, whose proxy dials an egress relay.

## Modules

### Configuration on its way to the data plane

**`Agent`** – one node.  `handleConfig` is cut at every system call and at every
use of the mutex: `Accept` (validation and the re-push shortcut), `Stage` and
`Fill` (the two halves of `os.WriteFile`), `Readlink`, the three calls of
`swapSymlink` on the shared name `active.tmp`, `KeepPrevious`, `Commit`,
`Marshal`, `Save`, `Prune`, `Ack`.  `IOError` and `IgnoredError` are the error
paths that return and the ones that do not; `Crash` loses memory and all
requests and reloads `state.json`.  A revision stands for the pair of id and
SHA-256 the code compares.  `overlap`, `solo` and `clean` are history variables
that say which undisturbed applications have happened.

**`Loader`** – the data plane processes of a node.  The agent is an environment
that swaps, truncates or removes the file at any time; versions count its writes.  `reload`
is three steps (`Read`, `StatAfter`, `Notify`) because the file may change
between the first two.  Two writes are taken to have different stamps (mtime in
nanoseconds and size).  `WaitFor`'s deadline ends the process, which its
supervisor restarts: `Restart`.

**`DataPlane`** – a node as a whole: the steps of `Agent` and those of `Loader`,
which share nothing but the path `active/config.json`.  `Path` is what a read of
it finds on the agent's disk (the link's target, missing, torn or complete) and
`trail` numbers its changes, which are the versions of `Loader`; the file of a
`Loader` is thereby defined by the agent's disk instead of being an environment's
choice, and the agent is bounded by its pushes and faults alone.  The steps of the
processes are `Loader`'s, instantiated; `ManagedNode` is the contract.  Two
abstractions:
when overlapping requests take the path back to a file it led to before, that
counts as a change, although the stamp may be the old one (a reload of the same
revision, which the code is spared); and replacing a complete file by the same
complete file in one step is none.

**`ManagedNode`** – the contract between a node and the panel, an abstract
specification: a node comes to report only what it is being asked to apply and has
not refused, perhaps after the panel has given up waiting, and it may fall back
to something it reported before.  `DataPlane` implements it.  The nodes of
`Rollout` were written against it: `Send` and `SendFails` are a request with its
application, `NodeForgets` is `Forget`.  That second half is by inspection.

**`Rollout`** – the panel and its nodes.  A goroutine is a pair of a rollout
(or the poller) and a node, with a step and its locals.  `StartRollout` is one
transaction; everything after it is one SQL statement or one call per step:
`Send`, `Record`, `Count`, `Promote`, `Supersede`, and for the poller
`PollRound`, `Ask`.  `Expires` is a push whose 60 seconds are over: its remaining
statements fail and nobody looks.  `Slot` is `forEachNode`'s semaphore.  `Send` treats a node
as `ManagedNode` provides it: it applies or refuses, whether or not the answer
arrives, and `NodeForgets` is an agent that restarts with an older `state.json`.
Requests of two goroutines to one node take effect one after the other, so that an
answer names the revision that was pushed.  Two statements are merged with
their neighbour: the deployment record with the node's applied revision, and the
poll's answer with its record; and the SELECTs of a deploy or rollback with its
transaction.  `Node` is the set of nodes that are not disabled and have a management
address, which is constant here.

**`Jobs`** – the queue.  `Lease` is the single UPDATE; `Finish` writes by id
only; `LeaseExpires`, `BackoffEnds` and `MinuteEnds` are time passing.  A job is
its dedupe key.  The order by `run_at` is left open.

**`RuleSet`** – one rule set.  Build's and Approve's transactions are modelled by
statement at READ COMMITTED: `Scan` is what an UPDATE sees when it begins and
`Supersede` what it changes once the rows are free, because rows another
transaction commits in between are not looked at.  `Number` and `Insert` are the
sequence number and the unique constraint on it.  The list the sources add up to
is any member of `Contents`.  `Compare` reads the list in force with its errors
ignored: a failed read compares with an empty list, and `blind` remembers what was
built that way.

**`Identity`** – provisioning.  `LoadBundle` writes four files, each truncated
and then filled, then remembers the node id and saves it, or fails to; the process
may die anywhere and be started with another bundle.  `RemoveIdentity` is the
operator who removes `identity/` to provision the node anew, as the agent's message
and `SECURITY.md` tell him; `state.json` stays.  `RequestSaves` is a later request
that saves the state.

### A client's way through the data plane

**`Routing`** – from the desired state to a proxied connection.  `Compile` is
`compile` and `compiler.Compile`: services sorted by slug, ingress addresses and
targets of eligible members, the egress allowlist as the union over the services
that target it, conflicts.  `Push` lets each node move on by itself; `Query`,
`Route` and `Admit` follow one connection through a DNS front end, an ingress and
an egress that may each run another revision.  A host is a sequence of labels as
`NormalizeQName` leaves it, which the DNS front end uses; `Invalid` are those that
`NormalizeHost`, which the ingress and the egress use, refuses (a single label, a
label that begins or ends with a hyphen, names IDNA rejects): `Route` ends them as
invalid.  `Match` and `Specificity` are the two walks of the matcher; `SuffixSpec` is
the 100 from which `Specificity` subtracts the depth, with names on both sides of it.

**`Selector`** – an ingress's choice of an egress.  `Apply` makes a new pool that
inherits the verdicts and not the counters; a probe round or a dial that began
before goes on with the old one.  The parts of a pool's list that a policy puts
first (`Those`) are given by rank, the k-th index that qualifies.  `observe`'s two
counters are one streak against the verdict.

**`Tunnel`** – the handlers of the proxy and of the relay and `Splice`.  The
count, the comparison and the return of a slot are steps of their own; a copier
reads, writes, and ends on EOF, on an error or after the idle time; each
direction half-closes by itself.

**`Limiter`**, **`TokenBucket`** – `allow` takes the time (`Stamp`) before the
lock (`Take`), refills, and once a period deletes idle buckets.  `TokenBucket` is
what it promises: a bucket per prefix that exists for ever, refilled at each tick,
to which at most a grace is forgiven now and then.  `Limiter` implements it
(`ForgetsLittle`) under a mapping that brings a bucket's tokens up to the present and
takes a missing bucket for a full one; the cap is larger than burst by what is earned
in the longest lag between the time a query takes and its turn at the lock.  Only the
deletion of a bucket forgives, and `Grace` is the part of the burst that its idle time
cannot have earned: none for ordinary settings, more for a burst of more than about
five minutes' worth, which no check of the settings excludes.

**`DnsFrontend`** – one query: admission, limiter, lookup, synthesis, forwarding
with a slot of the inflight channel, while `Router.Apply` and `Server.Reload`
come between its three reads of the table.  `open` says that some revision in force
since the query came would forward it; `Covered` are the types `synthesize` answers
itself, of one type each for its cases; ANY and DNAME fall into its default like MX.

**`Certificates`** – the agent's two writes, a crash between them, the start of
the front end, and handshakes that stat, read the chain, read the key and store.

### The panel's requests

**`AuthSessions`**, **`Inventory`**, **`Devices`**, **`Wizard`** and **`Backup`**
– handlers cut at their SQL statements or file operations, with those of other
requests in between, statements that fail and processes that die.  A statement whose
error the code ignores may fail without stopping its handler, and a cancelled request
ends between any two: `CutOff`, `Abandon`, the failing `LookUpKey`.  Constraints
of the database (unique names, foreign keys) belong to the statement that would
break them.  Where the code gives no guarantee, a history variable marks what is
affected (`overlaps`, `raced`, `spared`, `lapses`, `astray`, `excused`, `broken`), so that
the properties say exactly how far the promise goes.

### Instances

The `MC*` modules add model values, symmetry and composition.  `MCDataPlane`
instantiates the composed node.  `MCNode`, `MCIngress`, `MCPanel` and `MCBackground`
put components side by side that share no state: `part` says which one moves while
the others stay in one initial state, so that each run is the union of the runs of
its components, and a property of one component is decided by the behaviours in
which it moves.  The `*Proofs` modules extend the specifications they are about;
none of them adds to a specification.  Definitions marked "Mutant" are plausible
bugs; nothing refers to them.

## Runs

| Run | Shows |
|---|---|
| `dataplane` | The agent: `NeededNeverPruned`: pruning spares the active revision while pushes do not overlap, whatever crashes, and the previous one after two undisturbed applications. `AgreesAtRest`: one undisturbed application heals every earlier disturbance. With a process that follows it: `RunsWholeAccepted` and `ReportedIsRunning` through overlapping, failing and interrupted requests; the node implements `ManagedNode` (`KeepsContract`). |
| `agent_ack` (violated) | An acknowledged revision need not be active after a crash between swap and save. |
| `node` | Loader, with two processes and an agent that may do anything to the file: `SettledIsFresh`. Selector: `NoEgressOnlyIfNone`, `VerdictsFollow`. Tunnel: `SlotsKept`, `HalfCloseDelivers`, `SessionsEnd`. |
| `loader_swap` (violated) | A swap between read and stat is missed until the next write. |
| `rollout` | `OneActive`, `ActiveRanEverywhere` over two nodes and two rollouts. |
| `rollout_live` | `Converges` past lost answers, failed calls, expired contexts and restarts of the panel and of the agent; `Finishes` without them, for two overlapping rollouts. Both over two nodes, whose rows a verdict counts together. |
| `background` | The node: `ReportedComesToRun`, every process comes to run what the agent reports. Jobs: `Exclusive`, `SucceedsOnce`, `AttemptsBounded`, `Settles` with two panels. |
| `rollout_canary` (violated) | Nodes do not wait for the canary. |
| `rollout_promote` (violated) | A revision whose last report is a failure stays `deploying`. |
| `panel` | Rule sets: `PointerAgrees`, `EmptiedOnlyByApproval` for one call at a time, `PartialNeedsApproval` always. Sessions: `OldPasswordOut`, `SecondFactorSound`, `GuessesBounded`. Backup: `PanelIsOne`. Inventory: `OperatorsWordStands`, `CreatedOnce`. Devices: `TokensMatch`. Wizard: `WizardRetries`. |
| `ruleset_empty` (violated) | Overlapping builds can replace a list by an empty one silently; so does one build that cannot read the list in force. |
| `ingress` | Routing: `OneRevisionServes`, `OneOwner`, `MatchAgrees`. Limiter: `ForgetsLittle`, the refinement. `OriginStaysHidden`, `RenewalServed`, `IdentityOfOneBundle`. |

### Bounds

* `dataplane`: three acceptable revisions, one refused, `Keep = 2`, so that pruning
  removes something on the third application; two requests, three pushes and one
  fault, so that an undisturbed application can follow an overlap or a fault; one
  process (processes do not interact), which restarts at most once and where the
  agent is undisturbed (`RestartsApart`).  In `background` the node has two acceptable
  revisions, one request at a time, three pushes, one crash and one restart of the
  process.
* `node`: three writes reach read/write/stat/write with two processes and one
  restart; two targets, thresholds 2 and 1, one reload, a weighted and a fixed
  policy; two connections against limits of one and two, one chunk each way.
* `rollout`: two interchangeable revisions that can become active and supersede
  each other, and one that a node refuses; `FanOut = 1` keeps the two nodes of one
  rollout in sequence, while the other rollout and the poller run beside it;
  one fault, and then at most one revision that all nodes accept (`FaultsApart`).  `rollout_live` has the same two nodes, and two overlapping rollouts
  without a fault or one rollout with up to two; of two runs that differ only in the
  names of the revisions or nodes it takes one (`FaultsWithOne`), because symmetry sets
  are not sound for liveness.  The two violation runs use `FanOut = 2`.
* `background`, jobs: two panels and two jobs without faults, or one job with a
  fault (`FaultsAlone`); two attempts reach retry, give-up, crash and takeover.
* `panel`: two builds that may overlap, one approver, two rows of versions; of
  the lists `{}`, `1..3` and `1..4`, the last two are within the 30% threshold of
  each other, and with `MaxAdded = 3` a first build may or may not be suspicious.
  Three requests of one account and two failures before the lock; two restores,
  one backup, one death of the process, from a panel of its own or a new host;
  two nodes, two requests, four operations; three tokens and two requests, one
  fault; two wizards, two names, two slugs, two rule sets, one cancellation.
* `ingress`: three services of two or three shapes each (suffix over suffix,
  exact, regular expressions, equal and different priorities and ports), two
  ingress and two egress nodes, of which one has no endpoint of its own and one no
  address, two revisions; a limiter with two queries in flight, a lag of one tick
  and collection after three, with a burst the idle time earns and one it does not;
  two DNS queries, one slot, two reloads; three issues, two handshakes; three starts
  with three bundles, two of them of one node.  `SuffixSpec = 5` plays the 100 of the
  code; the hosts have up to eight labels, as the code's have up to 127, and two of
  them are names `NormalizeHost` refuses.

`CHECK_DEADLOCK FALSE` is set where the model may stop: a loader when the agent
has stopped writing, tunnels when all connections are closed, requests when their
bounded number is used up.

### Fairness

* `Loader` and `DataPlane`: a running process keeps ticking and a reload that has begun ends
  (`time.Ticker`, file I/O).  No write and no restart is owed,
  and the agent owes no step.
* `Selector`: the probe loop runs for the life of the process and each handshake
  has a timeout.  No dial and no recovery of a relay is owed.
* `Tunnel`: an accepted connection's handler runs, and each of its waits has a
  deadline, except the relay's TLS handshake (`HandshakeContext` with the
  background context), which is left without fairness; so is every peer.  Writing
  the client hello to the new tunnel has no deadline of its own and is taken to
  end because it fits the socket's buffer.
* `Rollout`: every goroutine proceeds and the ticker starts the next poll round
  (calls have timeouts).  No deploy is owed; faults are finitely many.
* `Jobs`: a worker that holds a job gets through it (every fetch and dial has a
  timeout), an idle one leases what is leasable, time passes.  No job is owed.

The other modules have safety properties only.

## Proofs

Every safety property of a passing run is also a theorem: it holds for every set of
nodes, revisions, requests, workers, connections, hosts and keys, and for every
value of the bounds.  Each rests on an inductive invariant, given next to its proof
with a comment on each part.  The property alone is hardly ever inductive: it speaks
of what is seen from outside, while the invariant has to say what a request that is
half way through has already done, and what it still relies on.

* `AgentProofs`: `AgentTypeCorrect`.  `RefusedRevisionNeverServed` from
  `RejectedInv`, which adds that no request holds anything that came from a refused
  push.  `PruningSparesActive` from `PruneInv`: that `Prune` spares the active
  revision holds because memory names it at that point, which holds because the
  same request swapped the link and nobody else was in progress.
  `ApplicationHeals`, `ServedFileIsWhole` and `PruningSparesPrevious` from
  `CalmInv`: a request that had the agent to itself is alone (`Alone`), has
  established its part by program counter (`Done`), and once one such application
  was saved, disk follows memory but for the steps in between (`Follows`,
  `PreviousFollows`).  The two on pruning make `PruningSparesNeeded`.  Two results are
  stated only as theorems, `RejectedNeverServed` (no directory, link, memory or state
  file comes to name a refused revision) and `ServedNeverTorn` (the served file is not
  rewritten in place); so is `GetNeverNil` of Loader.  The composed node: `LoaderOfNode` shows that
  every step of it is one of `Loader` whose agent is not bounded, from `TrailInv`: the
  last entry of `trail` is what the path leads to.  `LoaderProofs` is instantiated with
  the node's disk, so that its lemmas are used of the processes here without being
  proved again; with the agent's invariants this gives
  `NodeRunsWholeRevisions` (every whole entry of the trail was pushed and not
  refused) and `NodeRunsWhatIsReported` (at rest the last entry is memory's revision).
  `NodeKeepsContract` is the refinement, step by step, and rests on `KnownInv`: memory, `state.json` and every half-way save of
  a request name only what has been reported before.
* `LoaderProofs`: `LoaderTypeCorrect`, `GetIsNeverNil`, `SettledRunsActiveFile` from
  `StampOfRead`: without a race the remembered stamp is that of what was read.
* `RolloutProofs`: `RolloutTypeCorrect`, `OnlyOneActive`, `ActiveMeansRan` from
  `RolloutInv`: two revisions are active only while a goroutine is about to
  supersede one of them, a revision has a deployment on every node or on none (so
  that "all applied" means all nodes), and what is recorded, or about to be, has
  run.
* `JobsProofs`: `JobIsExclusive`, `JobSucceedsOnce`, `JobAttemptsBounded` from
  `JobsInv`: a worker holds only a running job whose lease is in force, a success
  that is not yet stored is in the hands of its worker, and a job that may still be
  leased has an attempt left.
* `ProxyProofs`: `SessionLimitHolds`, `SpliceDelivers` from `TunnelInv`.  The
  counter is incremented and compared without a lock; what keeps the limit is
  `TicketsBound`: a ticket is the count at the time it was drawn, so tickets up to
  `t` are never on more than `t` connections.  `SelectorTypeCorrect`, and
  `SteadyEgressIsFound`: a dial that fails has tried every target that was up all
  along.  `OrderIsComplete` shows that every policy's order holds every target of the list
  (`RanksAreAll`: what is listed by rank leaves nothing out), and `DialKeepsSteady`
  that a dial in progress still has before it, or is trying, each target that has
  been steady since it began.
* `TokenBucketProofs`: `BucketKeepsRate`.  `RateKept` (admissions against cap, earnings and
  graces) does not know what is left in a bucket; `BucketInv` bounds the admissions and
  the level together.
* `IngressProofs`:
  - `LimiterForgetsLittle`: `Limiter` implements `TokenBucket` under the mapping of
    the run, step by step, from `LimiterInv` (a clock taken before the lock is at
    most `MaxLag` old, and no bucket is deeper in debt than a lag earns), for every
    rate, burst and idle time.  With `BucketKeepsRate` it gives
    `LimiterKeepsRate` for the code's limiter.
  - `MatchersAgree` about `Match` and `Specificity`, `LookupFindsTheOwner` about
    `Lookup`, each with what holds of every name and what of names of fewer than
    `SuffixSpec` labels, and from them `RevisionServes` and `ConflictsLeaveOneOwner`: `RoutingInv`
    says that every stored revision hangs together (`RevisionOK`), which is proved of
    whatever `Compile` accepts, and what a connection has seen so far (`FlowOK`).
  - `FrontEndHidesOrigin` (`DnsInv`: a query that has got past a read of the table
    was let past by a revision in force since it came), `RenewalIsServed` (`CertInv`: what the disk, the pair in
    memory and each handshake know of the issues, in order), `ProvisionsOneBundle`
    (`IdentityInv`: which files a provisioning in progress has written, that the last
    one it writes is what makes the node provisioned, and whose id memory and
    `state.json` hold).
* `PanelProofs`:
  - `PartialIsApproved`, `PointerFollows`, `NothingEmptiedSilently`
    from `RuleSetInv`: rows of transactions in progress are their own, uncommitted and
    (`Serial`) about what is still in force while calls do not overlap.
  - `OldPasswordIsOut`, `SecondFactorIsSound`, `GuessesAreBounded` from `AuthInv`: what
    a request has read is current, or it is marked as overtaken; sessions that a change
    left behind are marked as spared; failures that are not counted yet are those of
    requests that are about to.
  - `RestoredPanelIsOne` from `BackupInv`: a restore that met no other has done its
    stages in order (`RestoreOK`), between restores everything is one panel's
    (`AtRest`), and a clean backup has packed that panel so far (`PackingOK`).
  - `OperatorsDecide`, `KeyCreatesOnce` from `InventoryInv`: equal versions mean equal
    contents, and the nodes of a key are accounted for by requests in progress, the key
    and the lapses.
  - `TokensFollowProfiles` from `DevicesInv`: list and profiles differ only by
    tokens in the hands of an edit, and the copy an edit is about to write differs
    from the list only in its own token and in those that have gone astray.
    `WizardCanBeRetried` from `WizardInv`.

Four of the theorems are about steps rather than states: `ActiveMeansRan`,
`NothingEmptiedSilently` and the refinements `LimiterForgetsLittle` and
`NodeKeepsContract`.

Two attempts failed for a good reason and corrected a model.  In `Loader` only a
complete file could become torn, while a swap can lead from anything to a file that
an overlapping request has just truncated: the agent did not implement it until
the guard was dropped.  And the nodes of `Rollout` never lost what they had
applied, which an agent that dies between its swap and its save does: hence
`NodeForgets`.

The assumptions are those named in the modules.  Most say that bounds are natural
numbers and that "none" is no element of the set it is added to.  The others come
from the code: a group's policy has a known mode and at least one target; `Keep` and
the thresholds are positive; ids of services are finitely many naturals and
priorities integers (columns of the database); a name has at least one label; rate
and burst are positive (`configure` sees to it); no role is both ingress and egress;
builders and approvers are different calls.

Only model-checked:

* Liveness: `Converges`, `Finishes`, `Settles`,
  `VerdictsFollow`, `SessionsEnd`, `ReportedComesToRun`.  The prover has no rules for fairness.
* The violation runs, whose counterexamples are what they show.

## Findings

Five places where a comment or a text of the interface says more than the code
does, each with a violation run: `agent_ack`, `loader_swap`, `rollout_canary`,
`rollout_promote`, `ruleset_empty` (see `PROJECT.json`).

Limits of what the code promises, which the properties state as exceptions:

* A login that checked the old password before a change keeps the session it is
  given after it, and a change whose request is cancelled, or whose DELETE fails, leaves
  the other sessions, although it answers "updated" and the comment at
  `session.go:288` says that every other session is invalidated (`OldPasswordOut`).  A
  wrong guess whose request is cancelled before its UPDATE is not counted
  (`GuessesBounded`).  A code checked against one secret may enable
  another that was set up meanwhile (`SecondFactorSound`).
* A request repeated before the first is over, or with a lookup that fails, or after
  the panel died or the client went away between the commit and the storing of the
  key, creates a second node (`CreatedOnce`).
* A rejection that comes between Approve's SELECT and its UPDATE is overwritten, and a
  version in force can be rejected and stays in force (`disowned` in `PointerAgrees`).
* If the list in force cannot be read, a build compares with nothing: a short or an
  empty list is not suspicious then, and `auto_apply` puts it into force
  (`EmptiedOnlyByApproval`).
* A failed read of the token list counts as an empty list and the next write
  drops all tokens; overlapping edits lose updates (`TokensMatch`).
* The wizard undoes with the context of its request, so that a cancelled request
  leaves a rule set whose name blocks the retry (`WizardRetries`).
* A restore that breaks off between the database and the last key file, or two
  that overlap, leave keys of another panel; a later whole restore makes up for
  it (`PanelIsOne`).  After an error of `pg_restore` there is no restart, although
  the comment relies on one.
* An agent that dies before `saveState` serves without a node id, and one that
  dies while writing `panel.fp` keeps a torn pin.  A node that is provisioned anew for
  another id, with `identity/` removed as documented, keeps the old id in `state.json`;
  if it dies before the new one is saved, or the save fails, it comes back with the new
  bundle's files and the old id (`IdentityOfOneBundle`).
* A crash between `privkey.pem` and `fullchain.pem` leaves a pair that does not
  match; a running front end serves the old one, one that starts then has no TLS
  until it is restarted, and an unforced issue is skipped (`RenewalServed` speaks
  of handshakes of a listener that is up).
* An ingress that does not carry the service of the highest priority may see two
  others claim a host with equal right, and overlapping regular expressions are
  not compared at all (`OneOwner`).  Nodes on different revisions refuse each
  other's promises, and the refusal of an egress ends the dial
  (`OneRevisionServes`); an excluded egress gets an empty allowlist at once.
* The DNS front end promises names that no ingress takes, because it normalises them
  less strictly: a name with a label that begins or ends with a hyphen under a managed
  suffix, or a single label a regular expression matches, is answered with an ingress,
  which closes the connection as `invalid_sni` (`OneRevisionServes`).
* `Specificity` is 100 less the depth of the suffix's cut: for names of about 100 labels a
  suffix ranks like a regular expression or below, and for longer ones the lookup
  misses what `Match` covers (`MatchAgrees`, `OneOwner`).
* Queries of type ANY and DNAME for a managed name are forwarded, as "non-address
  metadata" (`server.go:185`), and may bring the addresses of the origin
  (`OriginStaysHidden` speaks of the types `synthesize` covers).
* Deleting an idle bucket forgives what its idle time has not earned back (`Grace`).
  With the default burst of five seconds' worth that is nothing.
* A silent peer can hold a relay's slot in the TLS handshake (`SessionsEnd`).
* `Splice` waits for both directions, where its comment says either.

## Plan

Modelled in the order of importance: Agent, Loader, Rollout, Jobs, RuleSet first;
then Routing, Selector, Tunnel, Limiter with its abstraction, DnsFrontend,
Certificates and Identity; then AuthSessions, Backup, Inventory, Devices and
Wizard; last DataPlane, which composes the first two.  Proved in the order of the
list above.  Next:

1. Proofs of what the properties leave unsaid and the invariants already know: that
   a job which succeeded stays done as a property of steps, that versions of a node
   and of its content move together, that `Lookup` of an ingress is stable under
   services it does not carry.
2. `Rollout` over nodes that are instances of `ManagedNode`, with requests that
   overlap at one node, so that what it assumes of them is shown and not read.
3. The order by latency with hysteresis in Selector.

## Not modelled

Network I/O and parsing (fetcher, client hello, DNS wire format), cryptography
(PKI, TOTP, passwords), metrics and logging, the web interface, installation
scripts and migrations.  Within modelled parts: node health beyond the status,
the text side of normalisation and merging of domain lists, the ACME exchange, the order by latency
in Selector, the reads of the desired state before a compilation (one step here,
several statements in the code), `patchGroup` and `putSettings`, the two
statements merged in `Rollout`, and the mixing of two overlapping writes of
`state.json.tmp`.
