------------------------------- MODULE Agent -------------------------------
(***************************************************************************)
(* The node agent's configuration handler (agent/internal/agentcore).      *)
(*                                                                         *)
(* The panel POSTs whole revisions to /v1/config.  handleConfig validates  *)
(* the body, stages it under revisions/<id>/config.json, swaps the         *)
(* `active' symlink, remembers what it applied in memory, persists that in *)
(* state.json, prunes old revisions and acknowledges.  net/http runs every *)
(* request in its own goroutine and the handler takes the mutex only       *)
(* around single fields, so two pushes interleave between any two system   *)
(* calls; the process can be killed between any two of them as well.       *)
(*                                                                         *)
(* A revision's artifact is immutable (the panel stores it once and pushes *)
(* it verbatim), so the pair (revision id, SHA-256) the code compares is   *)
(* the revision itself here, and AppliedSequence follows the revision.     *)
(***************************************************************************)
EXTENDS Integers, FiniteSets

CONSTANTS
  Rev,       \* revision ids the panel may push to this node
  Rejected,  \* those whose artifact validate() refuses on this node
  Handlers,  \* concurrent POST /v1/config requests
  Keep,      \* Config.KeepRevisions
  MaxPushes, \* bound: valid pushes received
  MaxFaults, \* bound: crashes and I/O errors
  None       \* no revision: an empty string, a missing link

ASSUME RejectedAssumption == Rejected \subseteq Rev
ASSUME KeepAssumption == Keep \in Nat \ {0}
ASSUME NoneAssumption == None \notin Rev /\ None \notin Handlers
ASSUME BoundAssumption == MaxPushes \in Nat /\ MaxFaults \in Nat

VARIABLES
  content,   \* revisions/<id>/config.json: absent, truncated, or complete
  newer,     \* newer[r]: directories created after r's (the mtime order)
  active,    \* target of the `active' symlink
  previous,  \* target of the `previous' symlink
  tmpLink,   \* target of active.tmp, the name swapSymlink always goes through
  saved,     \* state.json: applied and previous revision
  mem,       \* a.state, the same pair in memory
  degraded,  \* a.degraded
  pc,        \* where each request is in handleConfig
  rev,       \* the revision each request carries
  prevTarget,\* prevTarget of each request
  snap,      \* the State each request marshalled in saveState
  resp,      \* the applied_revision_id of the last acknowledgement
  solo,      \* history: the request that has had the agent to itself
  overlap,   \* history: two requests have been in progress at once
  clean,     \* history: undisturbed applications since the last fault (0..2)
  pushes,    \* valid pushes so far
  faults     \* crashes and I/O errors so far

disk == <<content, newer, active, previous, tmpLink, saved>>
local == <<pc, rev, prevTarget, snap>>
history == <<solo, overlap, clean, pushes, faults>>
vars == <<disk, mem, degraded, local, resp, history>>
-----------------------------------------------------------------------------
RevOrNone == Rev \cup {None}
State == [applied : RevOrNone, prior : RevOrNone]
FileState == {"absent", "partial", "complete"}
Steps == {"idle", "stage", "fill", "readlink", "unlink", "link", "rename",
          "previous", "commit", "marshal", "save", "prune", "ack"}

Present == {r \in Rev : content[r] # "absent"}
Idle == \A h \in Handlers : pc[h] = "idle"

TypeOK ==
  /\ content \in [Rev -> FileState]
  /\ newer \in [Rev -> SUBSET Rev]
  /\ active \in RevOrNone /\ previous \in RevOrNone /\ tmpLink \in RevOrNone
  /\ saved \in State /\ mem \in State
  /\ degraded \in BOOLEAN
  /\ pc \in [Handlers -> Steps]
  /\ rev \in [Handlers -> RevOrNone]
  /\ \A h \in Handlers : pc[h] = "idle" <=> rev[h] = None
  /\ prevTarget \in [Handlers -> RevOrNone]
  /\ snap \in [Handlers -> State]
  /\ resp \in RevOrNone
  /\ solo \in Handlers \cup {None}
  /\ overlap \in BOOLEAN
  /\ clean \in 0..2
  /\ pushes \in 0..MaxPushes /\ faults \in 0..MaxFaults

NoState == [applied |-> None, prior |-> None]

\* A provisioned agent on an empty state directory: New, then loadState finds
\* no revision.
Init ==
  /\ content = [r \in Rev |-> "absent"]
  /\ newer = [r \in Rev |-> {}]
  /\ active = None /\ previous = None /\ tmpLink = None
  /\ saved = NoState /\ mem = NoState
  /\ degraded = FALSE
  /\ pc = [h \in Handlers |-> "idle"]
  /\ rev = [h \in Handlers |-> None]
  /\ prevTarget = [h \in Handlers |-> None]
  /\ snap = [h \in Handlers |-> NoState]
  /\ resp = None
  /\ solo = None /\ overlap = FALSE /\ clean = 2
  /\ pushes = 0 /\ faults = 0
-----------------------------------------------------------------------------
Go(h, from, to) == pc[h] = from /\ pc' = [pc EXCEPT ![h] = to]

\* The request returns: its locals die with it.
Return(h) ==
  /\ pc' = [pc EXCEPT ![h] = "idle"]
  /\ rev' = [rev EXCEPT ![h] = None]
  /\ prevTarget' = [prevTarget EXCEPT ![h] = None]
  /\ snap' = [snap EXCEPT ![h] = NoState]

\* History of disturbance: starting while another request is in progress.
Begin(h) ==
  /\ pushes < MaxPushes
  /\ pushes' = pushes + 1
  /\ UNCHANGED faults
  /\ IF \A g \in Handlers \ {h} : pc[g] = "idle"
     THEN solo' = h /\ UNCHANGED <<overlap, clean>>
     ELSE solo' = None /\ overlap' = TRUE /\ clean' = 0

\* History of disturbance: an I/O error.
Disturbed ==
  /\ faults < MaxFaults
  /\ faults' = faults + 1
  /\ clean' = 0
  /\ UNCHANGED <<solo, overlap, pushes>>
Undisturbed == UNCHANGED history

\* json.Unmarshal or validate fails: setErr, 400, nothing else is touched.
Reject(h, r) ==
  /\ pc[h] = "idle"
  /\ r \in Rejected
  /\ degraded' = TRUE
  /\ UNCHANGED <<disk, mem, local, resp, history>>

\* The body is read and valid; the revision in memory decides whether the
\* push is a re-push to acknowledge or a revision to apply.
Accept(h, r) ==
  /\ pc[h] = "idle"
  /\ r \in Rev \ Rejected
  /\ pc' = [pc EXCEPT ![h] = IF r = mem.applied THEN "ack" ELSE "stage"]
  /\ rev' = [rev EXCEPT ![h] = r]
  /\ resp' = None
  /\ Begin(h)
  /\ UNCHANGED <<disk, mem, degraded, prevTarget, snap>>

\* MkdirAll and the open(O_TRUNC) of os.WriteFile: a directory created here is
\* the newest one, an existing one keeps its mtime.
Stage(h) ==
  /\ Go(h, "stage", "fill")
  /\ content' = [content EXCEPT ![rev[h]] = "partial"]
  /\ newer' = IF rev[h] \in Present THEN newer
              ELSE [r \in Rev |-> IF r = rev[h] THEN {}
                                  ELSE IF r \in Present THEN newer[r] \cup {rev[h]}
                                  ELSE newer[r]]
  /\ Undisturbed
  /\ UNCHANGED <<active, previous, tmpLink, saved, mem, degraded, rev, prevTarget, snap, resp>>

\* The write of os.WriteFile.  The file may have been removed by a concurrent
\* prune since it was opened; then the bytes go nowhere.
Fill(h) ==
  /\ Go(h, "fill", "readlink")
  /\ content' = [content EXCEPT ![rev[h]] = IF @ = "absent" THEN @ ELSE "complete"]
  /\ Undisturbed
  /\ UNCHANGED <<newer, active, previous, tmpLink, saved, mem, degraded, rev, prevTarget, snap, resp>>

Readlink(h) ==
  /\ Go(h, "readlink", "unlink")
  /\ prevTarget' = [prevTarget EXCEPT ![h] = active]
  /\ Undisturbed
  /\ UNCHANGED <<disk, mem, degraded, rev, snap, resp>>

\* swapSymlink(active): os.Remove(tmp), its error ignored.
SwapRemove(h) ==
  /\ Go(h, "unlink", "link")
  /\ tmpLink' = None
  /\ Undisturbed
  /\ UNCHANGED <<content, newer, active, previous, saved, mem, degraded, rev, prevTarget, snap, resp>>

\* swapSymlink(active): os.Symlink(target, tmp).
SwapSymlink(h) ==
  /\ tmpLink = None
  /\ Go(h, "link", "rename")
  /\ tmpLink' = rev[h]
  /\ Undisturbed
  /\ UNCHANGED <<content, newer, active, previous, saved, mem, degraded, rev, prevTarget, snap, resp>>

\* swapSymlink(active): os.Rename(tmp, link) moves whatever tmp is by now.
SwapRename(h) ==
  /\ tmpLink # None
  /\ Go(h, "rename", "previous")
  /\ active' = tmpLink
  /\ tmpLink' = None
  /\ Undisturbed
  /\ UNCHANGED <<content, newer, previous, saved, mem, degraded, rev, prevTarget, snap, resp>>

\* swapSymlink fails because another request owns tmp (EEXIST) or has already
\* renamed it away (ENOENT): handleConfig returns the error.
SwapCollision(h) ==
  /\ \/ pc[h] = "link" /\ tmpLink # None
     \/ pc[h] = "rename" /\ tmpLink = None
  /\ Return(h)
  /\ Undisturbed
  /\ UNCHANGED <<disk, mem, degraded, resp>>

\* swapSymlink(previous, prevTarget), its error ignored.
KeepPrevious(h) ==
  /\ Go(h, "previous", "commit")
  /\ previous' = IF prevTarget[h] = None THEN previous ELSE prevTarget[h]
  /\ Undisturbed
  /\ UNCHANGED <<content, newer, active, tmpLink, saved, mem, degraded, rev, prevTarget, snap, resp>>

\* The critical section of handleConfig.
Commit(h) ==
  /\ Go(h, "commit", "marshal")
  /\ mem' = [applied |-> rev[h], prior |-> mem.applied]
  /\ degraded' = FALSE
  /\ Undisturbed
  /\ UNCHANGED <<disk, rev, prevTarget, snap, resp>>

\* saveState: the state is marshalled under the mutex ...
Marshal(h) ==
  /\ Go(h, "marshal", "save")
  /\ snap' = [snap EXCEPT ![h] = mem]
  /\ Undisturbed
  /\ UNCHANGED <<disk, mem, degraded, rev, prevTarget, resp>>

\* ... and reaches state.json by a rename after it is released.  (Overlapping
\* saves share the temporary name; that they may mix their bytes is left out.)
Save(h) ==
  /\ Go(h, "save", "prune")
  /\ saved' = snap[h]
  /\ clean' = IF solo = h THEN (IF clean = 2 THEN 2 ELSE clean + 1) ELSE 0
  /\ UNCHANGED <<solo, overlap, pushes, faults>>
  /\ UNCHANGED <<content, newer, active, previous, tmpLink, mem, degraded, rev, prevTarget, snap, resp>>

\* What pruneRevisions removes: of the directories the state in memory does
\* not name, all but the newest Keep - len(protected).
Beyond(protected) ==
  LET items == Present \ protected
  IN {r \in items : Cardinality(newer[r] \cap items) >= Keep - Cardinality(protected)}

\* Mutant: the previous revision is not protected.
ExcessForgetsPrevious == Beyond({mem.applied, None})

Excess == Beyond({mem.applied, mem.prior})

Prune(h) ==
  /\ Go(h, "prune", "ack")
  /\ content' = [r \in Rev |-> IF r \in Excess THEN "absent" ELSE content[r]]
  /\ newer' = [r \in Rev |-> IF r \in Excess THEN {} ELSE newer[r] \ Excess]
  /\ Undisturbed
  /\ UNCHANGED <<active, previous, tmpLink, saved, mem, degraded, rev, prevTarget, snap, resp>>

\* ackConfig: the revision in memory when the answer is written.
Ack(h) ==
  /\ pc[h] = "ack"
  /\ Return(h)
  /\ resp' = mem.applied
  /\ Undisturbed
  /\ UNCHANGED <<disk, mem, degraded>>
-----------------------------------------------------------------------------
\* Mutant: the error of swapSymlink(active) is dropped.
IOErrorDropped(h) ==
  /\ Go(h, "rename", "previous")
  /\ Disturbed
  /\ UNCHANGED <<disk, mem, degraded, rev, prevTarget, snap, resp>>

\* MkdirAll, os.WriteFile or swapSymlink(active) fails: the request returns
\* the error and leaves what it has done.
IOError(h) ==
  /\ pc[h] \in {"stage", "fill", "unlink", "link", "rename"}
  /\ Return(h)
  /\ Disturbed
  /\ UNCHANGED <<disk, mem, degraded, resp>>

\* swapSymlink(previous) or saveState fails: the error is dropped.
IgnoredError(h) ==
  /\ Go(h, "previous", "commit") \/ Go(h, "save", "prune")
  /\ Disturbed
  /\ UNCHANGED <<disk, mem, degraded, rev, prevTarget, snap, resp>>

\* Mutant: the symlink, not state.json, says what was applied.
CrashTrustsLink ==
  /\ faults < MaxFaults
  /\ faults' = faults + 1
  /\ pc' = [h \in Handlers |-> "idle"]
  /\ rev' = [h \in Handlers |-> None]
  /\ prevTarget' = [h \in Handlers |-> None]
  /\ snap' = [h \in Handlers |-> NoState]
  /\ mem' = [saved EXCEPT !.applied = active]
  /\ degraded' = FALSE
  /\ resp' = None
  /\ solo' = None
  /\ clean' = IF Idle THEN clean ELSE 0
  /\ UNCHANGED <<disk, overlap, pushes>>

\* The agent process dies and is restarted: every request in progress is lost,
\* New and loadState rebuild the memory from state.json.
Crash ==
  /\ faults < MaxFaults
  /\ faults' = faults + 1
  /\ pc' = [h \in Handlers |-> "idle"]
  /\ rev' = [h \in Handlers |-> None]
  /\ prevTarget' = [h \in Handlers |-> None]
  /\ snap' = [h \in Handlers |-> NoState]
  /\ mem' = saved
  /\ degraded' = FALSE
  /\ resp' = None
  /\ solo' = None
  /\ clean' = IF Idle THEN clean ELSE 0
  /\ UNCHANGED <<disk, overlap, pushes>>

Apply(h) ==
  \/ Stage(h) \/ Fill(h) \/ Readlink(h)
  \/ SwapRemove(h) \/ SwapSymlink(h) \/ SwapRename(h) \/ SwapCollision(h)
  \/ KeepPrevious(h) \/ Commit(h) \/ Marshal(h) \/ Save(h) \/ Prune(h) \/ Ack(h)

Next ==
  \/ \E h \in Handlers, r \in Rev : Reject(h, r) \/ Accept(h, r)
  \/ \E h \in Handlers : Apply(h) \/ IOError(h) \/ IgnoredError(h)
  \/ Crash

Spec == Init /\ [][Next]_vars
-----------------------------------------------------------------------------
\* Properties.

\* pruneRevisions' promise ("never removes the active ... one"): whatever
\* crashes and I/O errors happen, as long as requests have not overlapped, the
\* active symlink leads to an existing directory.
ActiveNeverPruned == ~overlap /\ active # None => content[active] # "absent"

\* The inductive strengthening of ActiveNeverPruned.  Without overlapping
\* requests at most one is in progress, and its program counter says what it
\* has already established on disk and in memory.
AtMostOne ==
  ~overlap => \A g, h \in Handlers : pc[g] # "idle" /\ pc[h] # "idle" => g = h

Staged == {"fill", "readlink", "unlink", "link", "rename"}
Swapped == {"previous", "commit", "marshal", "save", "prune"}
Committed == {"marshal", "save", "prune"}

Established ==
  ~overlap => \A h \in Handlers :
    /\ pc[h] \in Staged => content[rev[h]] # "absent"
    /\ pc[h] = "rename" => tmpLink = rev[h]
    /\ pc[h] \in Swapped => active = rev[h]
    /\ pc[h] \in Committed => mem.applied = rev[h]

PruneInv == AtMostOne /\ Established /\ ActiveNeverPruned

\* The other half of the promise: after two undisturbed applications the
\* directory the `previous' symlink leads to exists as well.
PreviousNeverPruned == clean = 2 /\ previous # None => content[previous] # "absent"

\* pruneRevisions never removes the active or the previous revision: both parts of
\* the promise, each as far as the code keeps it.
NeededNeverPruned == ActiveNeverPruned /\ PreviousNeverPruned

\* One undisturbed application heals whatever earlier crashes, I/O errors and
\* overlapping requests left: between requests, what the agent reports, what it
\* would report after a restart and what the data plane reads are the same.
AgreesAtRest ==
  Idle /\ clean >= 1 => active = mem.applied /\ saved = mem

\* The file the data plane reads is never rewritten in place: re-pushes of the
\* applied revision do not reach the disk.
ServedNeverTorn == clean >= 1 /\ active # None => content[active] = "complete"

\* A revision validate() refused on this node is never staged, linked,
\* reported or persisted, even under overlapping requests and crashes.
RejectedNeverServed ==
  /\ {active, previous, tmpLink, mem.applied, saved.applied} \cap Rejected = {}
  /\ Present \cap Rejected = {}

\* The inductive strengthening of RejectedNeverServed: nothing a request holds
\* came from a refused push either.
RejectedInv ==
  /\ RejectedNeverServed
  /\ mem.prior \notin Rejected /\ saved.prior \notin Rejected
  /\ \A h \in Handlers : {rev[h], prevTarget[h], snap[h].applied, snap[h].prior} \cap Rejected = {}

\* What the re-push comment of handleConfig relies on ("the panel reconciles
\* drift by re-sending"): an acknowledged revision is the active one.
AckedIsActive == resp # None /\ Idle => active = resp
=============================================================================
