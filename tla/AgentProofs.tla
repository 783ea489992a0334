---------------------------- MODULE AgentProofs ----------------------------
(***************************************************************************)
(* Agent for every set of revisions and requests: type correctness, that a *)
(* refused revision never reaches the disk, that pruning never removes the *)
(* active revision while pushes do not overlap, and that one application   *)
(* without a fault or another request beside it makes the disk, the memory *)
(* and the saved state agree again.                                        *)
(*                                                                         *)
(* DataPlane for every set of processes beside that: the agent is the      *)
(* environment Loader describes, so that what the agent reports is what a  *)
(* settled process runs.                                                   *)
(***************************************************************************)
EXTENDS DataPlane, TLAPS

USE RejectedAssumption, NoneAssumption, BoundAssumption, KeepAssumption

\* Pruning spares what the state in memory names.
LEMMA ExcessSpares ==
  /\ Excess \subseteq Rev
  /\ mem.applied \notin Excess
  /\ mem.prior \notin Excess
BY DEF Excess, Beyond, Present

\* Type correctness.
LEMMA TypeInit == Init => TypeOK
<1> SUFFICES ASSUME Init PROVE TypeOK
  OBVIOUS
<1>1. /\ content \in [Rev -> FileState] /\ newer \in [Rev -> SUBSET Rev]
      /\ active \in RevOrNone /\ previous \in RevOrNone /\ tmpLink \in RevOrNone
      /\ saved \in State /\ mem \in State
      /\ snap \in [Handlers -> State]
  BY DEF Init, State, NoState, FileState, RevOrNone
<1>2. /\ pc \in [Handlers -> Steps] /\ rev \in [Handlers -> RevOrNone]
      /\ \A h \in Handlers : pc[h] = "idle" <=> rev[h] = None
      /\ prevTarget \in [Handlers -> RevOrNone]
  BY DEF Init, Steps, RevOrNone
<1>3. /\ degraded \in BOOLEAN /\ overlap \in BOOLEAN
      /\ resp \in RevOrNone /\ solo \in Handlers \cup {None}
  BY DEF Init, RevOrNone
<1>4. clean \in 0..2 /\ pushes \in 0..MaxPushes /\ faults \in 0..MaxFaults
  BY DEF Init
<1> QED
  BY <1>1, <1>2, <1>3, <1>4 DEF TypeOK

\* Every step of a request, every fault and a crash keep the types.
LEMMA TypeStep == TypeOK /\ [Next]_vars => TypeOK'
<1> SUFFICES ASSUME TypeOK, [Next]_vars PROVE TypeOK'
  OBVIOUS
<1> USE DEF TypeOK, State, NoState, FileState, Steps, RevOrNone, disk, local, history,
            Go, Undisturbed
<1>1. ASSUME NEW h \in Handlers, NEW r \in Rev, Reject(h, r) PROVE TypeOK'
  BY <1>1 DEF Reject
<1>2. ASSUME NEW h \in Handlers, NEW r \in Rev, Accept(h, r) PROVE TypeOK'
  <2>1. /\ pc' \in [Handlers -> Steps] /\ rev' \in [Handlers -> RevOrNone]
        /\ \A g \in Handlers : pc'[g] = "idle" <=> rev'[g] = None
    BY <1>2 DEF Accept
  <2>2. /\ resp' \in RevOrNone /\ prevTarget' = prevTarget /\ snap' = snap
        /\ UNCHANGED <<disk, mem, degraded>>
    BY <1>2 DEF Accept
  <2>3. pushes' \in 0..MaxPushes /\ faults' \in 0..MaxFaults
    BY <1>2 DEF Accept, Begin
  <2>4. solo' \in Handlers \cup {None} /\ overlap' \in BOOLEAN /\ clean' \in 0..2
    <3>1. CASE \A g \in Handlers \ {h} : pc[g] = "idle"
      <4>1. solo' = h /\ overlap' = overlap /\ clean' = clean
        BY <1>2, <3>1, Zenon DEF Accept, Begin
      <4> QED
        BY <4>1
    <3>2. CASE ~(\A g \in Handlers \ {h} : pc[g] = "idle")
      <4>1. solo' = None /\ overlap' = TRUE /\ clean' = 0
        BY <1>2, <3>2, Zenon DEF Accept, Begin
      <4> QED
        BY <4>1
    <3> QED
      BY <3>1, <3>2
  <2> QED
    BY <2>1, <2>2, <2>3, <2>4
<1>3. ASSUME NEW h \in Handlers, Stage(h) PROVE TypeOK'
  BY <1>3 DEF Stage, Present
<1>4. ASSUME NEW h \in Handlers, Fill(h) PROVE TypeOK'
  BY <1>4 DEF Fill
<1>5. ASSUME NEW h \in Handlers, Readlink(h) PROVE TypeOK'
  BY <1>5 DEF Readlink
<1>6. ASSUME NEW h \in Handlers, SwapRemove(h) PROVE TypeOK'
  BY <1>6 DEF SwapRemove
<1>7. ASSUME NEW h \in Handlers, SwapSymlink(h) PROVE TypeOK'
  BY <1>7 DEF SwapSymlink
<1>8. ASSUME NEW h \in Handlers, SwapRename(h) PROVE TypeOK'
  BY <1>8 DEF SwapRename
<1>9. ASSUME NEW h \in Handlers, SwapCollision(h) PROVE TypeOK'
  BY <1>9 DEF SwapCollision, Return
<1>10. ASSUME NEW h \in Handlers, KeepPrevious(h) PROVE TypeOK'
  BY <1>10 DEF KeepPrevious
<1>11. ASSUME NEW h \in Handlers, Commit(h) PROVE TypeOK'
  BY <1>11 DEF Commit
<1>12. ASSUME NEW h \in Handlers, Marshal(h) PROVE TypeOK'
  BY <1>12 DEF Marshal
<1>13. ASSUME NEW h \in Handlers, Save(h) PROVE TypeOK'
  BY <1>13 DEF Save
<1>14. ASSUME NEW h \in Handlers, Prune(h) PROVE TypeOK'
  BY <1>14, ExcessSpares DEF Prune
<1>15. ASSUME NEW h \in Handlers, Ack(h) PROVE TypeOK'
  BY <1>15 DEF Ack, Return
<1>16. ASSUME NEW h \in Handlers, IOError(h) PROVE TypeOK'
  BY <1>16 DEF IOError, Return, Disturbed
<1>17. ASSUME NEW h \in Handlers, IgnoredError(h) PROVE TypeOK'
  BY <1>17 DEF IgnoredError, Disturbed
<1>18. ASSUME Crash PROVE TypeOK'
  <2>1. /\ pc' \in [Handlers -> Steps] /\ rev' \in [Handlers -> RevOrNone]
        /\ \A h \in Handlers : pc'[h] = "idle" <=> rev'[h] = None
        /\ prevTarget' \in [Handlers -> RevOrNone] /\ snap' \in [Handlers -> State]
    BY <1>18 DEF Crash
  <2>2. /\ mem' \in State /\ degraded' \in BOOLEAN /\ resp' \in RevOrNone
        /\ solo' \in Handlers \cup {None} /\ UNCHANGED <<disk, overlap, pushes>>
    BY <1>18 DEF Crash
  <2>3. faults' \in 0..MaxFaults /\ clean' \in 0..2
    BY <1>18 DEF Crash
  <2> QED
    BY <2>1, <2>2, <2>3
<1>19. CASE UNCHANGED vars
  BY <1>19 DEF vars
<1> QED
  BY <1>1, <1>2, <1>3, <1>4, <1>5, <1>6, <1>7, <1>8, <1>9, <1>10, <1>11, <1>12, <1>13,
     <1>14, <1>15, <1>16, <1>17, <1>18, <1>19 DEF Next, Apply

\* Type correctness of the agent, for every set of revisions and requests.
THEOREM AgentTypeCorrect == Spec => []TypeOK
BY TypeInit, TypeStep, PTL DEF Spec
-----------------------------------------------------------------------------
\* Pruning.

\* An empty state directory has nothing to prune.
LEMMA PruneInit == Init => PruneInv
BY DEF Init, PruneInv, AtMostOne, Established, ActiveNeverPruned, Staged, Swapped, Committed

\* Only pruneRevisions removes directories, and the request that prunes has
\* made its revision the active one in memory first.
LEMMA PruneStep == TypeOK /\ PruneInv /\ [Next]_vars => PruneInv'
<1> SUFFICES ASSUME TypeOK, PruneInv, [Next]_vars PROVE PruneInv'
  OBVIOUS
<1> USE DEF PruneInv, AtMostOne, Established, ActiveNeverPruned, Staged, Swapped, Committed,
            disk, local, history, Go, Undisturbed
<1>0. /\ content \in [Rev -> FileState] /\ active \in Rev \cup {None}
      /\ tmpLink \in Rev \cup {None}
      /\ pc \in [Handlers -> Steps] /\ rev \in [Handlers -> Rev \cup {None}]
      /\ \A h \in Handlers : pc[h] # "idle" => rev[h] \in Rev
      /\ overlap \in BOOLEAN
  BY DEF TypeOK, RevOrNone
<1>1. ASSUME NEW h \in Handlers, NEW r \in Rev, Reject(h, r) PROVE PruneInv'
  BY <1>1 DEF Reject
<1>2. ASSUME NEW h \in Handlers, NEW r \in Rev, Accept(h, r) PROVE PruneInv'
  BY <1>0, <1>2 DEF Accept, Begin
<1>3. ASSUME NEW h \in Handlers, Stage(h) PROVE PruneInv'
  BY <1>0, <1>3 DEF Stage
<1>4. ASSUME NEW h \in Handlers, Fill(h) PROVE PruneInv'
  BY <1>0, <1>4 DEF Fill
<1>5. ASSUME NEW h \in Handlers, Readlink(h) PROVE PruneInv'
  BY <1>0, <1>5 DEF Readlink
<1>6. ASSUME NEW h \in Handlers, SwapRemove(h) PROVE PruneInv'
  BY <1>0, <1>6 DEF SwapRemove
<1>7. ASSUME NEW h \in Handlers, SwapSymlink(h) PROVE PruneInv'
  BY <1>0, <1>7 DEF SwapSymlink
<1>8. ASSUME NEW h \in Handlers, SwapRename(h) PROVE PruneInv'
  BY <1>0, <1>8 DEF SwapRename
<1>9. ASSUME NEW h \in Handlers, SwapCollision(h) PROVE PruneInv'
  BY <1>0, <1>9 DEF SwapCollision, Return
<1>10. ASSUME NEW h \in Handlers, KeepPrevious(h) PROVE PruneInv'
  BY <1>0, <1>10 DEF KeepPrevious
<1>11. ASSUME NEW h \in Handlers, Commit(h) PROVE PruneInv'
  BY <1>0, <1>11 DEF Commit
<1>12. ASSUME NEW h \in Handlers, Marshal(h) PROVE PruneInv'
  BY <1>0, <1>12 DEF Marshal
<1>13. ASSUME NEW h \in Handlers, Save(h) PROVE PruneInv'
  BY <1>0, <1>13 DEF Save
<1>14. ASSUME NEW h \in Handlers, Prune(h) PROVE PruneInv'
  <2>1. ~overlap => active = mem.applied
    BY <1>0, <1>14 DEF Prune
  <2>2. ~overlap => active \notin Excess
    BY <2>1, ExcessSpares
  <2> QED
    BY <1>0, <1>14, <2>2 DEF Prune
<1>15. ASSUME NEW h \in Handlers, Ack(h) PROVE PruneInv'
  BY <1>0, <1>15 DEF Ack, Return
<1>16. ASSUME NEW h \in Handlers, IOError(h) PROVE PruneInv'
  BY <1>0, <1>16 DEF IOError, Return, Disturbed
<1>17. ASSUME NEW h \in Handlers, IgnoredError(h) PROVE PruneInv'
  BY <1>0, <1>17 DEF IgnoredError, Disturbed
<1>18. ASSUME Crash PROVE PruneInv'
  BY <1>0, <1>18 DEF Crash
<1>19. CASE UNCHANGED vars
  BY <1>19 DEF vars
<1> QED
  BY <1>1, <1>2, <1>3, <1>4, <1>5, <1>6, <1>7, <1>8, <1>9, <1>10, <1>11, <1>12, <1>13,
     <1>14, <1>15, <1>16, <1>17, <1>18, <1>19 DEF Next, Apply

\* pruneRevisions never removes the active revision's directory while pushes do
\* not overlap, whatever crashes and I/O errors happen in between.
THEOREM PruningSparesActive == Spec => []ActiveNeverPruned
<1>1. Spec => []TypeOK
  BY AgentTypeCorrect
<1>2. Spec => []PruneInv
  BY <1>1, PruneInit, PruneStep, PTL DEF Spec
<1>3. PruneInv => ActiveNeverPruned
  BY DEF PruneInv
<1> QED
  BY <1>2, <1>3, PTL
-----------------------------------------------------------------------------
\* Refused revisions.

\* Nothing is refused before the first push.
LEMMA RejectedInit == Init => RejectedInv
BY DEF Init, RejectedInv, RejectedNeverServed, NoState, Present

\* A refused push never gets past Reject, so no step passes it on.
LEMMA RejectedStep == TypeOK /\ RejectedInv /\ [Next]_vars => RejectedInv'
<1> SUFFICES ASSUME TypeOK, RejectedInv, [Next]_vars PROVE RejectedInv'
  OBVIOUS
<1> USE DEF RejectedInv, RejectedNeverServed, Present, State, NoState, RevOrNone,
            disk, local, history, Go, Undisturbed
<1>0. /\ content \in [Rev -> FileState]
      /\ mem \in State /\ saved \in State /\ snap \in [Handlers -> State]
      /\ pc \in [Handlers -> Steps] /\ rev \in [Handlers -> RevOrNone]
      /\ prevTarget \in [Handlers -> RevOrNone]
      /\ \A h \in Handlers : pc[h] # "idle" => rev[h] \in Rev
  BY DEF TypeOK
<1>1. ASSUME NEW h \in Handlers, NEW r \in Rev, Reject(h, r) PROVE RejectedInv'
  BY <1>1 DEF Reject
<1>2. ASSUME NEW h \in Handlers, NEW r \in Rev, Accept(h, r) PROVE RejectedInv'
  BY <1>0, <1>2 DEF Accept, Begin
<1>3. ASSUME NEW h \in Handlers, Stage(h) PROVE RejectedInv'
  BY <1>0, <1>3 DEF Stage
<1>4. ASSUME NEW h \in Handlers, Fill(h) PROVE RejectedInv'
  BY <1>0, <1>4 DEF Fill
<1>5. ASSUME NEW h \in Handlers, Readlink(h) PROVE RejectedInv'
  BY <1>0, <1>5 DEF Readlink
<1>6. ASSUME NEW h \in Handlers, SwapRemove(h) PROVE RejectedInv'
  BY <1>0, <1>6 DEF SwapRemove
<1>7. ASSUME NEW h \in Handlers, SwapSymlink(h) PROVE RejectedInv'
  BY <1>0, <1>7 DEF SwapSymlink
<1>8. ASSUME NEW h \in Handlers, SwapRename(h) PROVE RejectedInv'
  BY <1>0, <1>8 DEF SwapRename
<1>9. ASSUME NEW h \in Handlers, SwapCollision(h) PROVE RejectedInv'
  BY <1>0, <1>9 DEF SwapCollision, Return
<1>10. ASSUME NEW h \in Handlers, KeepPrevious(h) PROVE RejectedInv'
  BY <1>0, <1>10 DEF KeepPrevious
<1>11. ASSUME NEW h \in Handlers, Commit(h) PROVE RejectedInv'
  BY <1>0, <1>11 DEF Commit
<1>12. ASSUME NEW h \in Handlers, Marshal(h) PROVE RejectedInv'
  BY <1>0, <1>12 DEF Marshal
<1>13. ASSUME NEW h \in Handlers, Save(h) PROVE RejectedInv'
  BY <1>0, <1>13 DEF Save
<1>14. ASSUME NEW h \in Handlers, Prune(h) PROVE RejectedInv'
  BY <1>0, <1>14 DEF Prune
<1>15. ASSUME NEW h \in Handlers, Ack(h) PROVE RejectedInv'
  BY <1>0, <1>15 DEF Ack, Return
<1>16. ASSUME NEW h \in Handlers, IOError(h) PROVE RejectedInv'
  BY <1>0, <1>16 DEF IOError, Return, Disturbed
<1>17. ASSUME NEW h \in Handlers, IgnoredError(h) PROVE RejectedInv'
  BY <1>0, <1>17 DEF IgnoredError, Disturbed
<1>18. ASSUME Crash PROVE RejectedInv'
  BY <1>0, <1>18 DEF Crash
<1>19. CASE UNCHANGED vars
  BY <1>19 DEF vars
<1> QED
  BY <1>1, <1>2, <1>3, <1>4, <1>5, <1>6, <1>7, <1>8, <1>9, <1>10, <1>11, <1>12, <1>13,
     <1>14, <1>15, <1>16, <1>17, <1>18, <1>19 DEF Next, Apply

\* Nothing that came from a refused push is held anywhere.
LEMMA RejectedInvariant == Spec => []RejectedInv
BY AgentTypeCorrect, RejectedInit, RejectedStep, PTL DEF Spec

\* A revision validate() refuses never reaches the disk, a symlink, the reported
\* or the persisted state, under any interleaving of pushes, crashes and errors.
THEOREM RefusedRevisionNeverServed == Spec => []RejectedNeverServed
<1>1. RejectedInv => RejectedNeverServed
  BY DEF RejectedInv
<1> QED
  BY <1>1, RejectedInvariant, PTL
-----------------------------------------------------------------------------
\* Applications that had the agent to themselves.

\* The steps before the revision is in memory, and those after its file is
\* written.
Fresh == {"stage", "fill", "readlink", "unlink", "link", "rename", "previous", "commit"}
Written == {"readlink", "unlink", "link", "rename", "previous", "commit", "marshal", "save", "prune"}

\* A request that has had the agent to itself is alone, and every other request
\* makes an end of a clean history.
Alone == solo \in Handlers => \A g \in Handlers : g # solo => pc[g] = "idle"
CleanAlone == clean >= 1 => \A h \in Handlers : pc[h] # "idle" => solo = h

\* What such a request has established so far.
Done(h) ==
  /\ pc[h] \in Fresh => rev[h] # mem.applied
  /\ pc[h] = "fill" => content[rev[h]] # "absent"
  /\ pc[h] \in Written => content[rev[h]] = "complete"
  /\ pc[h] = "link" => tmpLink = None
  /\ pc[h] = "rename" => tmpLink = rev[h]
  /\ pc[h] \in {"unlink", "link", "rename"} => prevTarget[h] = active
  /\ pc[h] \in Swapped => active = rev[h]
  /\ pc[h] \in Committed => mem.applied = rev[h]
  /\ pc[h] = "save" => snap[h] = mem

\* After an undisturbed application the disk follows the memory, but for the
\* steps of the next application between the two.
Follows ==
  /\ (\A h \in Handlers : pc[h] \notin {"previous", "commit"}) => active = mem.applied
  /\ (\A h \in Handlers : pc[h] \notin {"marshal", "save"}) => saved = mem
  /\ mem.applied # None => content[mem.applied] = "complete"

\* The `previous' symlink goes through the request's prevTarget.
PreviousFollows ==
  /\ mem.applied = None => previous = None /\ mem.prior = None
  /\ \A h \in Handlers :
       /\ pc[h] = "previous" => prevTarget[h] = mem.applied
       /\ pc[h] = "commit" => previous = mem.applied
       /\ pc[h] \in {"marshal", "save"} => previous = mem.prior
  /\ clean = 2 /\ (\A h \in Handlers : pc[h] # "commit") => previous = mem.prior
  /\ clean = 2 \/ (\E h \in Handlers : pc[h] \in {"marshal", "save"}) =>
       (mem.prior # None => content[mem.prior] # "absent")

CalmInv ==
  /\ Alone /\ CleanAlone
  /\ \A h \in Handlers : solo = h => Done(h)
  /\ clean >= 1 => Follows /\ PreviousFollows

\* The empty agent is as after an undisturbed application.
LEMMA CalmInit == Init => CalmInv
BY DEF Init, CalmInv, Alone, CleanAlone, Done, Follows, PreviousFollows, NoState, Fresh, Written,
       Swapped, Committed

\* What the steps below need of TypeOK.
LEMMA CalmTypes ==
  ASSUME TypeOK
  PROVE  /\ content \in [Rev -> FileState] /\ mem \in State /\ saved \in State
         /\ pc \in [Handlers -> Steps] /\ rev \in [Handlers -> Rev \cup {None}]
         /\ snap \in [Handlers -> State] /\ prevTarget \in [Handlers -> Rev \cup {None}]
         /\ \A h \in Handlers : pc[h] # "idle" => rev[h] \in Rev
         /\ clean \in 0..2 /\ solo \in Handlers \cup {None}
         /\ mem.applied \in Rev \cup {None} /\ mem.prior \in Rev \cup {None}
         /\ active \in Rev \cup {None} /\ previous \in Rev \cup {None}
BY DEF TypeOK, RevOrNone, State

\* A request that finds another in progress ends the clean history; one that
\* finds none is alone, and its revision is not the one in memory.
LEMMA AcceptCalm ==
  ASSUME TypeOK, CalmInv, NEW h \in Handlers, NEW r \in Rev, Accept(h, r)
  PROVE  CalmInv'
<1> USE CalmTypes DEF CalmInv, Alone, CleanAlone, Go, Undisturbed, disk, local, history
<1>1. Alone' /\ CleanAlone'
  BY DEF Accept, Begin
<1>2. \A g \in Handlers : solo' = g => Done(g)'
  BY DEF Accept, Begin, Done, Fresh, Written, Swapped, Committed
<1>3. clean' >= 1 => Follows'
  BY DEF Accept, Begin, Done, Follows, Fresh, Written, Swapped, Committed
<1>4. clean' >= 1 => PreviousFollows'
  BY DEF Accept, Begin, Done, Follows, PreviousFollows, Fresh, Written, Swapped, Committed
<1> QED
  BY <1>1, <1>2, <1>3, <1>4

\* A clean agent truncates no file but that of a revision it does not serve.
LEMMA StageCalm ==
  ASSUME TypeOK, CalmInv, NEW h \in Handlers, Stage(h)
  PROVE  CalmInv'
<1> USE CalmTypes DEF CalmInv, Alone, CleanAlone, Go, Undisturbed, disk, local, history
<1>1. Alone' /\ CleanAlone'
  BY DEF Stage
<1>2. \A g \in Handlers : solo' = g => Done(g)'
  BY DEF Stage, Done, Fresh, Written, Swapped, Committed
<1>3. clean' >= 1 => Follows'
  BY DEF Stage, Done, Follows, Fresh, Written, Swapped, Committed
<1>4. clean' >= 1 => PreviousFollows'
  BY DEF Stage, Done, Follows, PreviousFollows, Fresh, Written, Swapped, Committed
<1> QED
  BY <1>1, <1>2, <1>3, <1>4

\* The file is whole when the request goes on.
LEMMA FillCalm ==
  ASSUME TypeOK, CalmInv, NEW h \in Handlers, Fill(h)
  PROVE  CalmInv'
<1> USE CalmTypes DEF CalmInv, Alone, CleanAlone, Go, Undisturbed, disk, local, history
<1>1. Alone' /\ CleanAlone'
  BY DEF Fill
<1>2. \A g \in Handlers : solo' = g => Done(g)'
  BY DEF Fill, Done, Fresh, Written, Swapped, Committed
<1>3. clean' >= 1 => Follows'
  BY DEF Fill, Done, Follows, Fresh, Written, Swapped, Committed
<1>4. clean' >= 1 => PreviousFollows'
  BY DEF Fill, Done, Follows, PreviousFollows, Fresh, Written, Swapped, Committed
<1> QED
  BY <1>1, <1>2, <1>3, <1>4

\* prevTarget is what the active symlink leads to.
LEMMA ReadlinkCalm ==
  ASSUME TypeOK, CalmInv, NEW h \in Handlers, Readlink(h)
  PROVE  CalmInv'
<1> USE CalmTypes DEF CalmInv, Alone, CleanAlone, Go, Undisturbed, disk, local, history
<1>1. Alone' /\ CleanAlone'
  BY DEF Readlink
<1>2. \A g \in Handlers : solo' = g => Done(g)'
  BY DEF Readlink, Done, Fresh, Written, Swapped, Committed
<1>3. clean' >= 1 => Follows'
  BY DEF Readlink, Done, Follows, Fresh, Written, Swapped, Committed
<1>4. clean' >= 1 => PreviousFollows'
  BY DEF Readlink, Done, Follows, PreviousFollows, Fresh, Written, Swapped, Committed
<1> QED
  BY <1>1, <1>2, <1>3, <1>4

\* The temporary link is free ...
LEMMA SwapRemoveCalm ==
  ASSUME TypeOK, CalmInv, NEW h \in Handlers, SwapRemove(h)
  PROVE  CalmInv'
<1> USE CalmTypes DEF CalmInv, Alone, CleanAlone, Go, Undisturbed, disk, local, history
<1>1. Alone' /\ CleanAlone'
  BY DEF SwapRemove
<1>2. \A g \in Handlers : solo' = g => Done(g)'
  BY DEF SwapRemove, Done, Fresh, Written, Swapped, Committed
<1>3. clean' >= 1 => Follows'
  BY DEF SwapRemove, Done, Follows, Fresh, Written, Swapped, Committed
<1>4. clean' >= 1 => PreviousFollows'
  BY DEF SwapRemove, Done, Follows, PreviousFollows, Fresh, Written, Swapped, Committed
<1> QED
  BY <1>1, <1>2, <1>3, <1>4

\* ... then leads to the revision of the request ...
LEMMA SwapSymlinkCalm ==
  ASSUME TypeOK, CalmInv, NEW h \in Handlers, SwapSymlink(h)
  PROVE  CalmInv'
<1> USE CalmTypes DEF CalmInv, Alone, CleanAlone, Go, Undisturbed, disk, local, history
<1>1. Alone' /\ CleanAlone'
  BY DEF SwapSymlink
<1>2. \A g \in Handlers : solo' = g => Done(g)'
  BY DEF SwapSymlink, Done, Fresh, Written, Swapped, Committed
<1>3. clean' >= 1 => Follows'
  BY DEF SwapSymlink, Done, Follows, Fresh, Written, Swapped, Committed
<1>4. clean' >= 1 => PreviousFollows'
  BY DEF SwapSymlink, Done, Follows, PreviousFollows, Fresh, Written, Swapped, Committed
<1> QED
  BY <1>1, <1>2, <1>3, <1>4

\* ... and so does the active symlink after the rename, its file whole.
LEMMA SwapRenameCalm ==
  ASSUME TypeOK, CalmInv, NEW h \in Handlers, SwapRename(h)
  PROVE  CalmInv'
<1> USE CalmTypes DEF CalmInv, Alone, CleanAlone, Go, Undisturbed, disk, local, history
<1>1. Alone' /\ CleanAlone'
  BY DEF SwapRename
<1>2. \A g \in Handlers : solo' = g => Done(g)'
  BY DEF SwapRename, Done, Fresh, Written, Swapped, Committed
<1>3. clean' >= 1 => Follows'
  BY DEF SwapRename, Done, Follows, Fresh, Written, Swapped, Committed
<1>4. clean' >= 1 => PreviousFollows'
  BY DEF SwapRename, Done, Follows, PreviousFollows, Fresh, Written, Swapped, Committed
<1> QED
  BY <1>1, <1>2, <1>3, <1>4

\* A collision ends a request that changes nothing any more.
LEMMA SwapCollisionCalm ==
  ASSUME TypeOK, CalmInv, NEW h \in Handlers, SwapCollision(h)
  PROVE  CalmInv'
<1> USE CalmTypes DEF CalmInv, Alone, CleanAlone, Go, Undisturbed, disk, local, history
<1>1. Alone' /\ CleanAlone'
  BY DEF SwapCollision, Return
<1>2. \A g \in Handlers : solo' = g => Done(g)'
  BY DEF SwapCollision, Return, Done, Fresh, Written, Swapped, Committed
<1>3. clean' >= 1 => Follows'
  BY DEF SwapCollision, Return, Done, Follows, Fresh, Written, Swapped, Committed
<1>4. clean' >= 1 => PreviousFollows'
  BY DEF SwapCollision, Return, Done, Follows, PreviousFollows, Fresh, Written, Swapped, Committed
<1> QED
  BY <1>1, <1>2, <1>3, <1>4

\* The previous symlink leads to what is still in memory.
LEMMA KeepPreviousCalm ==
  ASSUME TypeOK, CalmInv, NEW h \in Handlers, KeepPrevious(h)
  PROVE  CalmInv'
<1> USE CalmTypes DEF CalmInv, Alone, CleanAlone, Go, Undisturbed, disk, local, history
<1>1. Alone' /\ CleanAlone'
  BY DEF KeepPrevious
<1>2. \A g \in Handlers : solo' = g => Done(g)'
  BY DEF KeepPrevious, Done, Fresh, Written, Swapped, Committed
<1>3. clean' >= 1 => Follows'
  BY DEF KeepPrevious, Done, Follows, Fresh, Written, Swapped, Committed
<1>4. clean' >= 1 => PreviousFollows'
  BY DEF KeepPrevious, Done, Follows, PreviousFollows, Fresh, Written, Swapped, Committed
<1> QED
  BY <1>1, <1>2, <1>3, <1>4

\* The revision in memory becomes the prior one, its file whole.
LEMMA CommitCalm ==
  ASSUME TypeOK, CalmInv, NEW h \in Handlers, Commit(h)
  PROVE  CalmInv'
<1> USE CalmTypes DEF CalmInv, Alone, CleanAlone, Go, Undisturbed, disk, local, history
<1>1. Alone' /\ CleanAlone'
  BY DEF Commit
<1>2. \A g \in Handlers : solo' = g => Done(g)'
  BY DEF Commit, Done, Fresh, Written, Swapped, Committed
<1>3. clean' >= 1 => Follows'
  BY DEF Commit, Done, Follows, Fresh, Written, Swapped, Committed
<1>4. clean' >= 1 => PreviousFollows'
  BY DEF Commit, Done, Follows, PreviousFollows, Fresh, Written, Swapped, Committed
<1> QED
  BY <1>1, <1>2, <1>3, <1>4

\* The state is marshalled as it is in memory.
LEMMA MarshalCalm ==
  ASSUME TypeOK, CalmInv, NEW h \in Handlers, Marshal(h)
  PROVE  CalmInv'
<1> USE CalmTypes DEF CalmInv, Alone, CleanAlone, Go, Undisturbed, disk, local, history
<1>1. Alone' /\ CleanAlone'
  BY DEF Marshal
<1>2. \A g \in Handlers : solo' = g => Done(g)'
  BY DEF Marshal, Done, Fresh, Written, Swapped, Committed
<1>3. clean' >= 1 => Follows'
  BY DEF Marshal, Done, Follows, Fresh, Written, Swapped, Committed
<1>4. clean' >= 1 => PreviousFollows'
  BY DEF Marshal, Done, Follows, PreviousFollows, Fresh, Written, Swapped, Committed
<1> QED
  BY <1>1, <1>2, <1>3, <1>4

\* An undisturbed application ends here: what follows is clean.
LEMMA SaveCalm ==
  ASSUME TypeOK, CalmInv, NEW h \in Handlers, Save(h)
  PROVE  CalmInv'
<1> USE CalmTypes DEF CalmInv, Alone, CleanAlone, Go, Undisturbed, disk, local, history
<1>1. Alone' /\ CleanAlone'
  BY DEF Save
<1>2. \A g \in Handlers : solo' = g => Done(g)'
  BY DEF Save, Done, Fresh, Written, Swapped, Committed
<1>3. clean' >= 1 => Follows'
  BY DEF Save, Done, Follows, Fresh, Written, Swapped, Committed
<1>4. clean' >= 1 => PreviousFollows'
  BY DEF Save, Done, Follows, PreviousFollows, Fresh, Written, Swapped, Committed
<1> QED
  BY <1>1, <1>2, <1>3, <1>4

\* The two revisions in memory are spared.
LEMMA PruneCalm ==
  ASSUME TypeOK, CalmInv, NEW h \in Handlers, Prune(h)
  PROVE  CalmInv'
<1> USE CalmTypes DEF CalmInv, Alone, CleanAlone, Go, Undisturbed, disk, local, history
<1>0. \A q \in Rev : q \in {mem.applied, mem.prior} => content'[q] = content[q]
  BY ExcessSpares DEF Prune
<1>1. Alone' /\ CleanAlone'
  BY DEF Prune
<1>2. \A g \in Handlers : solo' = g => Done(g)'
  BY DEF Prune, Done, Fresh, Written, Swapped, Committed
<1>3. clean' >= 1 => Follows'
  BY <1>0 DEF Prune, Done, Follows, Fresh, Written, Swapped, Committed
<1>4. clean' >= 1 => PreviousFollows'
  BY <1>0 DEF Prune, Done, Follows, PreviousFollows, Fresh, Written, Swapped, Committed
<1> QED
  BY <1>1, <1>2, <1>3, <1>4

\* The acknowledgement touches neither disk nor memory.
LEMMA AckCalm ==
  ASSUME TypeOK, CalmInv, NEW h \in Handlers, Ack(h)
  PROVE  CalmInv'
<1> USE CalmTypes DEF CalmInv, Alone, CleanAlone, Go, Undisturbed, disk, local, history
<1>1. Alone' /\ CleanAlone'
  BY DEF Ack, Return
<1>2. \A g \in Handlers : solo' = g => Done(g)'
  BY DEF Ack, Return, Done, Fresh, Written, Swapped, Committed
<1>3. clean' >= 1 => Follows'
  BY DEF Ack, Return, Done, Follows, Fresh, Written, Swapped, Committed
<1>4. clean' >= 1 => PreviousFollows'
  BY DEF Ack, Return, Done, Follows, PreviousFollows, Fresh, Written, Swapped, Committed
<1> QED
  BY <1>1, <1>2, <1>3, <1>4

\* An error ends the clean history ...
LEMMA IOErrorCalm ==
  ASSUME TypeOK, CalmInv, NEW h \in Handlers, IOError(h)
  PROVE  CalmInv'
<1> USE CalmTypes DEF CalmInv, Alone, CleanAlone, Go, Undisturbed, disk, local, history
<1>1. Alone' /\ CleanAlone'
  BY DEF IOError, Return, Disturbed
<1>2. \A g \in Handlers : solo' = g => Done(g)'
  BY DEF IOError, Return, Disturbed, Done, Fresh, Written, Swapped, Committed
<1>3. clean' >= 1 => Follows'
  BY DEF IOError, Return, Disturbed, Done, Follows, Fresh, Written, Swapped, Committed
<1>4. clean' >= 1 => PreviousFollows'
  BY DEF IOError, Return, Disturbed, Done, Follows, PreviousFollows, Fresh, Written, Swapped, Committed
<1> QED
  BY <1>1, <1>2, <1>3, <1>4

\* ... also one that handleConfig drops.
LEMMA IgnoredErrorCalm ==
  ASSUME TypeOK, CalmInv, NEW h \in Handlers, IgnoredError(h)
  PROVE  CalmInv'
<1> USE CalmTypes DEF CalmInv, Alone, CleanAlone, Go, Undisturbed, disk, local, history
<1>1. Alone' /\ CleanAlone'
  BY DEF IgnoredError, Disturbed
<1>2. \A g \in Handlers : solo' = g => Done(g)'
  BY DEF IgnoredError, Disturbed, Done, Fresh, Written, Swapped, Committed
<1>3. clean' >= 1 => Follows'
  BY DEF IgnoredError, Disturbed, Done, Follows, Fresh, Written, Swapped, Committed
<1>4. clean' >= 1 => PreviousFollows'
  BY DEF IgnoredError, Disturbed, Done, Follows, PreviousFollows, Fresh, Written, Swapped, Committed
<1> QED
  BY <1>1, <1>2, <1>3, <1>4

\* After a crash between requests the memory is what it was.
LEMMA CrashCalm ==
  ASSUME TypeOK, CalmInv, Crash
  PROVE  CalmInv'
<1>1. /\ \A h \in Handlers : pc'[h] = "idle"
      /\ solo' = None /\ mem' = saved
      /\ UNCHANGED <<content, active, previous, tmpLink, saved>>
      /\ clean' = IF Idle THEN clean ELSE 0
  BY DEF Crash, disk
<1>2. Alone' /\ CleanAlone' /\ \A h \in Handlers : solo' = h => Done(h)'
  BY <1>1, NoneAssumption DEF Alone, CleanAlone
<1>3. ASSUME clean' >= 1
      PROVE  Follows' /\ PreviousFollows'
  <2>1. Idle /\ clean' = clean
    BY <1>1, <1>3
  <2>2. Follows /\ PreviousFollows
    BY <1>3, <2>1 DEF CalmInv
  <2>3. saved = mem /\ mem' = mem
    BY <1>1, <2>1, <2>2 DEF Follows, Idle
  <2>4. Follows'
    BY <1>1, <2>1, <2>2, <2>3 DEF Follows, Idle
  <2>5. PreviousFollows'
    BY <1>1, <2>1, <2>2, <2>3 DEF PreviousFollows, Idle
  <2> QED
    BY <2>4, <2>5
<1> QED
  BY <1>2, <1>3 DEF CalmInv

\* Every step keeps CalmInv.
LEMMA CalmStep == TypeOK /\ CalmInv /\ [Next]_vars => CalmInv'
<1> SUFFICES ASSUME TypeOK, CalmInv, [Next]_vars PROVE CalmInv'
  OBVIOUS
<1>1. CASE UNCHANGED vars \/ \E h \in Handlers, r \in Rev : Reject(h, r)
  <2>1. UNCHANGED <<content, active, previous, tmpLink, saved, mem, pc, rev, prevTarget, snap, solo, clean>>
    BY <1>1 DEF vars, Reject, disk, local, history
  <2> QED
    BY <2>1 DEF CalmInv, Alone, CleanAlone, Done, Follows, PreviousFollows
<1> QED
  BY <1>1, AcceptCalm, StageCalm, FillCalm, ReadlinkCalm, SwapRemoveCalm, SwapSymlinkCalm,
     SwapRenameCalm, SwapCollisionCalm, KeepPreviousCalm, CommitCalm, MarshalCalm, SaveCalm,
     PruneCalm, AckCalm, IOErrorCalm, IgnoredErrorCalm, CrashCalm DEF Next, Apply

\* Each request that has the agent to itself establishes its part on the disk and
\* in memory, and from the first such application on the disk follows the memory.
THEOREM CalmInvariant == Spec => []CalmInv
BY AgentTypeCorrect, CalmInit, CalmStep, PTL DEF Spec

\* Between requests the active symlink, the memory and state.json agree after one
\* undisturbed application, whatever crashes, I/O errors and overlapping requests
\* came before.
THEOREM ApplicationHeals == Spec => []AgreesAtRest
<1>1. TypeOK /\ CalmInv => AgreesAtRest
  BY DEF CalmInv, Follows, AgreesAtRest, Idle
<1> QED
  BY <1>1, AgentTypeCorrect, CalmInvariant, PTL

\* From then on the data plane never reads a half-written file: a re-push of the
\* applied revision is not staged again.
THEOREM ServedFileIsWhole == Spec => []ServedNeverTorn
<1>1. TypeOK /\ CalmInv => ServedNeverTorn
  <2> SUFFICES ASSUME TypeOK, CalmInv, clean >= 1, active # None
               PROVE  content[active] = "complete"
    BY DEF ServedNeverTorn
  <2>1. CASE \A h \in Handlers : pc[h] \notin {"previous", "commit"}
    BY <2>1 DEF CalmInv, Follows
  <2>2. CASE \E h \in Handlers : pc[h] \in {"previous", "commit"}
    BY <2>2 DEF CalmInv, CleanAlone, Done, Written, Swapped
  <2> QED
    BY <2>1, <2>2
<1> QED
  BY <1>1, AgentTypeCorrect, CalmInvariant, PTL

\* After a second one pruneRevisions spares what the previous symlink leads to.
THEOREM PruningSparesPrevious == Spec => []PreviousNeverPruned
<1>1. TypeOK /\ CalmInv => PreviousNeverPruned
  <2> SUFFICES ASSUME TypeOK, CalmInv, clean = 2, previous # None
               PROVE  content[previous] # "absent"
    BY DEF PreviousNeverPruned
  <2>1. Follows /\ PreviousFollows
    BY DEF CalmInv
  <2>2. CASE \A h \in Handlers : pc[h] # "commit"
    BY <2>1, <2>2 DEF PreviousFollows
  <2>3. CASE \E h \in Handlers : pc[h] = "commit"
    <3>1. previous = mem.applied
      BY <2>1, <2>3 DEF PreviousFollows
    <3> QED
      BY <2>1, <3>1 DEF Follows
  <2> QED
    BY <2>2, <2>3
<1> QED
  BY <1>1, AgentTypeCorrect, CalmInvariant, PTL

\* Both together: what pruneRevisions says of itself.
THEOREM PruningSparesNeeded == Spec => []NeededNeverPruned
BY PruningSparesActive, PruningSparesPrevious, PTL DEF NeededNeverPruned
-----------------------------------------------------------------------------
\* The agent and the processes that follow it.

USE DataPlaneAssumption

LP == INSTANCE LoaderProofs WITH file <- File, pc <- at, MaxWrites <- 0

\* The agent of a node is an Agent.
LEMMA AgentOfNode == DataPlaneSpec => Spec
<1>1. DataPlaneInit => Init
  BY DEF DataPlaneInit
<1>2. [DataPlaneNext]_planeVars => [Next]_vars
  BY DEF DataPlaneNext, AgentStep, PollStep, ReloadStep, RestartStep, planeVars
<1> QED
  BY <1>1, <1>2, PTL DEF DataPlaneSpec, Spec

\* What the path leads to is one of the three things Loader distinguishes.
LEMMA PathType ==
  /\ Path.state \in L!FileStates
  /\ Path.state = "missing" <=> Path = Missing
  /\ Path # Missing => Path.rev = active /\ active \in Rev
  /\ TypeOK => Path \in [rev : RevOrNone, state : L!FileStates]
<1>1. Missing.state = "missing" /\ Missing.rev = None
  BY DEF Missing
<1>2. CASE active \notin Present
  BY <1>1, <1>2 DEF Path, Missing, L!FileStates, RevOrNone
<1>3. CASE active \in Present
  <2>1. Path = [rev |-> active, state |-> IF content[active] = "complete" THEN "valid" ELSE "torn"]
    BY <1>3 DEF Path
  <2>2. Path.rev = active /\ Path.state \in {"valid", "torn"} /\ active \in Rev
    BY <1>3, <2>1 DEF Present
  <2> QED
    BY <1>1, <2>1, <2>2 DEF L!FileStates, RevOrNone
<1> QED
  BY <1>2, <1>3

\* What the processes hold are entries of the trail, whole and accepted.
TrailInv ==
  /\ DataPlaneTypeOK
  /\ \A i \in 1..Len(trail) : trail[i].rev \notin Rejected
  /\ cur \in [Loaders -> Nat] /\ live \in [Loaders -> Nat]
  /\ \A l \in Loaders : \A v \in {cur[l], live[l]} \ {0} :
       v \in 1..Len(trail) /\ trail[v].state = "valid"

\* The path leads nowhere yet.
LEMMA TrailInit == DataPlaneInit => TrailInv
<1> SUFFICES ASSUME DataPlaneInit PROVE TrailInv
  OBVIOUS
<1>1. trail = <<>> /\ active = None
  BY DEF DataPlaneInit, Init
<1>2. cur = [l \in Loaders |-> 0] /\ live = [l \in Loaders |-> 0]
  BY DEF DataPlaneInit, L!Init
<1>3. Path = Missing
  BY <1>1, NoneAssumption DEF Path, Present
<1> QED
  BY <1>1, <1>2, <1>3 DEF TrailInv, DataPlaneTypeOK

\* Every step keeps the entries and what the processes hold of them; a step of the
\* agent that the path shows adds one.
LEMMA TrailStep ==
  TypeOK /\ TypeOK' /\ RejectedInv' /\ TrailInv /\ [DataPlaneNext]_planeVars => TrailInv'
<1> SUFFICES ASSUME TypeOK, TypeOK', RejectedInv', TrailInv, [DataPlaneNext]_planeVars
             PROVE  TrailInv'
  OBVIOUS
<1> DEFINE n == Len(trail)
           Entry == [rev : RevOrNone, state : L!FileStates]
<1>1. trail \in Seq(Entry) /\ n \in Nat
  BY DEF TrailInv, DataPlaneTypeOK
<1>2. CASE UNCHANGED <<trail, cur, live>> /\ Path' = Path
  BY <1>2 DEF TrailInv, DataPlaneTypeOK, L!FileStates, RevOrNone
<1>3. CASE AgentStep /\ Path' # Path
  <2>1. trail' = Append(trail, Path') /\ UNCHANGED <<cur, live>>
    BY <1>3 DEF AgentStep
  <2>2. Path' \in Entry
    <3>1. (TypeOK => Path \in [rev : RevOrNone, state : L!FileStates])'
      BY PathType, PTL
    <3> QED
      BY <3>1 DEF L!FileStates, RevOrNone
  <2>3. Path'.rev \notin Rejected
    <3>1. (Path # Missing => Path.rev = active)'
      BY PathType, PTL
    <3>2. Missing.rev \notin Rejected
      BY RejectedAssumption, NoneAssumption DEF Missing
    <3>3. active' \notin Rejected
      BY DEF RejectedInv, RejectedNeverServed
    <3> QED
      BY <3>1, <3>2, <3>3 DEF Missing
  <2>4. /\ trail' \in Seq(Entry) /\ Len(trail') = n + 1 /\ trail'[n + 1] = Path'
        /\ \A i \in 1..n : trail'[i] = trail[i]
    BY <1>1, <2>1, <2>2
  <2>5. DataPlaneTypeOK'
    BY <1>1, <2>4 DEF DataPlaneTypeOK, L!FileStates, RevOrNone
  <2>6. \A i \in 1..Len(trail') : trail'[i].rev \notin Rejected
    <3>1. \A i \in 1..Len(trail') : i = n + 1 \/ i \in 1..n
      BY <1>1, <2>4
    <3>2. \A i \in 1..n : trail[i].rev \notin Rejected
      BY DEF TrailInv
    <3> QED
      BY <2>3, <2>4, <3>1, <3>2
  <2>7. \A l \in Loaders : \A v \in {cur'[l], live'[l]} \ {0} :
          v \in 1..Len(trail') /\ trail'[v].state = "valid"
    BY <1>1, <2>1, <2>4 DEF TrailInv
  <2> QED
    BY <2>1, <2>5, <2>6, <2>7 DEF TrailInv
<1>4. ASSUME NEW l \in Loaders, UNCHANGED <<vars, trail, ran>>,
             L!Attempt(l) \/ L!Tick(l) \/ L!Read(l) \/ L!ReadError(l) \/ L!StatAfter(l)
               \/ L!Notify(l) \/ L!Restart(l)
      PROVE  TrailInv'
  <2>1. Path' = Path /\ trail' = trail
    BY <1>4 DEF vars, disk, Path, Present
  <2>2. DataPlaneTypeOK'
    BY <2>1 DEF TrailInv, DataPlaneTypeOK, L!FileStates, RevOrNone
  <2>3. L!Read(l) => n \in 1..n /\ trail[n].state = "valid"
    <3>1. L!Read(l) => Path.state = "valid"
      BY DEF L!Read, File
    <3>2. Missing.state # "valid"
      BY DEF Missing
    <3> QED
      BY <1>1, <3>1, <3>2 DEF TrailInv, DataPlaneTypeOK
  <2>4. /\ cur' \in [Loaders -> Nat] /\ live' \in [Loaders -> Nat]
        /\ \A k \in Loaders : /\ cur'[k] \in {cur[k], 0} \/ (L!Read(l) /\ cur'[k] = n)
                              /\ live'[k] \in {live[k], 0, cur[k]}
    BY <1>1, <1>4 DEF TrailInv, File, L!Attempt, L!Tick, L!Read, L!ReadError, L!StatAfter,
                      L!Notify, L!Restart
  <2>5. \A k \in Loaders : \A v \in {cur'[k], live'[k]} \ {0} :
          v \in 1..n /\ trail[v].state = "valid"
    BY <2>3, <2>4 DEF TrailInv
  <2> QED
    BY <2>1, <2>2, <2>4, <2>5 DEF TrailInv
<1>5. CASE UNCHANGED planeVars
  <2>1. UNCHANGED <<trail, cur, live>> /\ Path' = Path
    BY <1>5 DEF planeVars, vars, disk, loaderVars, Path, Present
  <2> QED
    BY <1>2, <2>1
<1>6. CASE AgentStep /\ Path' = Path
  BY <1>2, <1>6 DEF AgentStep, loaderVars
<1> QED
  BY <1>3, <1>4, <1>5, <1>6
  DEF DataPlaneNext, PollStep, ReloadStep, RestartStep, L!Poll, L!Reload

\* The trail and what the processes hold of it, throughout.
LEMMA TrailInvariant == DataPlaneSpec => []TrailInv
<1>1. Spec => []TypeOK /\ []RejectedInv
  BY AgentTypeCorrect, RejectedInvariant, PTL
<1> QED
  BY <1>1, AgentOfNode, TrailInit, TrailStep, PTL DEF DataPlaneSpec

\* What the agent does to the path is a write to a process that watches it, and
\* every step of a node is a step of a Loader whose environment writes.
LEMMA LoaderOfNode == TrailInv /\ [DataPlaneNext]_planeVars => [LP!OpenNext]_LP!vars
<1> SUFFICES ASSUME TrailInv, [DataPlaneNext]_planeVars PROVE [LP!OpenNext]_LP!vars
  OBVIOUS
<1>1. CASE AgentStep
  <2>1. CASE Path' = Path
    <3>1. UNCHANGED <<trail, loaderVars>>
      BY <1>1, <2>1 DEF AgentStep, loaderVars
    <3>2. File' = File
      BY <2>1, <3>1 DEF File
    <3> QED
      BY <3>1, <3>2 DEF loaderVars, LP!vars
  <2>2. CASE Path' # Path
    <3>1. /\ trail' = Append(trail, Path') /\ UNCHANGED <<at, cur, stamp, live, restarts>>
          /\ raced' = [l \in Loaders |-> raced[l] \/ at[l] = "stat"]
      BY <1>1, <2>2 DEF AgentStep
    <3>2. Len(trail') = Len(trail) + 1
      <4>1. trail \in Seq([rev : RevOrNone, state : L!FileStates])
        BY DEF TrailInv, DataPlaneTypeOK
      <4> HIDE DEF Path
      <4> QED
        BY <3>1, <4>1
    <3>3. File' = [version |-> File.version + 1, state |-> Path'.state]
      BY <3>2 DEF File
    <3>4. Path'.state \in LP!FileStates
      <4>1. (Path.state \in L!FileStates)'
        BY PathType, PTL
      <4> QED
        BY <4>1 DEF L!FileStates, LP!FileStates
    <3>5. LP!AgentWrites(Path'.state)
      BY <3>1, <3>3 DEF LP!AgentWrites
    <3> QED
      BY <3>4, <3>5 DEF LP!OpenNext
  <2> QED
    BY <2>1, <2>2
<1>2. ASSUME NEW l \in Loaders, PollStep(l) \/ ReloadStep(l) \/ RestartStep(l) PROVE LP!OpenNext
  <2>1. LP!Poll(l) \/ LP!Reload(l) \/ LP!Restart(l)
    BY <1>2
       DEF PollStep, ReloadStep, RestartStep, L!Poll, LP!Poll, L!Reload, LP!Reload,
           L!Attempt, LP!Attempt, L!Tick, LP!Tick, L!Read, LP!Read, L!ReadError, LP!ReadError,
           L!StatAfter, LP!StatAfter, L!Notify, LP!Notify, L!Restart, LP!Restart, L!Go, LP!Go
  <2> QED
    BY <2>1 DEF LP!OpenNext
<1>3. CASE UNCHANGED planeVars
  <2>1. UNCHANGED <<trail, content, active, at, cur, stamp, live, raced, restarts>>
    BY <1>3 DEF planeVars, vars, disk, loaderVars
  <2>2. File' = File
    BY <2>1 DEF File, Path, Present
  <2> QED
    BY <2>1, <2>2 DEF LP!vars
<1> QED
  BY <1>1, <1>2, <1>3 DEF DataPlaneNext

\* What is proved of Loader holds of a node's processes.
LEMMA SettledInNode == DataPlaneSpec => []L!SettledIsFresh
<1>1. DataPlaneInit => LP!LoaderInv
  <2>1. DataPlaneInit => LP!Init
    BY DEF DataPlaneInit, L!Init, LP!Init
  <2> QED
    BY <2>1, LP!LoaderInit
<1>2. LP!LoaderInv /\ [LP!OpenNext]_LP!vars => LP!LoaderInv'
  BY LP!LoaderStep
<1>3. LP!LoaderInv => L!SettledIsFresh
  BY DEF LP!LoaderInv, LP!StampOfRead, L!SettledIsFresh, L!Settled
<1> QED
  BY <1>1, <1>2, <1>3, LoaderOfNode, TrailInvariant, PTL DEF DataPlaneSpec

\* No process is given half a file or a refused revision.
THEOREM NodeRunsWholeRevisions == DataPlaneSpec => []RunsWholeAccepted
<1>1. TrailInv => RunsWholeAccepted
  BY DEF TrailInv, RunsWholeAccepted
<1> QED
  BY <1>1, TrailInvariant, PTL

\* What the agent reports is what a settled process runs.
THEOREM NodeRunsWhatIsReported == DataPlaneSpec => []ReportedIsRunning
<1>1. AgreesAtRest /\ TrailInv /\ L!SettledIsFresh => ReportedIsRunning
  <2> SUFFICES ASSUME AgreesAtRest, TrailInv, L!SettledIsFresh, Idle, clean >= 1,
                      NEW l \in Loaders, L!Settled(l), ~raced[l]
               PROVE  Running(l) = mem.applied
    BY DEF ReportedIsRunning
  <2>1. live[l] = Len(trail) /\ Path.state = "valid"
    BY DEF L!SettledIsFresh, L!Settled, File
  <2>2. Path # Missing /\ Path.rev = active
    BY <2>1, PathType
  <2>3. trail # <<>> /\ Path = trail[Len(trail)] /\ Len(trail) # 0
    BY <2>2 DEF TrailInv, DataPlaneTypeOK
  <2>4. Running(l) = active
    BY <2>1, <2>2, <2>3 DEF Running
  <2> QED
    BY <2>4 DEF AgreesAtRest
<1>2. DataPlaneSpec => []AgreesAtRest
  BY AgentOfNode, ApplicationHeals, PTL
<1> QED
  BY <1>1, <1>2, TrailInvariant, SettledInNode, PTL
-----------------------------------------------------------------------------
\* The contract with the panel.

\* What is in memory, in state.json or on its way there has been applied.
KnownInv ==
  /\ ran \subseteq Rev
  /\ mem.applied \in ran \cup {None} /\ saved.applied \in ran \cup {None}
  /\ \A h \in Handlers : snap[h].applied \in ran \cup {None}

\* What a step of the agent may do to the pairs of applied revisions.
LEMMA StatesMove ==
  ASSUME TypeOK, [Next]_vars
  PROVE  /\ saved' = saved \/ \E h \in Handlers : saved' = snap[h]
         /\ \A h \in Handlers : snap'[h] \in {snap[h], mem, NoState}
         /\ mem' \in {mem, saved} \/ \E h \in Handlers : pc[h] = "commit" /\ mem'.applied = rev[h]
<1> USE DEF TypeOK, disk, local, history, Go, Undisturbed, Return
<1>1. ASSUME NEW h \in Handlers, NEW r \in Rev, Reject(h, r) \/ Accept(h, r)
      PROVE  UNCHANGED <<mem, saved, snap>>
  BY <1>1 DEF Reject, Accept
<1>2. ASSUME NEW h \in Handlers,
             Stage(h) \/ Fill(h) \/ Readlink(h) \/ SwapRemove(h) \/ SwapSymlink(h)
               \/ SwapRename(h) \/ KeepPrevious(h) \/ Prune(h) \/ IgnoredError(h)
      PROVE  UNCHANGED <<mem, saved, snap>>
  BY <1>2 DEF Stage, Fill, Readlink, SwapRemove, SwapSymlink, SwapRename, KeepPrevious,
              Prune, IgnoredError
<1>3. ASSUME NEW h \in Handlers, SwapCollision(h) \/ Ack(h) \/ IOError(h)
      PROVE  UNCHANGED <<mem, saved>> /\ \A g \in Handlers : snap'[g] \in {snap[g], NoState}
  BY <1>3 DEF SwapCollision, Ack, IOError
<1>4. ASSUME NEW h \in Handlers, Commit(h)
      PROVE  UNCHANGED <<saved, snap>> /\ pc[h] = "commit" /\ mem'.applied = rev[h]
  BY <1>4 DEF Commit
<1>5. ASSUME NEW h \in Handlers, Marshal(h)
      PROVE  UNCHANGED <<mem, saved>> /\ \A g \in Handlers : snap'[g] \in {snap[g], mem}
  BY <1>5 DEF Marshal
<1>6. ASSUME NEW h \in Handlers, Save(h) PROVE UNCHANGED <<mem, snap>> /\ saved' = snap[h]
  BY <1>6 DEF Save
<1>7. CASE Crash
  BY <1>7 DEF Crash
<1>8. CASE UNCHANGED vars
  BY <1>8 DEF vars
<1> QED
  BY <1>1, <1>2, <1>3, <1>4, <1>5, <1>6, <1>7, <1>8 DEF Next, Apply

\* Nothing has been applied.
LEMMA KnownInit == DataPlaneInit => KnownInv
BY DEF DataPlaneInit, Init, NoState, KnownInv

\* Every step keeps the invariant of what is known.
LEMMA KnownStep == TypeOK /\ KnownInv /\ [DataPlaneNext]_planeVars => KnownInv'
<1> SUFFICES ASSUME TypeOK, KnownInv, [DataPlaneNext]_planeVars PROVE KnownInv'
  OBVIOUS
<1>1. CASE UNCHANGED <<vars, ran>>
  BY <1>1 DEF KnownInv, vars, disk, local
<1>2. CASE AgentStep
  <2>1. [Next]_vars /\ ran' = ran \cup ({mem'.applied} \ {None})
    BY <1>2 DEF AgentStep
  <2>2. /\ saved' = saved \/ \E h \in Handlers : saved' = snap[h]
        /\ \A h \in Handlers : snap'[h] \in {snap[h], mem, NoState}
        /\ mem' \in {mem, saved} \/ \E h \in Handlers : pc[h] = "commit" /\ mem'.applied = rev[h]
    BY <2>1, StatesMove
  <2>3. NoState.applied = None
    BY DEF NoState
  <2>4. mem'.applied \in Rev \cup {None}
    <3>1. mem.applied \in Rev \cup {None} /\ saved.applied \in Rev \cup {None}
      BY DEF TypeOK, State, RevOrNone
    <3>2. \A h \in Handlers : rev[h] \in Rev \cup {None}
      BY DEF TypeOK, RevOrNone
    <3> QED
      BY <2>2, <3>1, <3>2
  <2>5. ran' \subseteq Rev /\ mem'.applied \in ran' \cup {None}
    BY <2>1, <2>4 DEF KnownInv
  <2>6. saved'.applied \in ran' \cup {None}
    BY <2>1, <2>2 DEF KnownInv
  <2>7. \A h \in Handlers : snap'[h].applied \in ran' \cup {None}
    BY <2>1, <2>2, <2>3 DEF KnownInv
  <2> QED
    BY <2>5, <2>6, <2>7 DEF KnownInv
<1> QED
  BY <1>1, <1>2 DEF DataPlaneNext, PollStep, ReloadStep, RestartStep, planeVars

\* Every step of a node is one the contract allows.
LEMMA ContractStep ==
  TypeOK /\ KnownInv /\ [DataPlaneNext]_planeVars => [M!NodeNext]_M!nodeVars
<1> SUFFICES ASSUME TypeOK, KnownInv, [DataPlaneNext]_planeVars
             PROVE  [M!NodeNext]_M!nodeVars
  OBVIOUS
<1>1. CASE UNCHANGED <<rev, mem, ran>>
  BY <1>1 DEF M!nodeVars
<1>2. CASE AgentStep
  <2>1. Next /\ ran' = ran \cup ({mem'.applied} \ {None})
    BY <1>2 DEF AgentStep
  <2>2. mem'.applied \in ran \cup {None} => ran' = ran
    BY <2>1
  <2>3. /\ rev \in [Handlers -> RevOrNone]
        /\ \A h \in Handlers : pc[h] = "idle" <=> rev[h] = None
    BY DEF TypeOK
  <2> USE DEF disk, local, history, Go, Undisturbed, Return
  <2>4. ASSUME NEW h \in Handlers, NEW r \in Rev, Reject(h, r) PROVE [M!NodeNext]_M!nodeVars
    <3>1. UNCHANGED <<rev, mem>>
      BY <2>4 DEF Reject
    <3> QED
      BY <1>1, <2>2, <3>1 DEF KnownInv
  <2>5. ASSUME NEW h \in Handlers, NEW r \in Rev, Accept(h, r) PROVE [M!NodeNext]_M!nodeVars
    <3>1. /\ rev' = [rev EXCEPT ![h] = r] /\ rev[h] = None /\ mem' = mem /\ r \in Rev \ Rejected
      BY <2>3, <2>5 DEF Accept
    <3>2. ran' = ran
      BY <2>2, <3>1 DEF KnownInv
    <3>3. {rev'[g] : g \in Handlers} \ {None} = ({rev[g] : g \in Handlers} \ {None}) \cup {r}
      <4>1. rev'[h] = r /\ r # None /\ \A g \in Handlers \ {h} : rev'[g] = rev[g]
        BY <2>3, <3>1, NoneAssumption
      <4> QED
        BY <3>1, <4>1
    <3>4. M!Request(r)
      BY <3>1, <3>2, <3>3 DEF M!Request
    <3> QED
      BY <3>4 DEF M!NodeNext
  <2>6. ASSUME NEW h \in Handlers,
               Stage(h) \/ Fill(h) \/ Readlink(h) \/ SwapRemove(h) \/ SwapSymlink(h)
                 \/ SwapRename(h) \/ KeepPrevious(h) \/ Marshal(h) \/ Save(h) \/ Prune(h)
                 \/ IgnoredError(h)
        PROVE  [M!NodeNext]_M!nodeVars
    <3>1. UNCHANGED <<rev, mem>>
      BY <2>6 DEF Stage, Fill, Readlink, SwapRemove, SwapSymlink, SwapRename, KeepPrevious,
                  Marshal, Save, Prune, IgnoredError
    <3> QED
      BY <1>1, <2>2, <3>1 DEF KnownInv
  <2>7. ASSUME NEW h \in Handlers, SwapCollision(h) \/ Ack(h) \/ IOError(h)
        PROVE  [M!NodeNext]_M!nodeVars
    <3>1. rev' = [rev EXCEPT ![h] = None] /\ mem' = mem
      BY <2>7 DEF SwapCollision, Ack, IOError
    <3>2. ran' = ran
      BY <2>2, <3>1 DEF KnownInv
    <3>3. {rev'[g] : g \in Handlers} \ {None} \subseteq {rev[g] : g \in Handlers} \ {None}
      BY <2>3, <3>1
    <3>4. M!Return
      BY <3>1, <3>2, <3>3 DEF M!Return
    <3> QED
      BY <3>4 DEF M!NodeNext
  <2>8. ASSUME NEW h \in Handlers, Commit(h) PROVE [M!NodeNext]_M!nodeVars
    <3>1. rev' = rev /\ mem'.applied = rev[h] /\ rev[h] # None
      BY <2>3, <2>8 DEF Commit
    <3>2. ran' = ran \cup {rev[h]}
      BY <2>1, <3>1
    <3>3. rev[h] \in {rev[g] : g \in Handlers} \ {None} /\ rev[h] \in Rev
      BY <2>3, <3>1 DEF RevOrNone
    <3>4. M!Apply(rev[h])
      BY <3>1, <3>2, <3>3 DEF M!Apply
    <3> QED
      BY <3>3, <3>4 DEF M!NodeNext
  <2>9. CASE Crash
    <3>1. rev' = [h \in Handlers |-> None] /\ mem' = saved
      BY <2>9 DEF Crash
    <3>2. saved.applied \in ran \cup {None} /\ ran' = ran
      BY <2>2, <3>1 DEF KnownInv
    <3>3. {rev'[g] : g \in Handlers} \ {None} = {}
      BY <3>1
    <3>4. M!Forget
      BY <3>1, <3>2, <3>3 DEF M!Forget
    <3> QED
      BY <3>4 DEF M!NodeNext
  <2> QED
    BY <2>1, <2>4, <2>5, <2>6, <2>7, <2>8, <2>9 DEF Next, Apply
<1>3. CASE ~AgentStep
  <2>1. UNCHANGED <<rev, mem, ran>>
    BY <1>3 DEF DataPlaneNext, PollStep, ReloadStep, RestartStep, planeVars, vars, local
  <2> QED
    BY <1>1, <2>1
<1> QED
  BY <1>2, <1>3

\* A node keeps its contract with the panel: what it reports is always a revision
\* that is being pushed and was accepted, or one it had applied before, whatever
\* overlaps, fails or crashes in it.
THEOREM NodeKeepsContract == DataPlaneSpec => KeepsContract
<1>1. DataPlaneInit => M!NodeInit
  <2> SUFFICES ASSUME DataPlaneInit PROVE M!NodeInit
    OBVIOUS
  <2>1. rev = [h \in Handlers |-> None] /\ mem.applied = None /\ ran = {}
    BY DEF DataPlaneInit, Init, NoState
  <2> QED
    BY <2>1 DEF M!NodeInit
<1>2. DataPlaneSpec => []TypeOK
  BY AgentOfNode, AgentTypeCorrect, PTL
<1>3. DataPlaneSpec => []KnownInv
  BY <1>2, KnownInit, KnownStep, PTL DEF DataPlaneSpec
<1> QED
  BY <1>1, <1>2, <1>3, ContractStep, PTL DEF DataPlaneSpec, KeepsContract, M!NodeSpec
=============================================================================
