------------------------------- MODULE Loader -------------------------------
(***************************************************************************)
(* The data plane's view of the active revision (node/nodecfg).            *)
(*                                                                         *)
(* dns-frontend, sni-proxy and egress-relay each run a Loader on           *)
(* active/config.json: WaitFor blocks until a first valid file can be      *)
(* read, then Watch polls the file's stamp (mtime and size) and reloads    *)
(* when it differs from the stamp remembered by the last reload.  reload   *)
(* reads the file, publishes the parsed configuration through an atomic    *)
(* pointer (Get), remembers the stamp the path has *after* the read, and   *)
(* then calls the OnApply subscribers.                                     *)
(*                                                                         *)
(* The agent is the environment: it swaps the symlink to a complete file,  *)
(* may truncate the file behind it (a re-push after an interrupted one),   *)
(* and may remove its directory.  Every write gives the path a fresh       *)
(* stamp.  Versions number the writes; a version is whatever the           *)
(* configuration then was.  DataPlane puts Agent in the environment's      *)
(* place.                                                                  *)
(***************************************************************************)
EXTENDS Integers

CONSTANTS
  Loaders,   \* data plane processes
  MaxWrites, \* bound: writes by the agent
  MaxRestarts\* bound: restarts of a data plane process

ASSUME LoaderAssumption == MaxWrites \in Nat /\ MaxRestarts \in Nat

VARIABLES
  file,      \* the file behind active/config.json: its version and state
  pc,        \* where each loader is
  cur,       \* Loader.cur: the version Get returns, 0 for none
  stamp,     \* Loader.stamp: the version whose stamp is remembered, 0 for none
  live,      \* the version the OnApply subscribers were last given
  raced,     \* history: the path changed between the last read and its stat
  restarts   \* restarts so far

vars == <<file, pc, cur, stamp, live, raced, restarts>>

Versions == Nat
\* "missing": no symlink, or nothing behind it; "torn": truncated, not JSON.
FileStates == {"missing", "torn", "valid"}
\* "wait": in WaitFor; "idle": between ticks; "read", "stat", "notify": in reload.
Steps == {"wait", "idle", "read", "stat", "notify"}

TypeOK ==
  /\ file \in [version : Versions, state : FileStates]
  /\ pc \in [Loaders -> Steps]
  /\ cur \in [Loaders -> Versions]
  /\ stamp \in [Loaders -> Versions]
  /\ live \in [Loaders -> Versions]
  /\ raced \in [Loaders -> BOOLEAN]
  /\ restarts \in 0..MaxRestarts

Init ==
  /\ file = [version |-> 0, state |-> "missing"]
  /\ pc = [l \in Loaders |-> "wait"]
  /\ cur = [l \in Loaders |-> 0]
  /\ stamp = [l \in Loaders |-> 0]
  /\ live = [l \in Loaders |-> 0]
  /\ raced = [l \in Loaders |-> FALSE]
  /\ restarts = 0
-----------------------------------------------------------------------------
\* The agent changes what the path leads to.  A loader that has read the file
\* and not yet taken its stamp is raced.
AgentWrites(state) ==
  /\ file' = [version |-> file.version + 1, state |-> state]
  /\ raced' = [l \in Loaders |-> raced[l] \/ pc[l] = "stat"]
  /\ UNCHANGED <<pc, cur, stamp, live, restarts>>

Writes(state) == file.version < MaxWrites /\ AgentWrites(state)

Swap == Writes("valid")
\* os.WriteFile truncates the file behind the active symlink, or a swap leads to
\* a file that an overlapping request has truncated ...
Truncate == Writes("torn")
\* ... or the directory behind it is removed.
Remove == file.state # "missing" /\ Writes("missing")
-----------------------------------------------------------------------------
Go(l, from, to) == pc[l] = from /\ pc' = [pc EXCEPT ![l] = to]

\* WaitFor: the next attempt at New.
Attempt(l) ==
  /\ Go(l, "wait", "read")
  /\ UNCHANGED <<file, cur, stamp, live, raced, restarts>>

\* Watch: a tick on which Stat succeeds and the stamp differs.  The ticks that
\* find no file or the remembered stamp do nothing.
Tick(l) ==
  /\ file.state # "missing"
  /\ file.version # stamp[l]
  /\ Go(l, "idle", "read")
  /\ UNCHANGED <<file, cur, stamp, live, raced, restarts>>

\* Mutant: the error of Unmarshal is dropped.
ReadUnchecked(l) ==
  /\ file.state # "missing"
  /\ Go(l, "read", "stat")
  /\ cur' = [cur EXCEPT ![l] = file.version]
  /\ raced' = [raced EXCEPT ![l] = FALSE]
  /\ UNCHANGED <<file, stamp, live, restarts>>

\* reload: ReadFile and Unmarshal succeed, the configuration is published.
Read(l) ==
  /\ file.state = "valid"
  /\ Go(l, "read", "stat")
  /\ cur' = [cur EXCEPT ![l] = file.version]
  /\ raced' = [raced EXCEPT ![l] = FALSE]
  /\ UNCHANGED <<file, stamp, live, restarts>>

\* Mutant: a failed reload ends the watch.
ReadErrorEndsWatch(l) ==
  /\ file.state # "valid"
  /\ pc[l] = "read"
  /\ pc' = [pc EXCEPT ![l] = IF cur[l] = 0 THEN "wait" ELSE "ended"]
  /\ UNCHANGED <<file, cur, stamp, live, raced, restarts>>

\* reload: ReadFile or Unmarshal fails; Watch keeps what it has, New fails and
\* WaitFor sleeps.
ReadError(l) ==
  /\ file.state # "valid"
  /\ pc[l] = "read"
  /\ pc' = [pc EXCEPT ![l] = IF cur[l] = 0 THEN "wait" ELSE "idle"]
  /\ UNCHANGED <<file, cur, stamp, live, raced, restarts>>

\* reload: the stamp of the path as it is by now; a failing Stat keeps the old.
StatAfter(l) ==
  /\ Go(l, "stat", "notify")
  /\ stamp' = [stamp EXCEPT ![l] = IF file.state = "missing" THEN @ ELSE file.version]
  /\ UNCHANGED <<file, cur, live, raced, restarts>>

\* Mutant: subscribers are only called on the first load.
NotifyOnce(l) ==
  /\ Go(l, "notify", "idle")
  /\ live' = [live EXCEPT ![l] = IF @ = 0 THEN cur[l] ELSE @]
  /\ UNCHANGED <<file, cur, stamp, raced, restarts>>

\* reload: the OnApply callbacks (at the start, the process configures itself
\* from Get before it registers any).
Notify(l) ==
  /\ Go(l, "notify", "idle")
  /\ live' = [live EXCEPT ![l] = cur[l]]
  /\ UNCHANGED <<file, cur, stamp, raced, restarts>>

\* The data plane process is restarted and starts from WaitFor.
Restart(l) ==
  /\ restarts < MaxRestarts
  /\ restarts' = restarts + 1
  /\ pc' = [pc EXCEPT ![l] = "wait"]
  /\ cur' = [cur EXCEPT ![l] = 0]
  /\ stamp' = [stamp EXCEPT ![l] = 0]
  /\ live' = [live EXCEPT ![l] = 0]
  /\ raced' = [raced EXCEPT ![l] = FALSE]
  /\ UNCHANGED file

Poll(l) == Attempt(l) \/ Tick(l)
Reload(l) == Read(l) \/ ReadError(l) \/ StatAfter(l) \/ Notify(l)

Next ==
  \/ Swap \/ Truncate \/ Remove
  \/ \E l \in Loaders : Poll(l) \/ Reload(l) \/ Restart(l)

\* A running process keeps polling (the ticker) and a started reload ends.  The
\* agent owes nobody a write and nothing makes a process restart.
Fairness == \A l \in Loaders : WF_vars(Poll(l)) /\ WF_vars(Reload(l))

Spec == Init /\ [][Next]_vars /\ Fairness
-----------------------------------------------------------------------------
\* Properties.

\* No tick will reload anything unless the agent writes again.
Settled(l) == pc[l] = "idle" /\ file.state = "valid" /\ stamp[l] = file.version

\* "Never nil after New succeeds": a process past WaitFor has a configuration.
GetNeverNil == \A l \in Loaders : pc[l] \in {"idle", "stat", "notify"} => cur[l] # 0

\* What a settled process runs on, in Get and in every subscriber, is the
\* active file, unless the path changed between reload's read and its stat.
SettledIsFresh ==
  \A l \in Loaders :
    Settled(l) /\ ~raced[l] => cur[l] = file.version /\ live[l] = file.version

\* The comment of Watch ("a poll loop cannot miss or double-fire on the swap"):
\* a settled process runs the active file.
NoMissedSwap == \A l \in Loaders : Settled(l) => live[l] = file.version

\* The inductive strengthening of SettledIsFresh and GetNeverNil: without a
\* race the remembered stamp is the stamp of what was read.
StampOfRead ==
  \A l \in Loaders :
    /\ pc[l] = "wait" => cur[l] = 0
    /\ cur[l] = 0 => stamp[l] = 0
    /\ pc[l] \in {"idle", "stat", "notify"} => cur[l] # 0
    /\ pc[l] = "stat" /\ ~raced[l] => cur[l] = file.version /\ file.state = "valid"
    /\ pc[l] \in {"notify", "idle", "read"} /\ ~raced[l] => stamp[l] = cur[l]
    /\ pc[l] \in {"wait", "idle", "read"} => live[l] = cur[l]
    /\ file.state # "missing" => file.version # 0
=============================================================================
