------------------------------- MODULE Backup -------------------------------
(***************************************************************************)
(* Backup, restore and start of the panel (panel/internal/api/backup.go,   *)
(* panel/cmd/panel-api/main.go).                                           *)
(*                                                                         *)
(* A backup dumps the database and then packs the key files one by one.    *)
(* A restore replaces the database, removes the key files, unpacks those   *)
(* of the archive one by one and has the process restarted.  A start loads *)
(* the keys it finds and makes new ones for those it does not.  Nothing    *)
(* keeps requests apart and the process may die anywhere.                  *)
(*                                                                         *)
(* A database and a key are what panel they belong to.  The certificate    *)
(* and the key file of a pair are one: "none" while either is missing,     *)
(* "torn" while both are there and not both whole.                         *)
(***************************************************************************)
EXTENDS Integers, Sequences, FiniteSets

CONSTANTS
  Restore,    \* requests to restore
  MaxBackups, \* bound: backups made
  MaxStops    \* bound: times the process dies

ASSUME BackupAssumption == MaxBackups \in Nat /\ MaxStops \in Nat

VARIABLES
  db,       \* whose database it is, "mixed" when a restore of it broke off
  keys,     \* the keys in the state directory: whose they are, "none", "torn"
  process,  \* the panel: "up", "down" or "dead" (it cannot start), and its keys
  packing,  \* the backup in progress
  archives, \* the archives there are
  restore,  \* the requests to restore
  stops,    \* times the process died
  broken    \* history: a restore was cut off or met another since the last whole one

backupVars == <<db, keys, process, packing, archives, restore, stops, broken>>

\* In the order of the directory.
KeyFiles == <<"ca", "manifest-signing", "panel-client">>
KeyFile == {KeyFiles[i] : i \in 1..3}
Panel == {"this", "other", "new"}
All(p) == [f \in KeyFile |-> p]
\* `clean': no restore was in progress or had broken off when it was made.
Archive(p) == [db |-> p, keys |-> All(p), clean |-> TRUE]
NotPacking == [i |-> 0, listed |-> {}, to |-> Archive("this")]
\* `alone': no other restore was in progress at the same time.
NotRestoring == [step |-> "idle", i |-> 0, from |-> Archive("other"), alone |-> TRUE]
Served == [NotRestoring EXCEPT !.step = "over"]

BackupTypeOK ==
  /\ db \in Panel \cup {"mixed"}
  /\ keys \in [KeyFile -> Panel \cup {"none", "torn"}]
  /\ process.state \in {"up", "down", "dead"}
  /\ process.keys \in [KeyFile -> Panel \cup {"none", "torn"}]
  /\ packing.i \in 0..4 /\ packing.listed \subseteq KeyFile
  /\ \A r \in Restore : restore[r].step \in {"idle", "load", "clear", "create", "fill", "restart", "over"}
  /\ stops \in 0..MaxStops
  /\ broken \in BOOLEAN

\* A panel with its keys, or a new host's first start.
BackupInit ==
  /\ \/ db = "this" /\ keys = All("this") /\ process = [state |-> "up", keys |-> All("this")]
     \/ db = "new" /\ keys = All("none") /\ process = [state |-> "down", keys |-> All("none")]
  /\ packing = NotPacking
  /\ archives = {Archive("other")}
  /\ restore = [r \in Restore |-> NotRestoring]
  /\ stops = 0
  /\ broken = FALSE
-----------------------------------------------------------------------------
Busy == {r \in Restore : restore[r].step \in {"load", "clear", "create", "fill"}}
IsUp == process.state = "up"

\* handleBackup: pg_dump.
Dump ==
  /\ IsUp /\ packing.i = 0 /\ Cardinality(archives) <= MaxBackups
  /\ packing' = [NotPacking EXCEPT !.i = 1, !.to.db = db, !.to.clean = ~broken /\ Busy = {}]
  /\ UNCHANGED <<db, keys, process, archives, restore, stops, broken>>

\* tarDir: the directory is listed ...
List ==
  /\ packing.i = 1
  /\ packing' = [packing EXCEPT !.i = 2, !.listed = {f \in KeyFile : keys[f] # "none"},
                                !.to.keys = All("none")]
  /\ UNCHANGED <<db, keys, process, archives, restore, stops, broken>>

\* ... and each file packed; one that is gone by then ends the request.
PackFile ==
  LET f == KeyFiles[packing.i - 1]
      packed == [packing.to EXCEPT !.keys[f] = IF f \in packing.listed THEN keys[f] ELSE "none"]
      gone == f \in packing.listed /\ keys[f] = "none"
      last == packing.i = 4
  IN /\ packing.i \in 2..4
     /\ packing' = IF gone \/ last THEN NotPacking ELSE [packing EXCEPT !.i = @ + 1, !.to = packed]
     /\ archives' = IF last /\ ~gone THEN archives \cup {packed} ELSE archives
     /\ UNCHANGED <<db, keys, process, restore, stops, broken>>
-----------------------------------------------------------------------------
Goes(r, from, to) == restore[r].step = from /\ restore' = [restore EXCEPT ![r].step = to]

\* handleRestore: the upload is decrypted and unpacked aside, and must hold both
\* parts; then pg_restore begins to replace the database.
RestoreBegins(r, a) ==
  /\ IsUp /\ restore[r].step = "idle"
  /\ restore' = [x \in Restore |->
                   IF x = r THEN [step |-> "load", i |-> 1, from |-> a, alone |-> Busy = {}]
                   ELSE [restore[x] EXCEPT !.alone = @ /\ x \notin Busy]]
  /\ db' = "mixed"
  /\ broken' = (broken \/ Busy # {})
  /\ packing' = [packing EXCEPT !.to.clean = FALSE]
  /\ UNCHANGED <<keys, process, archives, stops>>

DatabaseLoaded(r) ==
  /\ Goes(r, "load", "clear")
  /\ db' = restore[r].from.db
  /\ UNCHANGED <<keys, process, packing, archives, stops, broken>>

\* The next file, or the next stage after the last.
Forth(r, stage) ==
  LET x == restore[r]
  IN restore' = [restore EXCEPT ![r] = IF x.i < 3 THEN [x EXCEPT !.i = @ + 1]
                                       ELSE [x EXCEPT !.step = stage, !.i = 1]]

\* clearDir.
ClearFile(r) ==
  /\ restore[r].step = "clear"
  /\ keys' = [keys EXCEPT ![KeyFiles[restore[r].i]] = "none"]
  /\ Forth(r, "create")
  /\ UNCHANGED <<db, process, packing, archives, stops, broken>>

\* untar: each file of the archive is created or truncated ...
CreateFile(r) ==
  /\ Goes(r, "create", "fill")
  /\ keys' = IF restore[r].from.keys[KeyFiles[restore[r].i]] = "none" THEN keys
             ELSE [keys EXCEPT ![KeyFiles[restore[r].i]] = "torn"]
  /\ UNCHANGED <<db, process, packing, archives, stops, broken>>

\* Mutant: the process is not restarted.
FillNoRestart(r) ==
  LET f == KeyFiles[restore[r].i]
      x == restore[r]
  IN /\ x.step = "fill"
     /\ keys' = IF x.from.keys[f] = "none" THEN keys ELSE [keys EXCEPT ![f] = x.from.keys[f]]
     /\ restore' = [restore EXCEPT ![r] = IF x.i < 3 THEN [x EXCEPT !.i = @ + 1, !.step = "create"]
                                          ELSE Served]
     /\ broken' = IF x.i = 3 /\ x.alone THEN x.from.keys # All(x.from.db) ELSE broken
     /\ UNCHANGED <<db, process, packing, archives, stops>>

\* ... and filled; after the last the restore is over but for the restart.
FillFile(r) ==
  LET f == KeyFiles[restore[r].i]
      x == restore[r]
  IN /\ x.step = "fill"
     /\ keys' = IF x.from.keys[f] = "none" THEN keys ELSE [keys EXCEPT ![f] = x.from.keys[f]]
     /\ restore' = [restore EXCEPT ![r] = IF x.i < 3 THEN [x EXCEPT !.i = @ + 1, !.step = "create"]
                                          ELSE [x EXCEPT !.step = "restart"]]
     /\ broken' = IF x.i = 3 /\ x.alone THEN x.from.keys # All(x.from.db) ELSE broken
     /\ UNCHANGED <<db, process, packing, archives, stops>>

\* pg_restore fails (the client may go away under it), or a file operation does.
RestoreFails(r) ==
  /\ r \in Busy
  /\ restore' = [restore EXCEPT ![r] = Served]
  /\ broken' = TRUE
  /\ UNCHANGED <<db, keys, process, packing, archives, stops>>
-----------------------------------------------------------------------------
Ends ==
  /\ process' = [process EXCEPT !.state = "down"]
  /\ packing' = NotPacking
  /\ restore' = [r \in Restore |-> IF restore[r].step = "idle" THEN NotRestoring ELSE Served]
  /\ broken' = (broken \/ Busy # {})
  /\ UNCHANGED <<db, keys, archives>>

\* The signal a restore sends to its own process ...
Restarts == IsUp /\ (\E r \in Restore : restore[r].step = "restart") /\ Ends /\ UNCHANGED stops
\* ... or the process dies.
Stops == IsUp /\ stops < MaxStops /\ stops' = stops + 1 /\ Ends

\* main: loadOrCreateCA, loadOrCreateSigningKey, loadOrCreatePanelClientCert
\* and pusher.New.  What is missing is made, a client certificate only with a
\* whole CA.  A torn signing key or client pair stops the start; a torn CA does
\* if the certificate is the torn part.
Boots ==
  LET made == [f \in KeyFile |->
                 IF keys[f] # "none" \/ (f = "panel-client" /\ keys["ca"] = "torn")
                 THEN keys[f] ELSE "new"]
      starts == /\ made["manifest-signing"] # "torn"
                /\ made["panel-client"] \notin {"torn", "none"}
  IN /\ process.state = "down"
     /\ keys' = made
     /\ \E s \in {"up", "dead"} :
          /\ made["ca"] # "torn" => s = IF starts THEN "up" ELSE "dead"
          /\ ~starts => s = "dead"
          /\ process' = [state |-> s, keys |-> made]
     /\ UNCHANGED <<db, packing, archives, restore, stops, broken>>

BackupNext ==
  \/ Dump \/ List \/ PackFile \/ Restarts \/ Stops \/ Boots
  \/ \E r \in Restore : \/ \E a \in archives : RestoreBegins(r, a)
                         \/ DatabaseLoaded(r) \/ ClearFile(r) \/ CreateFile(r) \/ FillFile(r)
                         \/ RestoreFails(r)

BackupSpec == BackupInit /\ [][BackupNext]_backupVars
-----------------------------------------------------------------------------
\* Properties.

\* "A panel restored from backup presents the same identity and every node
\* still trusts it": a running panel has the database and all the keys, on disk
\* and in memory, of one panel, and so has every archive, unless a restore was
\* cut off or met another; a later whole restore makes up for that.
PanelIsOne ==
  /\ IsUp /\ ~broken /\ (\A r \in Restore : restore[r].step \in {"idle", "over"}) =>
       \E p \in Panel : db = p /\ keys = All(p) /\ process.keys = All(p)
  /\ \A a \in archives : a.clean => a.keys = All(a.db)
=============================================================================
