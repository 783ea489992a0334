------------------------------ MODULE MCPanel ------------------------------
(***************************************************************************)
(* The parts of the panel that write tables no other part writes, side by  *)
(* side.  Every behaviour is one of a single part, the one that moves; the *)
(* others stay as they begin.                                              *)
(***************************************************************************)
EXTENDS RuleSet, AuthSessions, Backup, Inventory, Devices, Wizard, TLC

VARIABLE part

panelVars == <<part, vars, authVars, backupVars, inventoryVars, devicesVars, wizardVars>>

\* A list of four domains, the same with one of them gone (25%, within the
\* threshold) and the empty list; at most three additions, so that the first
\* build of the longer list needs approval.
MCContents == {{}, 1..3, 1..4}
Symmetry == Permutations(Builder) \cup Permutations(Restore)

\* A part that does not move begins in one of its initial states only.
PanelInit ==
  /\ part \in {"rule set", "sessions", "backup", "inventory", "devices", "wizard"}
  /\ Init /\ AuthInit /\ BackupInit /\ InventoryInit /\ DevicesInit /\ WizardInit
  /\ part = "rule set" \/ mode = "auto_apply"
  /\ part = "sessions" \/ user.enabled
  /\ part = "backup" \/ db = "this"

Moves(p, q, v) == IF p = q THEN TRUE ELSE UNCHANGED v

Only(p) ==
  /\ part = p /\ UNCHANGED part
  /\ Moves(p, "rule set", vars)
  /\ Moves(p, "sessions", authVars)
  /\ Moves(p, "backup", backupVars)
  /\ Moves(p, "inventory", inventoryVars)
  /\ Moves(p, "devices", devicesVars)
  /\ Moves(p, "wizard", wizardVars)

PanelNext ==
  \/ Only("rule set") /\ Next
  \/ Only("sessions") /\ AuthNext
  \/ Only("backup") /\ BackupNext
  \/ Only("inventory") /\ InventoryNext
  \/ Only("devices") /\ DevicesNext
  \/ Only("wizard") /\ WizardNext

PanelSpec == PanelInit /\ [][PanelNext]_panelVars
=============================================================================
