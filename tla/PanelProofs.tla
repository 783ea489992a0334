---------------------------- MODULE PanelProofs ----------------------------
(***************************************************************************)
(* What MCPanel checks on small instances, for every value of the          *)
(* constants: the rule set pipeline, sessions and passwords, backups, the  *)
(* inventory, devices and the wizard.                                      *)
(***************************************************************************)
EXTENDS RuleSet, AuthSessions, Backup, Inventory, Devices, Wizard, FiniteSetTheorems, TLAPS

\* The rule set pipeline.

\* The steps of a call that has a row: inserted, or to be activated.
Past == {"scan", "supersede", "set", "point", "commit"}
TxRow == [step : Steps, base : 0..MaxVersions, auto : BOOLEAN,
          new : Contents \cup {{}}, failed : BOOLEAN, blind : BOOLEAN, verdict : Statuses,
          row : 0..MaxVersions, old : SUBSET Version]
Marked == {v \in Version : status[v] = "active"}

\* A build's row is its own until it is committed, and what it built while a
\* source had failed is not to be activated.
BuildRow(t) ==
  /\ t.step \in {"insert"} \cup Past => t.row \in Version
  /\ t.step \in Past => status[t.row] = "none"
  /\ t.step \in {"number", "insert"} \cup Past =>
       /\ t.verdict \in {"active", "awaiting_approval"}
       /\ t.failed => t.verdict # "active"
       /\ t.verdict # "active" => t.old = {}
  /\ t.step \in {"scan", "supersede", "set"} => t.verdict = "active"
RowsApart ==
  \A b, c \in Builder : b # c /\ tx[b].step \in Past /\ tx[c].step \in Past => tx[b].row # tx[c].row

\* An approval is about a committed row, and only such rows are superseded.
ApproveRow(t) ==
  t.step # "idle" => t.step \in Past /\ t.row \in Version /\ status[t.row] # "none"
CommittedRows ==
  /\ \A a \in Actor : \A v \in tx[a].old : status[v] # "none"
  /\ \A v \in partial : status[v] # "none"

\* As long as no two calls have overlapped, what a call knows is not stale.
FreshRow(a, t) ==
  /\ t.step \in {"supersede", "set", "point", "commit"} /\ (a \in Approver \/ t.verdict = "active")
       => t.old = Marked
  /\ a \in Builder =>
       /\ t.step = "fetch" => t.base = active
       /\ t.step \in {"number", "insert"} \cup Past /\ t.verdict = "active" /\ t.new = {} /\ ~t.blind
            => Entries(active) = {}
Serial ==
  ~overlap =>
    /\ \A a, b \in Actor : a # b => tx[a].step = "idle" \/ tx[b].step = "idle"
    /\ ~disowned => Marked = {active} \ {0}
    /\ \A a \in Actor : FreshRow(a, tx[a])

RuleSetInv ==
  /\ TypeOK
  /\ \A b \in Builder : BuildRow(tx[b])
  /\ \A a \in Approver : ApproveRow(tx[a])
  /\ RowsApart /\ CommittedRows /\ Serial /\ PartialNeedsApproval
-----------------------------------------------------------------------------
\* The row of a call that is not in progress.
LEMMA IdleRow ==
  /\ Idle \in TxRow /\ Idle.step = "idle" /\ Idle.old = {} /\ "idle" \notin Past
  /\ BuildRow(Idle) /\ ApproveRow(Idle) /\ \A a : FreshRow(a, Idle)
<1>1. /\ Idle.step = "idle" /\ Idle.old = {} /\ Idle.base = 0 /\ Idle.new = {} /\ Idle.verdict = "none"
      /\ Idle.row = 0
  BY DEF Idle
<1>2. Idle.auto \in BOOLEAN /\ Idle.failed \in BOOLEAN
  BY DEF Idle
<1>3. Idle \in TxRow
  BY RuleSetAssumption DEF Idle, TxRow, Steps, Statuses
<1>4. "idle" \notin Past
  BY DEF Past
<1> QED
  BY <1>1, <1>3, <1>4 DEF BuildRow, ApproveRow, FreshRow

\* What a step must see to in which one call goes on and nothing is committed.
LEMMA CallGoesOn ==
  ASSUME RuleSetInv, NEW a \in Actor, NEW row \in TxRow, tx' = [tx EXCEPT ![a] = row],
         UNCHANGED <<status, content, active, mode, approved, partial, blind, disowned>>,
         builds' \in 0..MaxBuilds, overlap' \in BOOLEAN,
         ~overlap' => ~overlap /\ (tx[a].step = "idle" => Quiet),
         a \in Builder => BuildRow(row), a \in Approver => ApproveRow(row),
         row.step \in Past /\ a \in Builder =>
           \A c \in Builder \ {a} : tx[c].step \in Past => tx[c].row # row.row,
         \A v \in row.old : status[v] # "none",
         ~overlap' => FreshRow(a, row)
  PROVE  RuleSetInv'
<1>1. tx \in [Actor -> TxRow]
  BY DEF RuleSetInv, TypeOK, TxRow
<1>2. /\ tx' \in [Actor -> TxRow] /\ tx'[a] = row
      /\ \A b \in Actor \ {a} : tx'[b] = tx[b]
  BY <1>1
<1>3. TypeOK'
  BY <1>2 DEF RuleSetInv, TypeOK, TxRow
<1>4. \A b \in Builder : BuildRow(tx'[b])
  BY <1>2 DEF RuleSetInv, Actor
<1>5. \A b \in Approver : ApproveRow(tx'[b])
  BY <1>2 DEF RuleSetInv, Actor
<1>6. RowsApart'
  BY <1>2 DEF RuleSetInv, RowsApart, Actor
<1>7. CommittedRows'
  BY <1>2 DEF RuleSetInv, CommittedRows
<1>8. ~overlap' => \A b \in Actor : FreshRow(b, tx'[b])
  BY <1>2 DEF RuleSetInv, Serial
<1>9. ~overlap' => \A b, c \in Actor : b # c => tx'[b].step = "idle" \/ tx'[c].step = "idle"
  BY <1>2 DEF RuleSetInv, Serial, Quiet
<1>10. Serial'
  BY <1>8, <1>9 DEF RuleSetInv, Serial, FreshRow, Marked, Entries
<1>11. PartialNeedsApproval'
  BY DEF RuleSetInv, PartialNeedsApproval
<1>12. (\A b \in Builder : BuildRow(tx[b]))' /\ (\A b \in Approver : ApproveRow(tx[b]))'
  BY <1>4, <1>5 DEF BuildRow, ApproveRow
<1> QED
  BY <1>3, <1>6, <1>7, <1>10, <1>11, <1>12 DEF RuleSetInv

\* The steps of a build before its commit.
LEMMA BuildStep ==
  ASSUME RuleSetInv, NEW b \in Builder, Begin(b) \/ Compare(b) \/ Number(b) \/ Insert(b)
  PROVE  RuleSetInv'
<1>0. b \in Actor /\ tx \in [Actor -> TxRow] /\ tx[b] \in TxRow /\ BuildRow(tx[b])
  BY DEF RuleSetInv, TypeOK, TxRow, Actor
<1>a. b \notin Approver
  BY RuleSetAssumption
<1>b. /\ builds \in 0..MaxBuilds /\ overlap \in BOOLEAN /\ active \in 0..MaxVersions
      /\ content \in [Version -> Contents \cup {{}}]
  BY RuleSetAssumption DEF RuleSetInv, TypeOK, Version
<1>1. CASE Begin(b)
  <2> DEFINE row == [Idle EXCEPT !.step = "fetch", !.base = active, !.auto = (mode = "auto_apply")]
  <2>1. /\ tx' = [tx EXCEPT ![b] = row] /\ overlap' = (overlap \/ ~Quiet)
        /\ builds' = builds + 1 /\ builds < MaxBuilds /\ tx[b].step = "idle"
        /\ UNCHANGED <<status, content, active, mode, approved, partial, blind, disowned>>
    BY <1>1 DEF Begin
  <2>2. row \in TxRow /\ row.step = "fetch" /\ row.base = active /\ row.old = {}
    <3> DEFINE auto == (mode = "auto_apply")
    <3>1. auto \in BOOLEAN
      OBVIOUS
    <3>2. row = [Idle EXCEPT !.step = "fetch", !.base = active, !.auto = auto]
      OBVIOUS
    <3> HIDE DEF auto, row
    <3>3. row \in TxRow
      BY <1>b, <3>1, <3>2, IdleRow DEF TxRow, Steps
    <3>4. row.step = "fetch" /\ row.base = active /\ row.old = {}
      BY <3>2, IdleRow DEF TxRow
    <3> QED
      BY <3>3, <3>4
  <2> HIDE DEF row
  <2>3. BuildRow(row) /\ FreshRow(b, row) /\ row.step \notin Past
    BY <1>a, <2>2 DEF BuildRow, FreshRow, Past
  <2>4. builds' \in 0..MaxBuilds /\ overlap' \in BOOLEAN
    BY <1>b, <2>1, RuleSetAssumption
  <2>5. ~overlap' => ~overlap /\ (tx[b].step = "idle" => Quiet)
    BY <2>1
  <2> QED
    BY <1>0, <1>a, <2>1, <2>2, <2>3, <2>4, <2>5, CallGoesOn
<1>2. CASE Compare(b)
  <2>1. PICK new \in Contents, failed \in BOOLEAN, hashRead \in BOOLEAN, listRead \in BOOLEAN :
          /\ tx[b].step = "fetch"
          /\ tx' = [tx EXCEPT ![b] =
                     IF tx[b].base # 0 /\ hashRead /\ Entries(tx[b].base) = new THEN Idle
                     ELSE [Idle EXCEPT !.step = "number", !.new = new, !.failed = failed,
                                    !.blind = ~listRead,
                                    !.verdict = Verdict(IF listRead THEN Entries(tx[b].base) ELSE {},
                                                        new, failed, tx[b].auto)]]
          /\ UNCHANGED <<status, content, active, mode, builds, approved, partial, blind, overlap, disowned>>
    BY <1>2 DEF Compare
  <2> DEFINE prev == IF listRead THEN Entries(tx[b].base) ELSE {}
             verdict == Verdict(prev, new, failed, tx[b].auto)
             number == [Idle EXCEPT !.step = "number", !.new = new, !.failed = failed,
                                    !.blind = ~listRead, !.verdict = verdict]
  <2>2. /\ verdict \in {"active", "awaiting_approval"}
        /\ failed => verdict # "active"
        /\ prev # {} /\ new = {} => verdict # "active"
    BY DEF Verdict, Suspicious
  <2>3. tx' = [tx EXCEPT ![b] = Idle] \/ tx' = [tx EXCEPT ![b] = number]
    BY <2>1
  <2>4. ~overlap /\ listRead => prev = Entries(active)
    BY <1>0, <2>1 DEF RuleSetInv, Serial, FreshRow
  <2> HIDE DEF prev, verdict
  <2>5. number.step = "number" /\ number.new = new /\ number.verdict = verdict /\ number.old = {}
    BY DEF Idle
  <2>6. number.failed = failed /\ number.blind = ~listRead
    BY DEF Idle
  <2>7. number \in TxRow
    BY <2>2, IdleRow DEF TxRow, Steps, Statuses
  <2> HIDE DEF number
  <2>8. BuildRow(number)
    BY <2>2, <2>5, <2>6 DEF BuildRow, Past
  <2>9. ~overlap => FreshRow(b, number)
    BY <1>a, <2>2, <2>4, <2>5, <2>6 DEF FreshRow, Past
  <2>10. number.step \notin Past /\ Idle.step \notin Past
    BY <2>5, IdleRow DEF Past
  <2>11. /\ UNCHANGED <<status, content, active, mode, approved, partial, blind, disowned>>
         /\ overlap' = overlap /\ tx[b].step # "idle"
    BY <2>1
  <2>a. builds' \in 0..MaxBuilds /\ overlap' \in BOOLEAN
    BY <1>b, <2>1
  <2>b. ~overlap' => ~overlap /\ (tx[b].step = "idle" => Quiet)
    BY <2>11
  <2>12. CASE tx' = [tx EXCEPT ![b] = Idle]
    <3>1. \A v \in Idle.old : status[v] # "none"
      BY IdleRow
    <3>2. Idle \in TxRow /\ BuildRow(Idle) /\ FreshRow(b, Idle)
      BY IdleRow
    <3> QED
      BY <1>0, <1>a, <2>10, <2>11, <2>a, <2>b, <2>12, <3>1, <3>2, CallGoesOn
  <2>13. CASE tx' = [tx EXCEPT ![b] = number]
    <3>1. \A v \in number.old : status[v] # "none"
      BY <2>5
    <3>2. ~overlap' => FreshRow(b, number)
      BY <2>9, <2>11
    <3> QED
      BY <1>0, <1>a, <2>7, <2>8, <2>10, <2>11, <2>a, <2>b, <2>13, <3>1, <3>2, CallGoesOn
  <2> QED
    BY <2>3, <2>12, <2>13
<1>3. CASE Number(b)
  <2> DEFINE next == Cardinality({v \in Version : status[v] # "none"}) + 1
             row == [tx[b] EXCEPT !.row = next, !.step = "insert"]
  <2>1. /\ tx[b].step = "number" /\ next \in Version /\ tx' = [tx EXCEPT ![b] = row]
        /\ UNCHANGED <<status, content, active, mode, builds, approved, partial, blind, overlap, disowned>>
    BY <1>0, <1>3 DEF Number
  <2> HIDE DEF next
  <2>2. /\ row \in TxRow /\ row.step = "insert" /\ row.verdict = tx[b].verdict
        /\ row.new = tx[b].new /\ row.old = tx[b].old /\ (row.failed <=> tx[b].failed) /\ (row.blind <=> tx[b].blind)
        /\ row.row = next
    <3>0. next \in 0..MaxVersions
      BY <2>1, RuleSetAssumption DEF Version
    <3>1. row \in TxRow
      BY <1>0, <3>0 DEF TxRow, Steps
    <3>2. row.row = next /\ row.step = "insert" /\ row.verdict = tx[b].verdict /\ row.new = tx[b].new /\ row.old = tx[b].old
      BY <1>0 DEF TxRow
    <3>3. row.failed = tx[b].failed /\ row.blind = tx[b].blind
      BY <1>0 DEF TxRow
    <3> QED
      BY <3>1, <3>2, <3>3
  <2> HIDE DEF row
  <2>3. BuildRow(row) /\ row.step \notin Past
    BY <1>0, <2>1, <2>2 DEF BuildRow, Past
  <2>4. ~overlap => FreshRow(b, row)
    <3>1. ~overlap => FreshRow(b, tx[b])
      BY <1>0 DEF RuleSetInv, Serial
    <3> QED
      BY <1>a, <2>1, <2>2, <3>1 DEF FreshRow, Past
  <2>5. \A v \in row.old : status[v] # "none"
    BY <1>0, <2>2 DEF RuleSetInv, CommittedRows
  <2> QED
    BY <1>0, <1>a, <1>b, <2>1, <2>2, <2>3, <2>4, <2>5, CallGoesOn
<1>4. CASE Insert(b)
  <2> DEFINE row == [tx[b] EXCEPT !.step = IF tx[b].verdict = "active" THEN "scan" ELSE "point"]
  <2>1. /\ tx[b].step = "insert"
        /\ \A c \in Builder \ {b} : tx[c].row = tx[b].row => tx[c].step = "insert"
        /\ tx' = [tx EXCEPT ![b] = IF status[tx[b].row] # "none" THEN Idle ELSE row]
        /\ UNCHANGED <<status, content, active, mode, builds, approved, partial, blind, overlap, disowned>>
    BY <1>0, <1>4 DEF Insert
  <2>2. /\ row \in TxRow /\ row.verdict = tx[b].verdict /\ row.row = tx[b].row
        /\ row.step = (IF tx[b].verdict = "active" THEN "scan" ELSE "point")
        /\ row.new = tx[b].new /\ row.old = tx[b].old /\ (row.failed <=> tx[b].failed) /\ (row.blind <=> tx[b].blind)
    <3>1. row \in TxRow
      BY <1>0 DEF TxRow, Steps
    <3>2. /\ row.step = (IF tx[b].verdict = "active" THEN "scan" ELSE "point")
          /\ row.verdict = tx[b].verdict /\ row.new = tx[b].new /\ row.old = tx[b].old
          /\ row.row = tx[b].row
      BY <1>0 DEF TxRow
    <3>3. row.failed = tx[b].failed /\ row.blind = tx[b].blind
      BY <1>0 DEF TxRow
    <3> QED
      BY <3>1, <3>2, <3>3
  <2> HIDE DEF row
  <2>3. CASE status[tx[b].row] # "none"
    BY <1>0, <1>a, <1>b, <2>1, <2>3, IdleRow, CallGoesOn
  <2>4. CASE status[tx[b].row] = "none"
    <3>1. tx[b].row \in Version
      BY <1>0, <2>1 DEF BuildRow
    <3>2. BuildRow(row)
      BY <1>0, <2>1, <2>2, <2>4, <3>1 DEF BuildRow, Past
    <3>3. ~overlap => FreshRow(b, row)
      <4>1. ~overlap => FreshRow(b, tx[b])
        BY <1>0 DEF RuleSetInv, Serial
      <4> QED
        BY <1>a, <2>1, <2>2, <4>1 DEF FreshRow, Past
    <3>4. \A v \in row.old : status[v] # "none"
      BY <1>0, <2>2 DEF RuleSetInv, CommittedRows
    <3>5. \A c \in Builder \ {b} : tx[c].step \in Past => tx[c].row # row.row
      BY <2>1, <2>2 DEF Past
    <3> QED
      BY <1>0, <1>a, <1>b, <2>1, <2>2, <2>4, <3>2, <3>3, <3>4, <3>5, CallGoesOn
  <2> QED
    BY <2>3, <2>4
<1> QED
  BY <1>1, <1>2, <1>3, <1>4

\* The statements by which a build or an approval makes its row the active one.
LEMMA StatementDone ==
  ASSUME RuleSetInv, NEW a \in Actor, NEW next \in Past, NEW old \in SUBSET Version,
         tx[a].step \in Past, next # "scan",
         tx' = [tx EXCEPT ![a] = [tx[a] EXCEPT !.step = next, !.old = old]],
         UNCHANGED <<status, content, active, mode, builds, approved, partial, blind, overlap, disowned>>,
         \A v \in old : status[v] # "none",
         a \in Builder => (next \in {"supersede", "set"} => tx[a].verdict = "active")
                          /\ (tx[a].verdict # "active" => old = {}),
         ~overlap /\ (a \in Approver \/ tx[a].verdict = "active") => old = Marked
  PROVE  RuleSetInv'
<1> DEFINE row == [tx[a] EXCEPT !.step = next, !.old = old]
<1>1. tx[a] \in TxRow /\ builds \in 0..MaxBuilds /\ overlap \in BOOLEAN
  BY DEF RuleSetInv, TypeOK, TxRow
<1>2. "idle" \notin Past /\ Past \subseteq Steps
  BY DEF Past, Steps
<1>3. row \in TxRow
  BY <1>1, <1>2 DEF TxRow
<1>4. /\ row.step = next /\ row.old = old /\ row.row = tx[a].row /\ row.verdict = tx[a].verdict
      /\ row.new = tx[a].new
  BY <1>1 DEF TxRow
<1>5. row.failed = tx[a].failed /\ row.blind = tx[a].blind
  BY <1>1 DEF TxRow
<1>6. tx' = [tx EXCEPT ![a] = row]
  OBVIOUS
<1> HIDE DEF row
<1>7. a \in Builder => BuildRow(row)
  <2>1. a \in Builder => BuildRow(tx[a])
    BY DEF RuleSetInv
  <2> QED
    BY <1>4, <1>5, <2>1 DEF BuildRow, Past
<1>8. a \in Approver => ApproveRow(row)
  BY <1>2, <1>4 DEF RuleSetInv, ApproveRow
<1>9. a \in Builder => \A c \in Builder \ {a} : tx[c].step \in Past => tx[c].row # row.row
  BY <1>4 DEF RuleSetInv, RowsApart
<1>10. ~overlap => FreshRow(a, row)
  <2>1. ~overlap => FreshRow(a, tx[a])
    BY DEF RuleSetInv, Serial
  <2> QED
    BY <1>2, <1>4, <1>5, <2>1 DEF FreshRow, Past
<1>11. tx[a].step # "idle"
  BY <1>2
<1>12. \A v \in row.old : status[v] # "none"
  BY <1>4
<1>13. builds' \in 0..MaxBuilds /\ overlap' \in BOOLEAN
  BY <1>1
<1>14. ~overlap' => ~overlap /\ (tx[a].step = "idle" => Quiet)
  BY <1>11
<1>15. UNCHANGED <<status, content, active, mode, approved, partial, blind, disowned>>
  OBVIOUS
<1>16. ~overlap' => FreshRow(a, row)
  BY <1>10
<1> QED
  BY <1>3, <1>6, <1>7, <1>8, <1>9, <1>12, <1>13, <1>14, <1>15, <1>16, CallGoesOn

\* The statements of a transaction before its commit, and its end without one.
LEMMA CallStep ==
  ASSUME RuleSetInv, NEW a \in Actor,
         Scan(a) \/ Supersede(a) \/ SetActive(a) \/ Point(a) \/ Abort(a)
  PROVE  RuleSetInv'
<1>1. tx \in [Actor -> TxRow] /\ tx[a] \in TxRow /\ builds \in 0..MaxBuilds /\ overlap \in BOOLEAN
  BY DEF RuleSetInv, TypeOK, TxRow
<1>2. a \in Builder => BuildRow(tx[a])
  BY DEF RuleSetInv
<1>3. /\ a \in Builder \/ a \in Approver
      /\ tx[a].old \in SUBSET Version /\ \A v \in tx[a].old : status[v] # "none"
  BY <1>1 DEF RuleSetInv, CommittedRows, Actor, TxRow
<1>4. ~overlap => FreshRow(a, tx[a])
  BY DEF RuleSetInv, Serial
<1>5. Marked \in SUBSET Version /\ \A v \in Marked : status[v] # "none"
  BY DEF Marked
<1>6. /\ "scan" \in Past /\ "supersede" \in Past /\ "set" \in Past /\ "point" \in Past
      /\ "commit" \in Past
  BY DEF Past
<1>7. CASE Scan(a)
  <2>1. /\ tx[a].step = "scan"
        /\ tx' = [tx EXCEPT ![a] = [tx[a] EXCEPT !.step = "supersede", !.old = Marked]]
        /\ UNCHANGED <<status, content, active, mode, builds, approved, partial, blind, overlap, disowned>>
    BY <1>1, <1>7 DEF Scan, Marked
  <2>2. a \in Builder => tx[a].verdict = "active"
    BY <1>2, <2>1 DEF BuildRow
  <2> QED
    BY <1>5, <1>6, <2>1, <2>2, StatementDone
<1>8. CASE Supersede(a)
  <2> DEFINE old == {v \in tx[a].old : status[v] = "active"}
  <2>1. /\ tx[a].step = "supersede"
        /\ tx' = [tx EXCEPT ![a] = [tx[a] EXCEPT !.step = "set", !.old = old]]
        /\ UNCHANGED <<status, content, active, mode, builds, approved, partial, blind, overlap, disowned>>
    BY <1>1, <1>8 DEF Supersede
  <2>2. a \in Builder => tx[a].verdict = "active"
    BY <1>2, <2>1 DEF BuildRow
  <2>3. ~overlap => old = Marked
    BY <1>3, <1>4, <2>1, <2>2 DEF FreshRow, Marked
  <2>4. old \in SUBSET Version /\ \A v \in old : status[v] # "none"
    BY <1>3
  <2> QED
    BY <1>6, <2>1, <2>2, <2>3, <2>4, StatementDone
<1>9. CASE SetActive(a) \/ Point(a)
  <2>1. PICK next \in {"point", "commit"} :
          /\ tx[a].step \in {"set", "point"} /\ tx' = [tx EXCEPT ![a].step = next]
          /\ UNCHANGED <<status, content, active, mode, builds, approved, partial, blind, overlap, disowned>>
    BY <1>9 DEF SetActive, Point
  <2>2. [tx[a] EXCEPT !.step = next] = [tx[a] EXCEPT !.step = next, !.old = tx[a].old]
    BY <1>1 DEF TxRow
  <2>3. tx' = [tx EXCEPT ![a] = [tx[a] EXCEPT !.step = next, !.old = tx[a].old]]
    BY <1>1, <2>1, <2>2
  <2>4. a \in Builder => (tx[a].verdict # "active" => tx[a].old = {})
    BY <1>2, <2>1 DEF BuildRow, Past
  <2>5. ~overlap /\ (a \in Approver \/ tx[a].verdict = "active") => tx[a].old = Marked
    BY <1>4, <2>1 DEF FreshRow
  <2>6. next \in Past /\ next \notin {"scan", "supersede", "set"} /\ tx[a].step \in Past
    BY <2>1 DEF Past
  <2> QED
    BY <1>3, <2>1, <2>3, <2>4, <2>5, <2>6, StatementDone
<1>10. CASE Abort(a)
  <2>1. /\ tx[a].step # "idle" /\ tx' = [tx EXCEPT ![a] = Idle]
        /\ UNCHANGED <<status, content, active, mode, approved, partial, blind, disowned>>
        /\ builds' = builds /\ overlap' = overlap
    BY <1>10 DEF Abort
  <2>2. Idle \in TxRow /\ BuildRow(Idle) /\ ApproveRow(Idle) /\ FreshRow(a, Idle)
    BY IdleRow
  <2>3. Idle.step \notin Past /\ \A v \in Idle.old : status[v] # "none"
    BY IdleRow
  <2>4. builds' \in 0..MaxBuilds /\ overlap' \in BOOLEAN
    BY <1>1, <2>1
  <2> QED
    BY <2>1, <2>2, <2>3, <2>4, CallGoesOn
<1> QED
  BY <1>7, <1>8, <1>9, <1>10

\* An approval takes the row of a waiting version.
LEMMA ApproveStep ==
  ASSUME RuleSetInv, NEW a \in Approver, NEW v \in Version, BeginApprove(a, v)
  PROVE  RuleSetInv'
<1> DEFINE row == [Idle EXCEPT !.step = "scan", !.row = v]
<1>1. /\ tx[a].step = "idle" /\ status[v] # "none" /\ status[v] # "rejected"
      /\ overlap' = (overlap \/ ~Quiet) /\ tx' = [tx EXCEPT ![a] = row] /\ builds' = builds
      /\ UNCHANGED <<status, content, active, mode, approved, partial, blind, disowned>>
  BY DEF BeginApprove
<1>2. a \in Actor /\ a \notin Builder /\ builds \in 0..MaxBuilds
  BY RuleSetAssumption DEF Actor, RuleSetInv, TypeOK
<1>3. v \in 0..MaxVersions
  BY RuleSetAssumption DEF Version
<1>4. row \in TxRow
  BY <1>3, IdleRow DEF TxRow, Steps
<1>5. row.step = "scan" /\ row.row = v /\ row.old = {}
  BY IdleRow DEF TxRow
<1> HIDE DEF row
<1>6. ApproveRow(row) /\ FreshRow(a, row)
  BY <1>1, <1>2, <1>5 DEF ApproveRow, FreshRow, Past
<1>7. overlap' \in BOOLEAN
  BY <1>1
<1>8. builds' \in 0..MaxBuilds
  BY <1>1, <1>2
<1>9. \A w \in row.old : status[w] # "none"
  BY <1>5
<1> QED
  BY <1>1, <1>2, <1>4, <1>6, <1>7, <1>8, <1>9, CallGoesOn

\* A commit: the row gets its status, the rows it replaces are superseded.
LEMMA CommitDone ==
  ASSUME RuleSetInv, NEW a \in Actor, NEW verdict \in {"active", "awaiting_approval"},
         tx[a].step = "commit", tx[a].row \in Version,
         verdict # "active" => tx[a].old = {} /\ status[tx[a].row] = "none",
         ~overlap /\ verdict = "active" => tx[a].old = Marked,
         \A c \in Builder \ {a} : tx[c].step \in Past => tx[c].row # tx[a].row,
         status' = [v \in Version |-> IF v = tx[a].row THEN verdict
                                      ELSE IF v \in tx[a].old THEN "superseded" ELSE status[v]],
         content' \in [Version -> Contents \cup {{}}],
         active' = IF verdict = "active" THEN tx[a].row ELSE active,
         tx' = [tx EXCEPT ![a] = Idle], UNCHANGED <<mode, builds, overlap, disowned>>,
         approved' \subseteq Version, partial' \subseteq partial \cup {tx[a].row}, blind' \subseteq Version,
         PartialNeedsApproval'
  PROVE  RuleSetInv'
<1>1. /\ tx \in [Actor -> TxRow] /\ status \in [Version -> Statuses]
      /\ active \in {0} \cup {v \in Version : status[v] # "none"}
      /\ partial \subseteq Version
  BY DEF RuleSetInv, TypeOK, TxRow
<1>2. /\ tx' \in [Actor -> TxRow] /\ tx'[a] = Idle
      /\ \A b \in Actor \ {a} : tx'[b] = tx[b]
  BY <1>1, IdleRow
<1>3. status' \in [Version -> Statuses]
  BY <1>1 DEF Statuses
<1>4. \A v \in Version : status[v] # "none" => status'[v] # "none"
  BY <1>1
<1>5. status'[tx[a].row] = verdict /\ status'[tx[a].row] # "none"
  BY <1>1
<1>6. \A v \in Version : v # tx[a].row /\ status[v] = "none" => status'[v] = "none"
  BY <1>1 DEF RuleSetInv, CommittedRows
<1>7. TypeOK'
  <2>1. active' \in {0} \cup {v \in Version : status'[v] # "none"}
    BY <1>1, <1>4, <1>5
  <2> QED
    BY <1>1, <1>2, <1>3, <2>1 DEF RuleSetInv, TypeOK, TxRow
<1>8. (\A b \in Builder : BuildRow(tx[b]))'
  <2> SUFFICES ASSUME NEW b \in Builder PROVE BuildRow(tx[b])'
    OBVIOUS
  <2>1. b \in Actor /\ BuildRow(tx[b])
    BY DEF RuleSetInv, Actor
  <2>2. CASE b = a
    BY <1>2, <2>2, IdleRow DEF BuildRow
  <2>3. CASE b # a
    BY <1>2, <1>6, <2>1, <2>3 DEF BuildRow, Past
  <2> QED
    BY <2>2, <2>3
<1>9. (\A b \in Approver : ApproveRow(tx[b]))'
  BY <1>2, <1>4, IdleRow DEF RuleSetInv, ApproveRow, Actor
<1>10. RowsApart'
  BY <1>2, IdleRow DEF RuleSetInv, RowsApart, Actor
<1>11. CommittedRows'
  <2>1. \A b \in Actor : \A v \in tx'[b].old : v \in tx[b].old
    BY <1>2, IdleRow
  <2>2. \A b \in Actor : \A v \in tx[b].old : v \in Version /\ status[v] # "none"
    BY <1>1 DEF RuleSetInv, CommittedRows, TxRow
  <2>3. \A v \in partial' : status'[v] # "none"
    BY <1>1, <1>4, <1>5 DEF RuleSetInv, CommittedRows
  <2> QED
    BY <1>4, <2>1, <2>2, <2>3 DEF CommittedRows
<1>12. Serial'
  <2> SUFFICES ASSUME ~overlap PROVE Serial'
    BY DEF Serial
  <2>1. \A b \in Actor : tx'[b].step = "idle"
    BY <1>2, IdleRow DEF RuleSetInv, Serial
  <2>2. ~disowned => Marked' = {active'} \ {0}
    <3>1. 0 \notin Version
      BY DEF Version
    <3>2. CASE verdict = "active"
      BY <1>1, <1>3, <3>1, <3>2 DEF Marked
    <3>3. CASE verdict # "active"
      <4>1. Marked' = Marked
        BY <1>1, <1>3, <3>3 DEF Marked
      <4> QED
        BY <3>3, <4>1 DEF RuleSetInv, Serial
    <3> QED
      BY <3>2, <3>3
  <2>3. (\A b \in Actor : FreshRow(b, tx[b]))'
    BY <2>1 DEF FreshRow, Past
  <2> QED
    BY <2>1, <2>2, <2>3 DEF Serial
<1> QED
  BY <1>7, <1>8, <1>9, <1>10, <1>11, <1>12 DEF RuleSetInv

\* What a build knows when it commits.
LEMMA BuildCommits ==
  ASSUME RuleSetInv, NEW b \in Builder, tx[b].step = "commit"
  PROVE  /\ b \in Actor /\ b \notin Approver /\ tx[b] \in TxRow
         /\ tx[b].row \in Version /\ status[tx[b].row] = "none" /\ tx[b].row # active
         /\ tx[b].verdict \in {"active", "awaiting_approval"}
         /\ tx[b].failed => tx[b].verdict # "active"
         /\ tx[b].verdict # "active" => tx[b].old = {}
         /\ ~overlap /\ tx[b].verdict = "active" => tx[b].old = Marked
         /\ ~overlap /\ tx[b].verdict = "active" /\ tx[b].new = {} /\ ~tx[b].blind => Entries(active) = {}
<1>1. b \in Actor /\ b \notin Approver /\ tx[b] \in TxRow /\ BuildRow(tx[b])
  BY RuleSetAssumption DEF RuleSetInv, TypeOK, TxRow, Actor
<1>2. ~overlap => FreshRow(b, tx[b])
  BY <1>1 DEF RuleSetInv, Serial
<1>3. /\ tx[b].row \in Version /\ status[tx[b].row] = "none"
      /\ tx[b].verdict \in {"active", "awaiting_approval"}
      /\ tx[b].failed => tx[b].verdict # "active"
      /\ tx[b].verdict # "active" => tx[b].old = {}
  BY <1>1 DEF BuildRow, Past
<1>4. tx[b].row # active
  BY <1>3 DEF RuleSetInv, TypeOK, Version
<1> QED
  BY <1>1, <1>2, <1>3, <1>4 DEF FreshRow, Past

\* The commit makes all of a transaction visible at once.
LEMMA CommitStep ==
  ASSUME RuleSetInv, NEW a \in Actor, CommitBuild(a) \/ CommitApprove(a)
  PROVE  RuleSetInv'
<1>0. /\ tx[a] \in TxRow /\ content \in [Version -> Contents \cup {{}}] /\ partial \subseteq Version
      /\ approved \subseteq Version /\ blind \subseteq Version
      /\ \A v \in partial : status[v] # "none"
  BY DEF RuleSetInv, TypeOK, TxRow, CommittedRows
<1>1. CASE CommitBuild(a)
  <2>1. /\ a \in Builder /\ tx[a].step = "commit"
        /\ status' = [v \in Version |-> IF v = tx[a].row THEN tx[a].verdict
                                        ELSE IF v \in tx[a].old THEN "superseded" ELSE status[v]]
        /\ content' = [content EXCEPT ![tx[a].row] = tx[a].new]
        /\ active' = IF tx[a].verdict = "active" THEN tx[a].row ELSE active
        /\ partial' = IF tx[a].failed THEN partial \cup {tx[a].row} ELSE partial
        /\ blind' = IF tx[a].blind THEN blind \cup {tx[a].row} ELSE blind
        /\ tx' = [tx EXCEPT ![a] = Idle]
        /\ UNCHANGED <<mode, builds, overlap, disowned>> /\ approved' = approved
    BY <1>1 DEF CommitBuild
  <2>2. /\ tx[a].row \in Version /\ status[tx[a].row] = "none" /\ tx[a].row # active
        /\ tx[a].verdict \in {"active", "awaiting_approval"}
        /\ tx[a].failed => tx[a].verdict # "active"
        /\ tx[a].verdict # "active" => tx[a].old = {}
        /\ ~overlap /\ tx[a].verdict = "active" => tx[a].old = Marked
    BY <2>1, BuildCommits
  <2>3. content' \in [Version -> Contents \cup {{}}]
    BY <1>0, <2>1, <2>2 DEF TxRow
  <2>4. /\ partial' \subseteq partial \cup {tx[a].row} /\ approved' \subseteq Version
        /\ blind' \subseteq Version
    BY <1>0, <2>1, <2>2
  <2>5. PartialNeedsApproval'
    <3>1. tx[a].row \notin partial
      BY <1>0, <2>2
    <3>2. CASE tx[a].verdict = "active"
      BY <2>1, <2>2, <3>1, <3>2 DEF PartialNeedsApproval
    <3>3. CASE tx[a].verdict # "active"
      BY <2>1, <2>2, <2>4, <3>3 DEF RuleSetInv, PartialNeedsApproval
    <3> QED
      BY <3>2, <3>3
  <2>6. \A c \in Builder \ {a} : tx[c].step \in Past => tx[c].row # tx[a].row
    BY <2>1 DEF RuleSetInv, RowsApart, Past
  <2> QED
    BY <2>1, <2>2, <2>3, <2>4, <2>5, <2>6, CommitDone
<1>2. CASE CommitApprove(a)
  <2>1. /\ a \in Approver /\ tx[a].step = "commit"
        /\ status' = [v \in Version |-> IF v = tx[a].row THEN "active"
                                        ELSE IF v \in tx[a].old THEN "superseded" ELSE status[v]]
        /\ content' = content /\ active' = tx[a].row /\ partial' = partial /\ blind' = blind
        /\ tx' = [tx EXCEPT ![a] = Idle] /\ approved' = approved \cup {tx[a].row}
        /\ UNCHANGED <<mode, builds, overlap, disowned>>
    BY <1>2 DEF CommitApprove
  <2>2. tx[a].row \in Version /\ status[tx[a].row] # "none"
    BY <2>1 DEF RuleSetInv, ApproveRow
  <2>3. ~overlap => tx[a].old = Marked
    BY <2>1 DEF RuleSetInv, Serial, FreshRow
  <2>4. \A c \in Builder \ {a} : tx[c].step \in Past => tx[c].row # tx[a].row
    BY <2>2 DEF RuleSetInv, BuildRow
  <2>5. PartialNeedsApproval'
    BY <2>1 DEF PartialNeedsApproval
  <2>6. approved' \subseteq Version
    BY <1>0, <2>1, <2>2
  <2> QED
    BY <1>0, <2>1, <2>2, <2>3, <2>4, <2>5, <2>6, CommitDone
<1> QED
  BY <1>1, <1>2

\* A rejection ends a waiting version.
LEMMA RejectStep ==
  ASSUME RuleSetInv, NEW v \in Version, Reject(v)
  PROVE  RuleSetInv'
<1>1. /\ status[v] # "none" /\ status' = [status EXCEPT ![v] = "rejected"]
      /\ disowned' = (disowned \/ v = active) /\ overlap' = (overlap \/ ~Quiet)
      /\ UNCHANGED <<content, active, mode, tx, builds, approved, partial, blind>>
  BY DEF Reject
<1>2. status \in [Version -> Statuses] /\ status' \in [Version -> Statuses]
  BY <1>1 DEF RuleSetInv, TypeOK, Statuses
<1>3. \A w \in Version : status'[w] = "none" <=> status[w] = "none"
  BY <1>1, <1>2
<1>4. TypeOK'
  <2>1. overlap' \in BOOLEAN
    BY <1>1
  <2>2. disowned' \in BOOLEAN
    BY <1>1
  <2> QED
    BY <1>1, <1>2, <1>3, <2>1, <2>2 DEF RuleSetInv, TypeOK
<1>5. (\A b \in Builder : BuildRow(tx[b]))'
  BY <1>1, <1>3 DEF RuleSetInv, BuildRow, Past
<1>6. (\A a \in Approver : ApproveRow(tx[a]))'
  BY <1>1, <1>3 DEF RuleSetInv, ApproveRow
<1>7. RowsApart' /\ PartialNeedsApproval'
  BY <1>1 DEF RuleSetInv, RowsApart, PartialNeedsApproval
<1>8. CommittedRows'
  BY <1>1, <1>3 DEF RuleSetInv, TypeOK, CommittedRows
<1>9. Serial'
  <2> SUFFICES ASSUME ~overlap, Quiet PROVE Serial'
    BY <1>1 DEF Serial
  <2>1. \A a \in Actor : tx'[a].step = "idle"
    BY <1>1 DEF Quiet
  <2>2. (\A a \in Actor : FreshRow(a, tx[a]))'
    BY <2>1 DEF FreshRow, Past
  <2>3. ~disowned' => Marked' = {active'} \ {0}
    <3>1. ~disowned' => v # active /\ Marked = {active} \ {0}
      BY <1>1 DEF RuleSetInv, Serial
    <3>2. Marked' = Marked \ {v}
      BY <1>1, <1>2 DEF Marked
    <3> QED
      BY <1>1, <3>1, <3>2
  <2> QED
    BY <2>1, <2>2, <2>3 DEF Serial
<1> QED
  BY <1>4, <1>5, <1>6, <1>7, <1>8, <1>9 DEF RuleSetInv

\* Every step keeps RuleSetInv.
LEMMA RuleSetStep ==
  ASSUME RuleSetInv, [Next]_vars
  PROVE  RuleSetInv'
<1>1. CASE \E b \in Builder : Begin(b) \/ Compare(b) \/ Number(b) \/ Insert(b)
  BY <1>1, BuildStep
<1>2. CASE \E b \in Builder : CommitBuild(b)
  BY <1>2, CommitStep DEF Actor
<1>3. CASE \E a \in Approver : CommitApprove(a)
  BY <1>3, CommitStep DEF Actor
<1>4. CASE \E a \in Approver : \E v \in Version : BeginApprove(a, v)
  BY <1>4, ApproveStep
<1>5. CASE \E a \in Actor : Scan(a) \/ Supersede(a) \/ SetActive(a) \/ Point(a) \/ Abort(a)
  BY <1>5, CallStep
<1>6. CASE \E v \in Version : Reject(v)
  BY <1>6, RejectStep
<1>7. CASE SetMode \/ UNCHANGED vars
  <2>1. /\ UNCHANGED <<status, content, active, tx, builds, approved, partial, blind, overlap, disowned>>
        /\ mode' \in Modes
    BY <1>7 DEF SetMode, vars, RuleSetInv, TypeOK
  <2>2. TypeOK'
    BY <2>1 DEF RuleSetInv, TypeOK
  <2>3. (\A b \in Builder : BuildRow(tx[b]))' /\ (\A a \in Approver : ApproveRow(tx[a]))'
    BY <2>1 DEF RuleSetInv, BuildRow, ApproveRow
  <2>4. RowsApart' /\ CommittedRows' /\ PartialNeedsApproval'
    BY <2>1 DEF RuleSetInv, RowsApart, CommittedRows, PartialNeedsApproval
  <2>5. Serial'
    BY <2>1 DEF RuleSetInv, Serial, FreshRow, Marked, Entries
  <2> QED
    BY <2>2, <2>3, <2>4, <2>5 DEF RuleSetInv
<1> QED
  BY <1>1, <1>2, <1>3, <1>4, <1>5, <1>6, <1>7 DEF Next

\* A new rule set has no version.
LEMMA RuleSetStart ==
  ASSUME Init
  PROVE  RuleSetInv
<1>1. \A a \in Actor : tx[a] = Idle /\ tx[a].step = "idle"
  BY IdleRow DEF Init
<1>2. TypeOK
  <2>1. tx \in [Actor -> TxRow]
    BY IdleRow DEF Init
  <2>2. builds \in 0..MaxBuilds
    BY RuleSetAssumption DEF Init
  <2> QED
    BY <2>1, <2>2 DEF Init, TypeOK, TxRow, Statuses
<1>3. RowsApart
  BY <1>1, IdleRow DEF RowsApart, Actor
<1>4. CommittedRows
  BY <1>1, IdleRow DEF CommittedRows, Init
<1>5. Serial
  <2>1. Marked = {} /\ {active} \ {0} = {}
    BY DEF Init, Marked
  <2> QED
    BY <1>1, <2>1, IdleRow DEF Serial
<1>6. PartialNeedsApproval
  BY DEF Init, PartialNeedsApproval
<1> QED
  BY <1>1, <1>2, <1>3, <1>4, <1>5, <1>6, IdleRow DEF RuleSetInv, Actor

\* Transactions that overlap own different rows, and what they are about to
\* commit leaves one version active, the one the rule set points to.
THEOREM RuleSetInvariant == Spec => []RuleSetInv
<1>1. Init => RuleSetInv
  BY RuleSetStart
<1>2. RuleSetInv /\ [Next]_vars => RuleSetInv'
  BY RuleSetStep
<1> QED
  BY <1>1, <1>2, PTL DEF Spec

\* A version built while a source had failed is never in force without the
\* operator's approval, however many builds and approvals overlap.
THEOREM PartialIsApproved == Spec => []PartialNeedsApproval
<1>1. RuleSetInv => PartialNeedsApproval
  BY DEF RuleSetInv
<1> QED
  BY <1>1, RuleSetInvariant, PTL

\* As long as calls follow one another, the status column and the pointer agree.
THEOREM PointerFollows == Spec => []PointerAgrees
<1>1. RuleSetInv => PointerAgrees
  BY DEF RuleSetInv, Serial, Marked, PointerAgrees
<1> QED
  BY <1>1, RuleSetInvariant, PTL

\* As long as calls follow one another, a list that has entries is replaced by an
\* empty one only when the operator approves it, or by a build that could not
\* read the list.
THEOREM NothingEmptiedSilently == Spec => EmptiedOnlyByApproval
<1>1. ASSUME RuleSetInv, [Next]_vars, ~overlap, Entries(active) # {}, (Entries(active))' = {}
      PROVE  active' \in approved' \cup blind'
  <2>1. CASE \E b \in Builder : CommitBuild(b)
    <3>1. PICK b \in Builder : CommitBuild(b)
      BY <2>1
    <3>2. /\ tx[b].step = "commit" /\ content' = [content EXCEPT ![tx[b].row] = tx[b].new]
          /\ active' = IF tx[b].verdict = "active" THEN tx[b].row ELSE active
          /\ blind' = IF tx[b].blind THEN blind \cup {tx[b].row} ELSE blind
      BY <3>1 DEF CommitBuild
    <3>3. /\ tx[b].row \in Version /\ tx[b].row # active
          /\ ~overlap /\ tx[b].verdict = "active" /\ tx[b].new = {} /\ ~tx[b].blind => Entries(active) = {}
      BY <1>1, <3>2, BuildCommits
    <3>4. content \in [Version -> Contents \cup {{}}] /\ active \in {0} \cup Version /\ 0 \notin Version
      BY <1>1 DEF RuleSetInv, TypeOK, Version
    <3>5. CASE tx[b].verdict = "active"
      BY <1>1, <3>2, <3>3, <3>4, <3>5 DEF Entries
    <3>6. CASE tx[b].verdict # "active"
      BY <1>1, <3>2, <3>3, <3>4, <3>6 DEF Entries
    <3> QED
      BY <3>5, <3>6
  <2>2. CASE \E a \in Approver : CommitApprove(a)
    BY <2>2 DEF CommitApprove
  <2>3. CASE UNCHANGED <<content, active>>
    BY <1>1, <2>3 DEF Entries
  <2> QED
    BY <1>1, <2>1, <2>2, <2>3
       DEF Next, vars, Begin, Compare, Number, Insert, BeginApprove, Scan, Supersede, SetActive,
           Point, Abort, Reject, SetMode
<1> QED
  BY <1>1, RuleSetInvariant, PTL DEF Spec, EmptiedOnlyByApproval
-----------------------------------------------------------------------------
\* Sessions and the second factor.

AuthSteps == {"new", "fail", "code", "insert", "reset", "update", "delete", "enable", "disable", "done"}
ReqRow == [step : AuthSteps, pw : Nat, code : Num, sid : Nat, overlaps : BOOLEAN]
SessionRow == [id : Nat, pw : Nat, spared : BOOLEAN]
UserRow == [password : Nat, failed : Nat, locked : BOOLEAN, secret : Num, enabled : BOOLEAN,
            codes : SUBSET Num]

\* The types the proof needs; the bound on the passwords is left to TLC.
AuthRows ==
  /\ user \in UserRow /\ sessions \subseteq SessionRow /\ req \in [Request -> ReqRow]
  /\ wrong \in Int /\ redeemed \in [Num -> Nat]

\* What a request has checked still holds, or it is marked as overtaken.
ReqOK(t) ==
  /\ t.pw <= user.password
  /\ t.step \in {"code", "insert"} => t.pw = user.password \/ t.overlaps
  /\ t.step = "enable" => t.code = user.secret \/ t.overlaps
RequestsOK == \A i \in Request : ReqOK(req[i])

\* A session that shows an old password is about to be deleted by the request
\* that wrote the current one.
Deleting == \E i \in Request : req[i].step = "delete" /\ req[i].pw = user.password
SessionsOK ==
  \A s \in sessions : s.pw <= user.password /\ (s.pw = user.password \/ s.spared \/ Deleting)

\* A recovery code was made by a request that is over, so no request will make it
\* again, and has not been used as long as it is in the row.
Retired(n) == n = 1 \/ (n - 1 \in Request /\ req[n - 1].step = "done")
CodesOK ==
  \A n \in Num :
    /\ redeemed[n] <= 1
    /\ n \in user.codes => redeemed[n] = 0
    /\ n \in user.codes \/ redeemed[n] # 0 => Retired(n)
FactorOK == user.enabled /\ ~checked.raced => user.secret = checked.secret

\* What was guessed wrong is counted in the row or about to be.
Fails == {i \in Request : req[i].step = "fail"}
GuessOK ==
  /\ wrong - Cardinality(Fails) <= user.failed
  /\ ~user.locked => wrong - Cardinality(Fails) < MaxFailures

AuthInv == AuthRows /\ RequestsOK /\ SessionsOK /\ CodesOK /\ FactorOK /\ GuessOK

\* The row of a request that is over.
LEMMA OverRow == Over \in ReqRow /\ Over.step = "done" /\ Over.pw = 0
<1>1. 0 \in Num
  BY AuthAssumption DEF Num
<1> QED
  BY <1>1 DEF Over, ReqRow, AuthSteps

\* How many requests are about to count a failure.
LEMMA FailsCounted ==
  ASSUME AuthRows, NEW i \in Request
  PROVE  /\ Cardinality(Fails) \in Nat
         /\ i \notin Fails => Cardinality(Fails \cup {i}) = Cardinality(Fails) + 1
         /\ i \in Fails => Cardinality(Fails \ {i}) = Cardinality(Fails) - 1
<1>1. IsFiniteSet(Request)
  BY AuthAssumption, FS_Interval DEF Request
<1>2. IsFiniteSet(Fails)
  BY <1>1, FS_Subset DEF Fails
<1> QED
  BY <1>2, FS_AddElement, FS_RemoveElement, FS_CardinalityType

\* One request goes on.
LEMMA RequestMoves ==
  ASSUME AuthRows, NEW i \in Request, NEW row \in ReqRow, req' = [req EXCEPT ![i] = row],
         req[i].step # "done"
  PROVE  /\ req' \in [Request -> ReqRow] /\ req'[i] = row
         /\ \A j \in Request \ {i} : req'[j] = req[j]
         /\ Fails' = IF row.step = "fail" THEN Fails \cup {i} ELSE Fails \ {i}
         /\ \A n \in Num : Retired(n) => Retired(n)'
<1>1. req \in [Request -> ReqRow]
  BY DEF AuthRows
<1>2. /\ req' \in [Request -> ReqRow] /\ req'[i] = row
      /\ \A j \in Request \ {i} : req'[j] = req[j]
  BY <1>1
<1>3. Fails' = IF row.step = "fail" THEN Fails \cup {i} ELSE Fails \ {i}
  BY <1>2 DEF Fails
<1>4. \A n \in Num : Retired(n) => Retired(n)'
  BY <1>2 DEF Retired
<1> QED
  BY <1>2, <1>3, <1>4

\* A request that goes a step on keeps its row in type.
LEMMA StepRow ==
  ASSUME AuthRows, NEW i \in Request, NEW from \in AuthSteps, NEW to \in AuthSteps, Step(i, from, to)
  PROVE  \E row \in ReqRow :
           /\ req' = [req EXCEPT ![i] = row] /\ req[i].step = from /\ row.step = to
           /\ to = "done" => row.pw = 0
           /\ to # "done" => row.pw = req[i].pw /\ (row.overlaps <=> req[i].overlaps)
<1>1. req \in [Request -> ReqRow] /\ req[i] \in ReqRow
  BY DEF AuthRows
<1>2. CASE to = "done"
  BY <1>1, <1>2, OverRow DEF Step
<1>3. CASE to # "done"
  <2> DEFINE row == [req[i] EXCEPT !.step = to]
  <2>1. req' = [req EXCEPT ![i] = row] /\ req[i].step = from
    BY <1>1, <1>3 DEF Step
  <2>2. row \in ReqRow
    BY <1>1 DEF ReqRow
  <2>3. row.step = to /\ row.pw = req[i].pw
    BY <1>1 DEF ReqRow
  <2>4. row.overlaps = req[i].overlaps
    BY <1>1 DEF ReqRow
  <2> HIDE DEF row
  <2> QED
    BY <1>3, <2>1, <2>2, <2>3, <2>4
<1> QED
  BY <1>2, <1>3

\* What a step must see to in which one request goes on and neither the password
\* nor the secret changes.
LEMMA RequestGoesOn ==
  ASSUME AuthInv, NEW i \in Request, NEW row \in ReqRow, req' = [req EXCEPT ![i] = row],
         req[i].step # "done", ReqOK(row),
         user' \in UserRow, user'.password = user.password, user'.secret = user.secret,
         sessions' \subseteq SessionRow, wrong' \in Int, redeemed' \in [Num -> Nat],
         SessionsOK', CodesOK', FactorOK', GuessOK'
  PROVE  AuthInv'
<1>1. /\ req' \in [Request -> ReqRow] /\ req'[i] = row
      /\ \A j \in Request \ {i} : req'[j] = req[j]
  BY RequestMoves DEF AuthInv
<1>2. RequestsOK'
  <2>1. \A j \in Request : ReqOK(req'[j])
    BY <1>1 DEF AuthInv, RequestsOK
  <2> QED
    BY <2>1 DEF RequestsOK, ReqOK
<1> QED
  BY <1>1, <1>2 DEF AuthInv, AuthRows

\* The sessions that stay are as good as they were.
LEMMA SessionsStay ==
  ASSUME AuthInv, NEW i \in Request, NEW row \in ReqRow, req' = [req EXCEPT ![i] = row],
         req[i].step \notin {"done", "delete"}, user'.password = user.password,
         \A s \in sessions' :
           s \in sessions \/ (s.pw <= user.password /\ (s.pw = user.password \/ s.spared))
  PROVE  SessionsOK'
<1>1. \A j \in Request \ {i} : req'[j] = req[j]
  BY RequestMoves DEF AuthInv
<1>2. Deleting => Deleting'
  BY <1>1 DEF Deleting
<1> QED
  BY <1>2 DEF AuthInv, SessionsOK

\* Recovery codes stay sound while none is added.
LEMMA CodesStay ==
  ASSUME AuthInv, user'.codes \subseteq user.codes, redeemed' = redeemed,
         \A n \in Num : Retired(n) => Retired(n)'
  PROVE  CodesOK'
BY DEF AuthInv, CodesOK

\* A failed check is counted, or will be by the request that made it.
LEMMA GuessesStay ==
  ASSUME AuthInv, NEW i \in Request, NEW row \in ReqRow, req' = [req EXCEPT ![i] = row],
         req[i].step \notin {"done", "fail"}, user'.failed = user.failed, user'.locked = user.locked,
         \/ row.step # "fail" /\ wrong' = wrong
         \/ row.step = "fail" /\ wrong' = wrong + 1
  PROVE  GuessOK'
<1>1. AuthRows /\ GuessOK /\ wrong \in Int /\ user.failed \in Nat
  BY DEF AuthInv, AuthRows, UserRow
<1>2. i \notin Fails /\ (Fails' = IF row.step = "fail" THEN Fails \cup {i} ELSE Fails \ {i})
  BY <1>1, RequestMoves DEF Fails
<1>3. /\ Cardinality(Fails) \in Nat
      /\ Cardinality(Fails \cup {i}) = Cardinality(Fails) + 1
  BY <1>1, <1>2, FailsCounted
<1>4. CASE row.step # "fail"
  <2>1. Fails' = Fails
    BY <1>2, <1>4
  <2> QED
    BY <1>1, <1>4, <2>1 DEF GuessOK
<1>5. CASE row.step = "fail"
  <2>1. Cardinality(Fails') = Cardinality(Fails) + 1
    BY <1>2, <1>3, <1>5
  <2>2. wrong' - Cardinality(Fails') = wrong - Cardinality(Fails)
    BY <1>1, <1>3, <1>5, <2>1, AuthAssumption
  <2> QED
    BY <1>1, <2>2 DEF GuessOK
<1> QED
  BY <1>4, <1>5

\* A request reads, inserts or deletes sessions and leaves the account alone.
LEMMA AccountStays ==
  ASSUME AuthInv, NEW i \in Request, NEW row \in ReqRow, req' = [req EXCEPT ![i] = row],
         req[i].step \notin {"done", "delete", "fail"}, ReqOK(row), user' = user,
         sessions' \subseteq SessionRow,
         \A s \in sessions' :
           s \in sessions \/ (s.pw <= user.password /\ (s.pw = user.password \/ s.spared)),
         UNCHANGED <<redeemed, checked>>,
         \/ row.step # "fail" /\ wrong' = wrong
         \/ row.step = "fail" /\ wrong' = wrong + 1
  PROVE  AuthInv'
<1>1. AuthRows /\ wrong' \in Int /\ user' \in UserRow /\ redeemed' \in [Num -> Nat]
  BY DEF AuthInv, AuthRows
<1>2. SessionsOK'
  BY SessionsStay
<1>3. CodesOK'
  BY <1>1, RequestMoves, CodesStay
<1>4. GuessOK'
  BY GuessesStay
<1>5. FactorOK'
  BY DEF AuthInv, FactorOK
<1> QED
  BY <1>1, <1>2, <1>3, <1>4, <1>5, RequestGoesOn

\* login: the password is compared with the user as read.
LEMMA LoginStep ==
  ASSUME AuthInv, NEW i \in Request, NEW pw \in 0..user.password, NEW totp \in BOOLEAN,
         NEW code \in 0..2, Login(i, pw, totp, code)
  PROVE  AuthInv'
<1> DEFINE bad == ~user.locked /\ pw # user.password
           to == IF user.locked THEN "done"
                 ELSE IF bad THEN "fail"
                 ELSE IF ~user.enabled THEN "insert"
                 ELSE IF user.secret = 0 \/ (~totp /\ code = 0) THEN "done"
                 ELSE IF totp THEN "insert" ELSE "code"
           kept == IF to = "code" THEN code ELSE 0
           row == IF to = "done" THEN Over
                  ELSE [req[i] EXCEPT !.step = to, !.pw = pw, !.code = kept]
<1>1. /\ req \in [Request -> ReqRow] /\ req[i] \in ReqRow /\ user.password \in Nat
      /\ sessions \subseteq SessionRow
  BY DEF AuthInv, AuthRows, UserRow
<1>2. /\ req[i].step = "new" /\ req' = [req EXCEPT ![i] = row]
      /\ wrong' = (IF bad THEN wrong + 1 ELSE wrong)
      /\ UNCHANGED <<user, sessions, redeemed, checked>>
  BY <1>1 DEF Login, Comes
<1>3. /\ to \in {"done", "fail", "insert", "code"} /\ (to = "fail" <=> bad)
      /\ to \in {"insert", "code"} => pw = user.password
  OBVIOUS
<1>5. kept \in Num
  BY AuthAssumption DEF Num, Request
<1> HIDE DEF to, kept, bad
<1>6. row \in ReqRow /\ row.step = to /\ row.pw \in 0..user.password
      /\ (to # "done" => row.pw = pw)
  <2>1. CASE to = "done"
    BY <1>1, <2>1, OverRow
  <2>2. CASE to # "done"
    <3>1. pw \in Nat /\ to \in AuthSteps
      BY <1>1, <1>3 DEF AuthSteps
    <3>2. row \in ReqRow
      BY <1>1, <1>5, <2>2, <3>1 DEF ReqRow
    <3>3. row.step = to /\ row.pw = pw
      BY <1>1, <2>2 DEF ReqRow
    <3> QED
      BY <3>2, <3>3
  <2> QED
    BY <2>1, <2>2
<1> HIDE DEF row
<1>7. ReqOK(row)
  BY <1>1, <1>3, <1>6 DEF ReqOK
<1> QED
  BY <1>1, <1>2, <1>3, <1>6, <1>7, AccountStays

\* requireAuth: a request of a session begins.
LEMMA AuthenticatedStep ==
  ASSUME AuthInv, NEW i \in Request, NEW sid \in Nat, NEW to \in {"update", "enable", "disable", "done"},
         Authenticated(i, sid, to), UNCHANGED <<user, wrong, redeemed, checked>>,
         sessions' \subseteq sessions
  PROVE  AuthInv'
<1> DEFINE row == IF to = "done" THEN Over
                  ELSE [req[i] EXCEPT !.step = to, !.sid = sid, !.code = user.secret]
<1>1. /\ req \in [Request -> ReqRow] /\ req[i] \in ReqRow /\ user.password \in Nat
      /\ sessions \subseteq SessionRow /\ user.secret \in Num /\ ReqOK(req[i])
  BY DEF AuthInv, AuthRows, UserRow, RequestsOK
<1>2. req[i].step = "new" /\ req' = [req EXCEPT ![i] = row]
  BY <1>1 DEF Authenticated, Comes
<1>3. /\ row \in ReqRow /\ row.step = to /\ row.pw <= user.password
      /\ (to # "done" => row.code = user.secret)
  <2>1. CASE to = "done"
    BY <1>1, <2>1, OverRow
  <2>2. CASE to # "done"
    <3>1. to \in AuthSteps
      BY DEF AuthSteps
    <3>2. row \in ReqRow
      BY <1>1, <2>2, <3>1 DEF ReqRow
    <3>3. row.step = to /\ row.pw = req[i].pw /\ row.code = user.secret
      BY <1>1, <2>2 DEF ReqRow
    <3> QED
      BY <1>1, <3>2, <3>3 DEF ReqOK
  <2> QED
    BY <2>1, <2>2
<1> HIDE DEF row
<1>4. ReqOK(row)
  BY <1>3 DEF ReqOK
<1>5. row.step # "fail"
  BY <1>3
<1> QED
  BY <1>1, <1>2, <1>3, <1>4, <1>5, AccountStays

\* The session is inserted after the checks, which may be old by then.
LEMMA InsertSessionStep ==
  ASSUME AuthInv, NEW i \in Request, InsertSession(i)
  PROVE  AuthInv'
<1>1. /\ Step(i, "insert", "reset") /\ UNCHANGED <<user, wrong, redeemed, checked>>
      /\ sessions' = sessions \cup {[id |-> i, pw |-> req[i].pw, spared |-> req[i].overlaps]}
  BY DEF InsertSession
<1>2. PICK row \in ReqRow :
        /\ req' = [req EXCEPT ![i] = row] /\ req[i].step = "insert" /\ row.step = "reset"
        /\ row.pw = req[i].pw
  BY <1>1, StepRow DEF AuthInv, AuthSteps
<1>3. ReqOK(req[i]) /\ req[i] \in ReqRow /\ sessions \subseteq SessionRow
  BY DEF AuthInv, AuthRows, RequestsOK
<1> DEFINE new == [id |-> i, pw |-> req[i].pw, spared |-> req[i].overlaps]
<1>4. new \in SessionRow
  BY <1>3 DEF SessionRow, ReqRow, Request
<1>5. new.pw = req[i].pw
  OBVIOUS
<1>6. new.spared = req[i].overlaps
  OBVIOUS
<1>7. sessions' = sessions \cup {new}
  BY <1>1
<1> HIDE DEF new
<1>8. new.pw <= user.password /\ (new.pw = user.password \/ new.spared)
  BY <1>2, <1>3, <1>5, <1>6 DEF ReqOK
<1>9. ReqOK(row)
  BY <1>2, <1>3 DEF ReqOK
<1> QED
  BY <1>1, <1>2, <1>3, <1>4, <1>7, <1>8, <1>9, AccountStays

\* A recovery code is used up in the statement that accepts it.
LEMMA ConsumeStep ==
  ASSUME AuthInv, NEW i \in Request, Consume(i)
  PROVE  AuthInv'
<1> DEFINE found == req[i].code \in user.codes
           to == IF found THEN "insert" ELSE "fail"
<1>1. /\ Step(i, "code", to) /\ user' = [user EXCEPT !.codes = user.codes \ {req[i].code}]
      /\ redeemed' = (IF found THEN [redeemed EXCEPT ![req[i].code] = @ + 1] ELSE redeemed)
      /\ wrong' = (IF found THEN wrong ELSE wrong + 1)
      /\ UNCHANGED <<sessions, checked>>
  BY DEF Consume
<1>2. /\ AuthRows /\ req[i] \in ReqRow /\ user \in UserRow /\ ReqOK(req[i])
      /\ sessions' \subseteq SessionRow /\ req[i].code \in Num
  BY <1>1 DEF AuthInv, AuthRows, RequestsOK, ReqRow
<1>3. to \in {"insert", "fail"} /\ (to = "insert" <=> found)
  OBVIOUS
<1> HIDE DEF to
<1>4. PICK row \in ReqRow :
        /\ req' = [req EXCEPT ![i] = row] /\ req[i].step = "code" /\ row.step = to
        /\ row.pw = req[i].pw /\ (row.overlaps <=> req[i].overlaps)
  <2>1. "code" \in AuthSteps /\ to \in AuthSteps /\ to # "done"
    BY <1>3 DEF AuthSteps
  <2> QED
    BY <1>1, <1>2, <2>1, StepRow
<1>5. ReqOK(row)
  BY <1>2, <1>3, <1>4 DEF ReqOK
<1>6. /\ user' \in UserRow /\ user'.password = user.password /\ user'.secret = user.secret
      /\ user'.failed = user.failed /\ user'.codes = user.codes \ {req[i].code}
  BY <1>1, <1>2 DEF UserRow
<1>7. user'.locked = user.locked /\ user'.enabled = user.enabled
  BY <1>1, <1>2 DEF UserRow
<1>8. SessionsOK'
  BY <1>1, <1>4, <1>6, SessionsStay
<1>9. CodesOK'
  <2>1. \A n \in Num : Retired(n) => Retired(n)'
    BY <1>2, <1>4, RequestMoves
  <2>2. redeemed \in [Num -> Nat] /\ CodesOK
    BY DEF AuthInv, AuthRows
  <2>3. CASE found
    BY <1>1, <1>2, <1>6, <2>1, <2>2, <2>3 DEF CodesOK
  <2>4. CASE ~found
    BY <1>1, <1>6, <2>1, <2>4, CodesStay
  <2> QED
    BY <2>3, <2>4
<1>10. GuessOK'
  BY <1>1, <1>3, <1>4, <1>6, <1>7, GuessesStay
<1>11. FactorOK'
  BY <1>1, <1>6, <1>7 DEF AuthInv, FactorOK
<1>12. wrong' \in Int /\ redeemed' \in [Num -> Nat]
  BY <1>1, <1>2 DEF AuthRows
<1> QED
  BY <1>2, <1>4, <1>5, <1>6, <1>8, <1>9, <1>10, <1>11, <1>12, RequestGoesOn

\* A failed attempt is counted, and locks the account at the limit.
LEMMA RegisterStep ==
  ASSUME AuthInv, NEW i \in Request, RegisterFailedLogin(i)
  PROVE  AuthInv'
<1> DEFINE locks == user.locked \/ user.failed + 1 >= MaxFailures
<1>1. /\ Step(i, "fail", "done")
      /\ user' = [user EXCEPT !.failed = user.failed + 1, !.locked = locks]
      /\ UNCHANGED <<sessions, wrong, redeemed, checked>>
  BY DEF RegisterFailedLogin
<1>2. AuthRows /\ user \in UserRow /\ user.failed \in Nat /\ user.password \in Nat
  BY DEF AuthInv, AuthRows, UserRow
<1>3. locks \in BOOLEAN
  OBVIOUS
<1>4. PICK row \in ReqRow :
        /\ req' = [req EXCEPT ![i] = row] /\ req[i].step = "fail" /\ row.step = "done" /\ row.pw = 0
  <2>1. "fail" \in AuthSteps /\ "done" \in AuthSteps
    BY DEF AuthSteps
  <2> QED
    BY <1>1, <1>2, <2>1, StepRow
<1>5. ReqOK(row)
  BY <1>2, <1>4 DEF ReqOK
<1>6. user'.locked <=> locks
  BY <1>1, <1>2 DEF UserRow
<1>7. user'.enabled = user.enabled
  BY <1>1, <1>2 DEF UserRow
<1>8. GuessOK'
  <2>1. i \in Fails /\ Fails' = Fails \ {i}
    BY <1>2, <1>4, RequestMoves DEF Fails
  <2>2. Cardinality(Fails) \in Nat /\ Cardinality(Fails') = Cardinality(Fails) - 1
    BY <1>2, <2>1, FailsCounted
  <2>3. user'.failed = user.failed + 1
    BY <1>1, <1>2 DEF UserRow
  <2>4. wrong \in Int /\ wrong - Cardinality(Fails) <= user.failed
    BY DEF AuthInv, AuthRows, GuessOK
  <2>5. wrong' - Cardinality(Fails') <= user'.failed
    BY <1>1, <1>2, <2>2, <2>3, <2>4
  <2>6. ~user'.locked => user.failed + 1 < MaxFailures
    BY <1>2, <1>6, AuthAssumption
  <2>7. ~user'.locked => wrong' - Cardinality(Fails') < MaxFailures
    BY <1>1, <1>2, <2>2, <2>4, <2>6, AuthAssumption
  <2> QED
    BY <2>5, <2>7 DEF GuessOK
<1> HIDE DEF locks
<1>9. /\ user' \in UserRow /\ user'.password = user.password /\ user'.secret = user.secret
      /\ user'.codes = user.codes
  <2>1. user.failed + 1 \in Nat
    BY <1>2
  <2>2. user' \in UserRow
    BY <1>1, <1>2, <1>3, <2>1 DEF UserRow
  <2>3. /\ user'.password = user.password /\ user'.secret = user.secret
        /\ user'.codes = user.codes
    BY <1>1, <1>2 DEF UserRow
  <2> QED
    BY <2>2, <2>3
<1>10. SessionsOK'
  BY <1>1, <1>4, <1>9, SessionsStay
<1>11. CodesOK'
  BY <1>1, <1>2, <1>4, <1>9, RequestMoves, CodesStay
<1>12. FactorOK'
  BY <1>1, <1>7, <1>9 DEF AuthInv, FactorOK
<1>13. wrong' \in Int /\ redeemed' \in [Num -> Nat] /\ sessions' \subseteq SessionRow
  BY <1>1 DEF AuthInv, AuthRows
<1> QED
  BY <1>4, <1>5, <1>8, <1>9, <1>10, <1>11, <1>12, <1>13, RequestGoesOn

\* A success forgets the failures.
LEMMA ResetStep ==
  ASSUME AuthInv, NEW i \in Request, ResetFailures(i)
  PROVE  AuthInv'
<1>1. /\ Step(i, "reset", "done")
      /\ user' = [user EXCEPT !.failed = 0, !.locked = FALSE]
      /\ wrong' = Cardinality(Fails)
      /\ UNCHANGED <<sessions, redeemed, checked>>
  BY DEF ResetFailures, Fails
<1>2. AuthRows /\ user \in UserRow /\ user.failed \in Nat /\ user.password \in Nat
  BY DEF AuthInv, AuthRows, UserRow
<1>3. PICK row \in ReqRow :
        /\ req' = [req EXCEPT ![i] = row] /\ req[i].step = "reset" /\ row.step = "done" /\ row.pw = 0
  <2>1. "reset" \in AuthSteps /\ "done" \in AuthSteps
    BY DEF AuthSteps
  <2> QED
    BY <1>1, <1>2, <2>1, StepRow
<1>4. ReqOK(row)
  BY <1>2, <1>3 DEF ReqOK
<1>5. user'.enabled = user.enabled
  BY <1>1, <1>2 DEF UserRow
<1>6. Fails' = Fails
  BY <1>2, <1>3, RequestMoves DEF Fails
<1>7. Cardinality(Fails) \in Nat
  BY <1>2, FailsCounted
<1>8. /\ user' \in UserRow /\ user'.password = user.password /\ user'.secret = user.secret
      /\ user'.codes = user.codes /\ user'.failed = 0
  BY <1>1, <1>2 DEF UserRow
<1>9. GuessOK'
  BY <1>1, <1>6, <1>7, <1>8, AuthAssumption DEF GuessOK
<1>10. SessionsOK'
  BY <1>1, <1>3, <1>8, SessionsStay
<1>11. CodesOK'
  BY <1>1, <1>2, <1>3, <1>8, RequestMoves, CodesStay
<1>12. FactorOK'
  BY <1>1, <1>5, <1>8 DEF AuthInv, FactorOK
<1>13. wrong' \in Int /\ redeemed' \in [Num -> Nat] /\ sessions' \subseteq SessionRow
  BY <1>1, <1>7 DEF AuthInv, AuthRows
<1> QED
  BY <1>3, <1>4, <1>8, <1>9, <1>10, <1>11, <1>12, <1>13, RequestGoesOn

\* The lock of the account runs out.
LEMMA LockStep ==
  ASSUME AuthInv, LockEnds
  PROVE  AuthInv'
<1>1. /\ user' = [user EXCEPT !.locked = FALSE] /\ wrong' = Cardinality(Fails)
      /\ UNCHANGED <<sessions, req, redeemed, checked>>
  BY DEF LockEnds, Fails
<1>2. AuthRows /\ user \in UserRow /\ user.failed \in Nat
  BY DEF AuthInv, AuthRows, UserRow
<1>3. IsFiniteSet(Request)
  BY AuthAssumption, FS_Interval DEF Request
<1>4. Cardinality(Fails) \in Nat
  BY <1>3, FS_Subset, FS_CardinalityType DEF Fails
<1>5. user'.enabled = user.enabled
  BY <1>1, <1>2 DEF UserRow
<1>6. /\ user' \in UserRow /\ user'.password = user.password /\ user'.secret = user.secret
      /\ user'.codes = user.codes /\ user'.failed = user.failed
  BY <1>1, <1>2 DEF UserRow
<1>7. AuthRows'
  BY <1>1, <1>4, <1>6 DEF AuthInv, AuthRows
<1>8. RequestsOK' /\ SessionsOK'
  BY <1>1, <1>6 DEF AuthInv, RequestsOK, ReqOK, SessionsOK, Deleting
<1>9. CodesOK'
  BY <1>1, <1>6 DEF AuthInv, CodesOK, Retired
<1>10. FactorOK'
  BY <1>1, <1>5, <1>6 DEF AuthInv, FactorOK
<1>11. Fails' = Fails
  BY <1>1 DEF Fails
<1>12. GuessOK'
  BY <1>1, <1>2, <1>4, <1>6, <1>11, AuthAssumption DEF GuessOK
<1> QED
  BY <1>7, <1>8, <1>9, <1>10, <1>12 DEF AuthInv

\* The other sessions are deleted after the password has changed.
LEMMA DeleteStep ==
  ASSUME AuthInv, NEW i \in Request, DeleteOtherSessions(i)
  PROVE  AuthInv'
<1> DEFINE newer(s) == IF s.pw > req[i].pw THEN s.pw ELSE req[i].pw
<1>1. /\ Step(i, "delete", "done") /\ UNCHANGED <<user, wrong, redeemed, checked>>
      /\ sessions' = {[s EXCEPT !.pw = newer(s)] : s \in {t \in sessions : t.id = req[i].sid}}
  BY DEF DeleteOtherSessions
<1>2. /\ AuthRows /\ user \in UserRow /\ sessions \subseteq SessionRow /\ req[i] \in ReqRow
      /\ ReqOK(req[i]) /\ SessionsOK /\ user.password \in Nat /\ req[i].pw \in Nat
  BY DEF AuthInv, AuthRows, RequestsOK, UserRow, ReqRow
<1>3. PICK row \in ReqRow :
        /\ req' = [req EXCEPT ![i] = row] /\ req[i].step = "delete" /\ row.step = "done" /\ row.pw = 0
  <2>1. "delete" \in AuthSteps /\ "done" \in AuthSteps
    BY DEF AuthSteps
  <2> QED
    BY <1>1, <1>2, <2>1, StepRow
<1>4. ReqOK(row)
  BY <1>2, <1>3 DEF ReqOK
<1>5. \A s \in sessions : newer(s) \in Nat /\ newer(s) <= user.password
  BY <1>2 DEF SessionRow, SessionsOK, ReqOK
<1>6. \A s \in sessions : s.pw = user.password \/ req[i].pw = user.password => newer(s) = user.password
  BY <1>2 DEF SessionRow, SessionsOK, ReqOK
<1> HIDE DEF newer
<1>7. \A s \in sessions' : \E t \in sessions : s = [t EXCEPT !.pw = newer(t)]
  BY <1>1
<1>8. ASSUME NEW s \in sessions', NEW t \in sessions, s = [t EXCEPT !.pw = newer(t)]
      PROVE  s \in SessionRow /\ s.pw = newer(t) /\ (s.spared <=> t.spared)
  <2>1. s \in SessionRow /\ s.pw = newer(t)
    BY <1>2, <1>5, <1>8 DEF SessionRow
  <2>2. s.spared = t.spared
    BY <1>2, <1>8 DEF SessionRow
  <2> QED
    BY <2>1, <2>2
<1>9. sessions' \subseteq SessionRow
  BY <1>7, <1>8
<1>10. SessionsOK'
  <2>1. \A j \in Request \ {i} : req'[j] = req[j]
    BY <1>2, <1>3, RequestMoves
  <2>2. Deleting /\ req[i].pw # user.password => Deleting'
    BY <1>1, <2>1 DEF Deleting
  <2>3. ASSUME NEW s \in sessions'
        PROVE  s.pw <= user.password /\ (s.pw = user.password \/ s.spared \/ Deleting')
    <3>1. PICK t \in sessions : s = [t EXCEPT !.pw = newer(t)]
      BY <1>7
    <3>2. s.pw = newer(t) /\ (s.spared <=> t.spared)
      BY <1>8, <3>1
    <3>3. t.pw = user.password \/ t.spared \/ Deleting
      BY <1>2 DEF SessionsOK
    <3> QED
      BY <1>5, <1>6, <2>2, <3>2, <3>3
  <2> QED
    BY <1>1, <2>3 DEF SessionsOK
<1>11. CodesOK'
  <2>1. \A n \in Num : Retired(n) => Retired(n)'
    BY <1>2, <1>3, RequestMoves
  <2> QED
    BY <1>1, <2>1, CodesStay
<1>12. GuessOK' /\ FactorOK'
  BY <1>1, <1>3, GuessesStay DEF AuthInv, FactorOK
<1>13. wrong' \in Int /\ redeemed' \in [Num -> Nat] /\ user' \in UserRow
  BY <1>1 DEF AuthInv, AuthRows
<1> QED
  BY <1>1, <1>3, <1>4, <1>9, <1>10, <1>11, <1>12, <1>13, RequestGoesOn

\* A request a password change overtakes is marked, and else as before.
LEMMA OvertakenRow ==
  ASSUME NEW t \in ReqRow, NEW late \in BOOLEAN, NEW r, r = [t EXCEPT !.overlaps = t.overlaps \/ late]
  PROVE  /\ r \in ReqRow /\ r.step = t.step /\ r.pw = t.pw /\ r.code = t.code
         /\ r.overlaps <=> t.overlaps \/ late
<1> DEFINE over == t.overlaps \/ late
<1>1. over \in BOOLEAN
  OBVIOUS
<1>2. r.overlaps <=> over
  BY DEF ReqRow
<1>3. r = [t EXCEPT !.overlaps = over]
  OBVIOUS
<1> HIDE DEF over
<1>4. r \in ReqRow /\ r.step = t.step /\ r.pw = t.pw /\ r.code = t.code
  BY <1>1, <1>3 DEF ReqRow
<1> QED
  BY <1>2, <1>4 DEF over

\* A request writes the account and others are marked as overtaken.
LEMMA OthersOvertaken ==
  ASSUME AuthRows, NEW i \in Request, NEW row \in ReqRow, NEW steps,
         req[i].step \notin {"done", "fail"}, row.step # "fail",
         req' = [j \in Request |-> IF j = i THEN row
                                   ELSE [req[j] EXCEPT !.overlaps = @ \/ req[j].step \in steps]]
  PROVE  /\ req' \in [Request -> ReqRow] /\ req'[i] = row
         /\ \A j \in Request \ {i} :
              /\ req'[j].step = req[j].step /\ req'[j].pw = req[j].pw /\ req'[j].code = req[j].code
              /\ req'[j].overlaps <=> req[j].overlaps \/ req[j].step \in steps
         /\ Fails' = Fails
         /\ \A n \in Num : Retired(n) => Retired(n)'
<1>1. req \in [Request -> ReqRow]
  BY DEF AuthRows
<1>2. ASSUME NEW j \in Request \ {i}
      PROVE  /\ req'[j] \in ReqRow
             /\ req'[j].step = req[j].step /\ req'[j].pw = req[j].pw /\ req'[j].code = req[j].code
             /\ req'[j].overlaps <=> req[j].overlaps \/ req[j].step \in steps
  <2> DEFINE late == req[j].step \in steps
  <2>1. late \in BOOLEAN /\ req[j] \in ReqRow
    BY <1>1
  <2>2. req'[j] = [req[j] EXCEPT !.overlaps = req[j].overlaps \/ late]
    OBVIOUS
  <2> HIDE DEF late
  <2>3. /\ req'[j] \in ReqRow
        /\ req'[j].step = req[j].step /\ req'[j].pw = req[j].pw /\ req'[j].code = req[j].code
        /\ req'[j].overlaps <=> req[j].overlaps \/ late
    BY <2>1, <2>2, OvertakenRow
  <2> QED
    BY <2>3 DEF late
<1>3. req'[i] = row
  OBVIOUS
<1>4. req' \in [Request -> ReqRow]
  <2>1. \A j \in Request : req'[j] \in ReqRow
    BY <1>2, <1>3
  <2>2. req' = [j \in Request |-> req'[j]]
    OBVIOUS
  <2> QED
    BY <2>1, <2>2
<1>5. \A j \in Request \ {i} : req'[j].step = req[j].step
  BY <1>2
<1>6. Fails' = Fails
  BY <1>3, <1>5 DEF Fails
<1>7. \A n \in Num : Retired(n) => Retired(n)'
  BY <1>5 DEF Retired
<1> QED
  BY <1>2, <1>3, <1>4, <1>6, <1>7

\* The password changes, and the requests that read the old one are overtaken.
LEMMA UpdateStep ==
  ASSUME AuthInv, NEW i \in Request, UpdatePassword(i)
  PROVE  AuthInv'
<1> DEFINE row == [req[i] EXCEPT !.step = "delete", !.pw = user.password + 1]
<1>1. /\ req[i].step = "update" /\ user' = [user EXCEPT !.password = user.password + 1]
      /\ req' = [j \in Request |->
                   IF j = i THEN row
                   ELSE [req[j] EXCEPT !.overlaps = @ \/ req[j].step \in {"code", "insert"}]]
      /\ UNCHANGED <<sessions, wrong, redeemed, checked>>
  BY DEF UpdatePassword
<1>2. AuthRows /\ user \in UserRow /\ user.password \in Nat /\ req \in [Request -> ReqRow] /\ req[i] \in ReqRow
  BY DEF AuthInv, AuthRows, UserRow
<1>3. row \in ReqRow
  <2>1. user.password + 1 \in Nat /\ "delete" \in AuthSteps
    BY <1>2 DEF AuthSteps
  <2> QED
    BY <1>2, <2>1 DEF ReqRow
<1>4. row.step = "delete" /\ row.pw = user.password + 1
  BY <1>2 DEF ReqRow
<1> HIDE DEF row
<1>5. /\ req' \in [Request -> ReqRow] /\ req'[i] = row
      /\ \A j \in Request \ {i} :
           /\ req'[j].step = req[j].step /\ req'[j].pw = req[j].pw /\ req'[j].code = req[j].code
           /\ req'[j].overlaps <=> req[j].overlaps \/ req[j].step \in {"code", "insert"}
      /\ Fails' = Fails
      /\ \A n \in Num : Retired(n) => Retired(n)'
  BY <1>1, <1>2, <1>3, <1>4, OthersOvertaken
<1>6. user'.enabled = user.enabled /\ user'.locked = user.locked
  BY <1>1, <1>2 DEF UserRow
<1>7. /\ user' \in UserRow /\ user'.password = user.password + 1 /\ user'.secret = user.secret
      /\ user'.codes = user.codes /\ user'.failed = user.failed
  BY <1>1, <1>2 DEF UserRow
<1>8. AuthRows'
  BY <1>1, <1>5, <1>7 DEF AuthInv, AuthRows
<1>9. RequestsOK'
  <2>1. \A j \in Request : req[j].pw \in Nat /\ ReqOK(req[j])
    BY <1>2 DEF ReqRow, AuthInv, RequestsOK
  <2>2. \A j \in Request \ {i} : ReqOK(req[j])'
    BY <1>2, <1>5, <1>7, <2>1 DEF ReqOK
  <2>3. ReqOK(req[i])'
    BY <1>2, <1>4, <1>5, <1>7 DEF ReqOK
  <2> QED
    BY <2>2, <2>3 DEF RequestsOK
<1>10. SessionsOK'
  <2>1. Deleting'
    BY <1>4, <1>5, <1>7 DEF Deleting
  <2>2. \A s \in sessions : s.pw \in Nat /\ s.pw <= user.password
    BY DEF AuthInv, AuthRows, SessionsOK, SessionRow
  <2>3. \A s \in sessions' : s.pw <= user'.password
    BY <1>1, <1>2, <1>7, <2>2
  <2> QED
    BY <2>1, <2>3 DEF SessionsOK
<1>11. CodesOK'
  BY <1>1, <1>5, <1>7, CodesStay
<1>12. FactorOK' /\ GuessOK'
  BY <1>1, <1>5, <1>6, <1>7 DEF AuthInv, FactorOK, GuessOK
<1> QED
  BY <1>8, <1>9, <1>10, <1>11, <1>12 DEF AuthInv

\* The second factor gets a new secret, or none.
LEMMA SecretStep ==
  ASSUME AuthInv, NEW i \in Request, NEW secret \in Num, NEW codes \in SUBSET user.codes,
         req[i].step \in {"new", "disable"}, SecretChanges(i, secret, codes)
  PROVE  AuthInv'
<1>1. /\ user' = [user EXCEPT !.enabled = FALSE, !.secret = secret, !.codes = codes]
      /\ req' = [j \in Request |->
                   IF j = i THEN Over
                   ELSE [req[j] EXCEPT !.overlaps = @ \/ req[j].step \in {"enable"}]]
      /\ UNCHANGED <<sessions, wrong, redeemed, checked>>
  BY DEF SecretChanges
<1>2. AuthRows /\ user \in UserRow /\ user.password \in Nat /\ req \in [Request -> ReqRow]
  BY DEF AuthInv, AuthRows, UserRow
<1>3. /\ req' \in [Request -> ReqRow] /\ req'[i] = Over
      /\ \A j \in Request \ {i} :
           /\ req'[j].step = req[j].step /\ req'[j].pw = req[j].pw /\ req'[j].code = req[j].code
           /\ req'[j].overlaps <=> req[j].overlaps \/ req[j].step \in {"enable"}
      /\ Fails' = Fails
      /\ \A n \in Num : Retired(n) => Retired(n)'
  BY <1>1, <1>2, OverRow, OthersOvertaken
<1>4. ~user'.enabled
  BY <1>1, <1>2 DEF UserRow
<1>5. user'.locked = user.locked
  BY <1>1, <1>2 DEF UserRow
<1>6. user.codes \subseteq Num
  BY <1>2 DEF UserRow
<1>7. user' \in UserRow
  BY <1>1, <1>2, <1>6 DEF UserRow
<1>8. user'.password = user.password /\ user'.codes = codes /\ user'.failed = user.failed
  BY <1>1, <1>2 DEF UserRow
<1>9. AuthRows'
  BY <1>1, <1>3, <1>7 DEF AuthInv, AuthRows
<1>10. RequestsOK'
  <2>1. \A j \in Request : ReqOK(req[j])
    BY DEF AuthInv, RequestsOK
  <2>2. \A j \in Request \ {i} : ReqOK(req[j])'
    BY <1>3, <1>8, <2>1 DEF ReqOK
  <2>3. ReqOK(req[i])'
    BY <1>2, <1>3, <1>8, OverRow DEF ReqOK
  <2> QED
    BY <2>2, <2>3 DEF RequestsOK
<1>11. SessionsOK'
  <2>1. Deleting => Deleting'
    BY <1>3, <1>8 DEF Deleting
  <2> QED
    BY <1>1, <1>8, <2>1 DEF AuthInv, SessionsOK
<1>12. CodesOK'
  BY <1>1, <1>3, <1>8, CodesStay
<1>13. FactorOK' /\ GuessOK'
  BY <1>1, <1>3, <1>4, <1>5, <1>8 DEF AuthInv, FactorOK, GuessOK
<1> QED
  BY <1>9, <1>10, <1>11, <1>12, <1>13 DEF AuthInv

\* The second factor is enabled with the secret that was confirmed.
LEMMA EnableStep ==
  ASSUME AuthInv, NEW i \in Request, EnableTOTP(i)
  PROVE  AuthInv'
<1>1. /\ Step(i, "enable", "done") /\ user' = [user EXCEPT !.enabled = TRUE, !.codes = {i + 1}]
      /\ checked' = [secret |-> req[i].code, raced |-> req[i].overlaps]
      /\ UNCHANGED <<sessions, wrong, redeemed>>
  BY DEF EnableTOTP
<1>2. AuthRows /\ user \in UserRow /\ user.password \in Nat /\ ReqOK(req[i])
  BY DEF AuthInv, AuthRows, UserRow, RequestsOK
<1>3. PICK row \in ReqRow :
        /\ req' = [req EXCEPT ![i] = row] /\ req[i].step = "enable" /\ row.step = "done" /\ row.pw = 0
  <2>1. "enable" \in AuthSteps /\ "done" \in AuthSteps
    BY DEF AuthSteps
  <2> QED
    BY <1>1, <1>2, <2>1, StepRow
<1>4. ReqOK(row)
  BY <1>2, <1>3 DEF ReqOK
<1>5. i + 1 \in Num /\ i \in 1..MaxRequests /\ i # 0
  BY AuthAssumption DEF Request, Num
<1>6. user'.locked = user.locked
  BY <1>1, <1>2 DEF UserRow
<1>7. user' \in UserRow
  BY <1>1, <1>2, <1>5 DEF UserRow
<1>8. /\ user'.password = user.password /\ user'.codes = {i + 1} /\ user'.failed = user.failed
      /\ user'.secret = user.secret
  BY <1>1, <1>2 DEF UserRow
<1>9. CodesOK'
  <2>1. (i + 1) - 1 = i /\ i + 1 # 1
    BY <1>5
  <2>2. ~Retired(i + 1)
    BY <1>3, <2>1 DEF Retired
  <2>3. /\ \A n \in Num : Retired(n) => Retired(n)'
        /\ req'[i] = row
    BY <1>2, <1>3, RequestMoves
  <2>4. Retired(i + 1)'
    BY <1>3, <2>1, <2>3 DEF Retired
  <2> QED
    BY <1>1, <1>5, <1>8, <2>2, <2>3, <2>4 DEF AuthInv, CodesOK
<1>10. FactorOK'
  <2>1. checked'.secret = req[i].code
    BY <1>1
  <2>2. checked'.raced = req[i].overlaps
    BY <1>1
  <2> QED
    BY <1>2, <1>3, <1>8, <2>1, <2>2 DEF ReqOK, FactorOK
<1>11. SessionsOK'
  BY <1>1, <1>3, <1>8, SessionsStay
<1>12. GuessOK'
  BY <1>1, <1>3, <1>6, <1>8, GuessesStay
<1>13. wrong' \in Int /\ redeemed' \in [Num -> Nat] /\ sessions' \subseteq SessionRow
  BY <1>1 DEF AuthInv, AuthRows
<1> QED
  BY <1>3, <1>4, <1>7, <1>8, <1>9, <1>10, <1>11, <1>12, <1>13, RequestGoesOn

\* A request is cut off: a change of the password leaves the sessions marked, a
\* failed login its guess uncounted.
LEMMA CutOffStep ==
  ASSUME AuthInv, NEW i \in Request, CutOff(i)
  PROVE  AuthInv'
<1> DEFINE mark(s) == [s EXCEPT !.spared = TRUE]
<1>1. /\ req[i].step \notin {"new", "done"} /\ req' = [req EXCEPT ![i] = Over]
      /\ sessions' = (IF req[i].step = "delete" THEN {mark(s) : s \in sessions} ELSE sessions)
      /\ wrong' = (IF req[i].step = "fail" THEN wrong - 1 ELSE wrong)
      /\ UNCHANGED <<user, redeemed, checked>>
  BY DEF CutOff
<1>2. /\ AuthRows /\ sessions \subseteq SessionRow /\ SessionsOK /\ GuessOK
      /\ wrong \in Int /\ user \in UserRow /\ user.password \in Nat /\ user.failed \in Nat
  BY DEF AuthInv, AuthRows, UserRow
<1>3. Over \in ReqRow /\ Over.step = "done" /\ ReqOK(Over)
  BY <1>2, OverRow DEF ReqOK
<1>4. ASSUME NEW s \in SessionRow
      PROVE  mark(s) \in SessionRow /\ mark(s).pw = s.pw /\ mark(s).spared
  BY <1>4 DEF SessionRow
<1> HIDE DEF mark
<1>5. sessions' \subseteq SessionRow
  BY <1>1, <1>2, <1>4
<1>6. SessionsOK'
  <2>1. CASE req[i].step = "delete"
    BY <1>1, <1>2, <1>4, <2>1 DEF SessionsOK
  <2>2. CASE req[i].step # "delete"
    BY <1>1, <1>3, <2>2, SessionsStay
  <2> QED
    BY <2>1, <2>2
<1>7. CodesOK'
  BY <1>1, <1>2, <1>3, RequestMoves, CodesStay
<1>8. FactorOK'
  BY <1>1 DEF AuthInv, FactorOK
<1>9. GuessOK'
  <2>1. CASE req[i].step = "fail"
    <3>1. i \in Fails /\ Fails' = Fails \ {i}
      BY <1>1, <1>2, <1>3, <2>1, RequestMoves DEF Fails
    <3>2. Cardinality(Fails) \in Nat /\ Cardinality(Fails') = Cardinality(Fails) - 1
      BY <1>2, <3>1, FailsCounted
    <3>3. wrong' - Cardinality(Fails') = wrong - Cardinality(Fails)
      BY <1>1, <1>2, <2>1, <3>2
    <3> QED
      BY <1>1, <1>2, <3>3 DEF GuessOK
  <2>2. CASE req[i].step # "fail"
    BY <1>1, <1>3, <2>2, GuessesStay
  <2> QED
    BY <2>1, <2>2
<1>10. wrong' \in Int /\ redeemed' \in [Num -> Nat] /\ user' \in UserRow
  BY <1>1, <1>2 DEF AuthRows
<1> QED
  BY <1>1, <1>3, <1>5, <1>6, <1>7, <1>8, <1>9, <1>10, RequestGoesOn

\* A user, no session, nothing in progress.
LEMMA AuthStart ==
  ASSUME AuthInit
  PROVE  AuthInv
<1>1. PICK on \in BOOLEAN :
        user = [password |-> 1, failed |-> 0, locked |-> FALSE, secret |-> IF on THEN 1 ELSE 0,
                enabled |-> on, codes |-> IF on THEN {1} ELSE {}]
  BY DEF AuthInit
<1> DEFINE secret == IF on THEN 1 ELSE 0
           codes == IF on THEN {1} ELSE {}
<1>2. secret \in Num /\ codes \subseteq {1} /\ codes \in SUBSET Num /\ (on => secret = 1)
  BY AuthAssumption DEF Num
<1>3. user = [password |-> 1, failed |-> 0, locked |-> FALSE, secret |-> secret, enabled |-> on,
              codes |-> codes]
  BY <1>1
<1> HIDE DEF secret, codes
<1>4. user \in UserRow
  BY <1>2, <1>3 DEF UserRow
<1>5. user.password = 1 /\ user.failed = 0 /\ user.secret = secret /\ user.codes = codes
  BY <1>3
<1>6. user.enabled <=> on
  BY <1>3
<1>7. NewRequest \in ReqRow /\ NewRequest.step = "new" /\ NewRequest.pw = 0
  BY OverRow DEF NewRequest, Over, ReqRow, AuthSteps
<1>8. req \in [Request -> ReqRow] /\ \A i \in Request : req[i] = NewRequest
  BY <1>7 DEF AuthInit
<1>9. AuthRows
  BY <1>4, <1>8 DEF AuthInit, AuthRows, SessionRow
<1>10. RequestsOK
  BY <1>5, <1>7, <1>8 DEF RequestsOK, ReqOK
<1>11. SessionsOK
  BY <1>5 DEF AuthInit, SessionsOK
<1>12. CodesOK
  BY <1>2, <1>5 DEF AuthInit, CodesOK, Retired
<1>13. FactorOK
  BY <1>2, <1>5, <1>6 DEF AuthInit, FactorOK
<1>14. GuessOK
  <2>1. Fails = {}
    BY <1>7, <1>8 DEF Fails
  <2>2. Cardinality(Fails) = 0
    BY <2>1, FS_EmptySet
  <2> QED
    BY <1>5, <2>2, AuthAssumption DEF AuthInit, GuessOK
<1> QED
  BY <1>9, <1>10, <1>11, <1>12, <1>13, <1>14 DEF AuthInv

\* Every step keeps AuthInv.
LEMMA AuthStep ==
  ASSUME AuthInv, [AuthNext]_authVars
  PROVE  AuthInv'
<1>0. \A s \in sessions : s.id \in Nat
  BY DEF AuthInv, AuthRows, SessionRow
<1>1. CASE \E i \in Request, pw \in 0..user.password, totp \in BOOLEAN, code \in 0..2 :
             Login(i, pw, totp, code)
  BY <1>1, LoginStep
<1>2. ASSUME NEW i \in Request,
             \/ Consume(i) \/ RegisterFailedLogin(i) \/ InsertSession(i) \/ ResetFailures(i)
             \/ UpdatePassword(i) \/ DeleteOtherSessions(i) \/ EnableTOTP(i) \/ CutOff(i)
      PROVE  AuthInv'
  BY <1>2, ConsumeStep, RegisterStep, InsertSessionStep, ResetStep, UpdateStep, DeleteStep,
     EnableStep, CutOffStep
<1>3. ASSUME NEW i \in Request, DisableTOTP(i)
      PROVE  AuthInv'
  <2>1. 0 \in Num
    BY AuthAssumption DEF Num
  <2> QED
    BY <1>3, <2>1, SecretStep DEF DisableTOTP
<1>4. ASSUME NEW i \in Request, NEW s \in sessions,
             \/ ChangePassword(i, s.id) \/ CheckTOTP(i, s.id) \/ ConfirmPassword(i, s.id)
             \/ \E t \in sessions : DropSession(i, s.id, t.id)
      PROVE  AuthInv'
  BY <1>0, <1>4, AuthenticatedStep DEF ChangePassword, CheckTOTP, ConfirmPassword, DropSession
<1>5. ASSUME NEW i \in Request, NEW s \in sessions, SetupTOTP(i, s.id)
      PROVE  AuthInv'
  <2>1. i + 1 \in Num
    BY AuthAssumption DEF Num, Request
  <2>2. SecretChanges(i, i + 1, user.codes) /\ req[i].step = "new"
    BY <1>5 DEF SetupTOTP, Comes
  <2> QED
    BY <2>1, <2>2, SecretStep
<1>6. CASE (\E s \in sessions : ExpireSession(s)) \/ UNCHANGED authVars
  <2>1. UNCHANGED <<user, req, wrong, redeemed, checked>> /\ sessions' \subseteq sessions
    BY <1>6 DEF ExpireSession, authVars
  <2>2. AuthRows' /\ RequestsOK'
    BY <2>1 DEF AuthInv, AuthRows, RequestsOK, ReqOK
  <2>3. SessionsOK'
    BY <2>1 DEF AuthInv, SessionsOK, Deleting
  <2>4. CodesOK' /\ FactorOK'
    BY <2>1 DEF AuthInv, CodesOK, Retired, FactorOK
  <2>5. GuessOK'
    BY <2>1 DEF AuthInv, GuessOK, Fails
  <2> QED
    BY <2>2, <2>3, <2>4, <2>5 DEF AuthInv
<1>7. CASE LockEnds
  BY <1>7, LockStep
<1> QED
  BY <1>1, <1>2, <1>3, <1>4, <1>5, <1>6, <1>7 DEF AuthNext

\* Sessions, recovery codes and failures are those of the current password and
\* secret, or of a request that read the old ones and is still in progress.
THEOREM AuthInvariant == AuthSpec => []AuthInv
<1>1. AuthInit => AuthInv
  BY AuthStart
<1>2. AuthInv /\ [AuthNext]_authVars => AuthInv'
  BY AuthStep
<1> QED
  BY <1>1, <1>2, PTL DEF AuthSpec

\* After a password change no session is left that has not shown the current
\* password, except those of logins the change overtook and those a change that
\* was cut off has left.
THEOREM OldPasswordIsOut == AuthSpec => []OldPasswordOut
<1>1. AuthInv => OldPasswordOut
  BY DEF AuthInv, SessionsOK, Deleting, OldPasswordOut
<1> QED
  BY <1>1, AuthInvariant, PTL

\* A recovery code lets in one login, and the second factor in force is one its
\* owner has shown a code for, unless a setup or a removal overtook the check.
THEOREM SecondFactorIsSound == AuthSpec => []SecondFactorSound
<1>1. AuthInv => SecondFactorSound
  BY DEF AuthInv, CodesOK, FactorOK, SecondFactorSound
<1> QED
  BY <1>1, AuthInvariant, PTL

\* However many logins fail at once, MaxFailures of them that are not cut off lock
\* the account.
THEOREM GuessesAreBounded == AuthSpec => []GuessesBounded
<1>1. AuthInv => GuessesBounded
  BY DEF AuthInv, GuessOK, GuessesBounded, Fails
<1> QED
  BY <1>1, AuthInvariant, PTL
-----------------------------------------------------------------------------
\* The service wizard.

CallRow == [step : {"idle", "sources", "build", "check", "service", "undo"},
            id : 0..MaxSets, name : Name \cup {""}, slug : Slugged \cup {""}, open : BOOLEAN]

\* A call that is idle has no rule set; one that was cut off, and a rule set with
\* a service on it, are excused.
CallsOK ==
  \A c \in Call : /\ wizard[c].step = "idle" => wizard[c].id = 0
                  /\ ~wizard[c].open => wizard[c].id \in excused
OffersExcused == \A x \in offered : x.on \in excused
CallsWithSet == \A c \in Call : wizard[c].step # "idle" => wizard[c].id \in SetId
\* A wizard in progress was asked for a name and a slug.
WizardAsked ==
  \A c \in Call : wizard[c].step # "idle" => wizard[c].name \in Name /\ wizard[c].slug \in Slugged
WizardInv == WizardTypeOK /\ CallsOK /\ WizardAsked /\ CallsWithSet /\ OffersExcused /\ WizardRetries

\* The row of a call that is not in progress.
LEMMA NoCallRow == NoCall \in CallRow /\ NoCall.step = "idle" /\ NoCall.id = 0 /\ NoCall.open
<1>1. 0 \in 0..MaxSets
  BY WizardAssumption
<1> QED
  BY <1>1 DEF NoCall, CallRow

\* What a step must see to in which one wizard goes on.
LEMMA WizardGoesOn ==
  ASSUME WizardInv, NEW c \in Call, NEW row \in CallRow, wizard' = [wizard EXCEPT ![c] = row],
         row.step = "idle" => row.id = 0,
         row.step # "idle" => row.name \in Name /\ row.slug \in Slugged /\ row.id \in SetId, ~row.open => row.id \in excused',
         excused \subseteq excused', excused' \subseteq SetId,
         offered' \subseteq [name : Name, slug : Slugged, on : SetId],
         \A x \in offered' : x.on \in Ids' /\ x.on \in excused',
         sets' \subseteq [id : SetId, name : Name],
         \A id \in Ids' \ excused' : id = row.id \/ (id \in Ids /\ id # wizard[c].id),
         lastId' \in 0..MaxSets, extra' \in 0..MaxExtra, aborts' \in 0..MaxAborts
  PROVE  WizardInv'
<1>1. wizard \in [Call -> CallRow]
  BY DEF WizardInv, WizardTypeOK, CallRow
<1>2. /\ wizard' \in [Call -> CallRow] /\ wizard'[c] = row
      /\ \A d \in Call \ {c} : wizard'[d] = wizard[d]
  BY <1>1
<1>3. WizardTypeOK'
  BY <1>2 DEF WizardInv, WizardTypeOK, CallRow
<1>4. CallsOK' /\ WizardAsked' /\ CallsWithSet'
  BY <1>2 DEF WizardInv, CallsOK, WizardAsked, CallsWithSet
<1>5. OffersExcused'
  BY DEF OffersExcused
<1>6. \A id \in Ids' \ excused' : \E d \in Call : wizard'[d].id = id
  BY <1>2 DEF WizardInv, WizardRetries
<1> QED
  BY <1>3, <1>4, <1>5, <1>6 DEF WizardInv, WizardRetries

\* The types of the wizard.
LEMMA WizardFacts ==
  ASSUME WizardInv, NEW c \in Call
  PROVE  /\ wizard \in [Call -> CallRow] /\ wizard[c] \in CallRow /\ Ids \subseteq SetId /\ 0 \notin Ids
         /\ sets \subseteq [id : SetId, name : Name] /\ offered \subseteq [name : Name, slug : Slugged, on : SetId]
         /\ lastId \in 0..MaxSets /\ extra \in 0..MaxExtra /\ aborts \in 0..MaxAborts /\ excused \subseteq SetId
         /\ \A x \in offered : x.on \in Ids /\ x.on \in excused
         /\ wizard[c].step = "idle" => wizard[c].id = 0
         /\ ~wizard[c].open => wizard[c].id \in excused
<1>1. /\ wizard \in [Call -> CallRow] /\ wizard[c] \in CallRow
      /\ sets \subseteq [id : SetId, name : Name] /\ offered \subseteq [name : Name, slug : Slugged, on : SetId]
      /\ lastId \in 0..MaxSets /\ extra \in 0..MaxExtra /\ aborts \in 0..MaxAborts /\ excused \subseteq SetId
  BY DEF WizardInv, WizardTypeOK, CallRow
<1>2. Ids \subseteq SetId /\ 0 \notin SetId
  BY <1>1 DEF Ids, SetId
<1>3. \A x \in offered : x.on \in Ids /\ x.on \in excused
  BY DEF WizardInv, WizardRetries, OffersExcused
<1>4. (wizard[c].step = "idle" => wizard[c].id = 0) /\ (~wizard[c].open => wizard[c].id \in excused)
  BY DEF WizardInv, CallsOK
<1> QED
  BY <1>1, <1>2, <1>3, <1>4

\* A wizard goes from one step to another and nothing else changes.
LEMMA ToStep ==
  ASSUME WizardInv, NEW c \in Call, NEW step \in {"build", "check", "service", "undo"}, To(c, step),
         ~At(c, "idle"), UNCHANGED <<sets, offered, lastId, extra, aborts, excused>>
  PROVE  WizardInv'
<1> DEFINE row == [wizard[c] EXCEPT !.step = step]
<1>1. wizard[c] \in CallRow /\ wizard \in [Call -> CallRow]
  BY WizardFacts
<1>2. wizard' = [wizard EXCEPT ![c] = row]
  BY <1>1 DEF To
<1>3. row \in CallRow
  BY <1>1 DEF CallRow
<1>4. /\ row.step = step /\ row.id = wizard[c].id
      /\ row.name = wizard[c].name /\ row.slug = wizard[c].slug
  BY <1>1 DEF CallRow
<1>5. row.open = wizard[c].open
  BY <1>1 DEF CallRow
<1> HIDE DEF row
<1>6. Ids' = Ids
  BY DEF Ids
<1>7. /\ ~row.open => row.id \in excused'
      /\ \A x \in offered' : x.on \in Ids' /\ x.on \in excused'
  BY <1>4, <1>5, <1>6, WizardFacts
<1>8. \A id \in Ids' \ excused' : id = row.id \/ (id \in Ids /\ id # wizard[c].id)
  BY <1>4, <1>6
<1>9. /\ sets' \subseteq [id : SetId, name : Name] /\ offered' \subseteq [name : Name, slug : Slugged, on : SetId]
      /\ lastId' \in 0..MaxSets /\ extra' \in 0..MaxExtra /\ aborts' \in 0..MaxAborts /\ excused' \subseteq SetId
  BY WizardFacts
<1> QED
  BY <1>2, <1>3, <1>4, <1>7, <1>8, <1>9, WizardGoesOn DEF WizardInv, WizardAsked, CallsWithSet, At

\* The rule set is inserted, new and owned by the call ...
LEMMA InsertSetStep ==
  ASSUME WizardInv, NEW c \in Call, NEW name \in Name, NEW slug \in Slugged, InsertSet(c, name, slug)
  PROVE  WizardInv'
<1> DEFINE row == [step |-> "sources", id |-> lastId + 1, name |-> name, slug |-> slug, open |-> TRUE]
<1>1. /\ wizard[c].step = "idle" /\ lastId < MaxSets /\ lastId' = lastId + 1
      /\ sets' = sets \cup {[id |-> lastId + 1, name |-> name]}
      /\ wizard' = [wizard EXCEPT ![c] = row] /\ UNCHANGED <<offered, extra, aborts, excused>>
  BY DEF InsertSet, At
<1>2. /\ Ids \subseteq SetId /\ 0 \notin Ids /\ wizard[c].id = 0
      /\ sets \subseteq [id : SetId, name : Name]
      /\ offered' \subseteq [name : Name, slug : Slugged, on : SetId]
      /\ extra' \in 0..MaxExtra /\ aborts' \in 0..MaxAborts /\ excused' \subseteq SetId
      /\ \A x \in offered' : x.on \in Ids /\ x.on \in excused'
  BY <1>1, WizardFacts
<1>3. lastId + 1 \in SetId /\ lastId + 1 \in 0..MaxSets
  <2>1. lastId \in 0..MaxSets
    BY WizardFacts
  <2> QED
    BY <1>1, <2>1, WizardAssumption DEF SetId
<1>4. row \in CallRow
  BY <1>3 DEF CallRow
<1>5. row.step = "sources" /\ row.id = lastId + 1 /\ row.name = name /\ row.slug = slug
  OBVIOUS
<1>6. row.open
  OBVIOUS
<1> HIDE DEF row
<1>7. Ids' = Ids \cup {lastId + 1}
  <2> DEFINE new == [id |-> lastId + 1, name |-> name]
  <2>1. sets' = sets \cup {new} /\ new.id = lastId + 1
    BY <1>1
  <2> HIDE DEF new
  <2> QED
    BY <2>1 DEF Ids
<1>8. sets' \subseteq [id : SetId, name : Name]
  BY <1>1, <1>2, <1>3
<1>9. \A id \in Ids' \ excused' : id = row.id \/ (id \in Ids /\ id # wizard[c].id)
  BY <1>2, <1>5, <1>7
<1>10. \A x \in offered' : x.on \in Ids' /\ x.on \in excused'
  BY <1>2, <1>7
<1>11. excused \subseteq excused' /\ lastId' \in 0..MaxSets
  BY <1>1, <1>3
<1> QED
  BY <1>1, <1>2, <1>3, <1>4, <1>5, <1>6, <1>8, <1>9, <1>10, <1>11, WizardGoesOn

\* ... then the service that refers to it ...
LEMMA InsertServiceStep ==
  ASSUME WizardInv, NEW c \in Call, InsertService(c)
  PROVE  WizardInv'
<1>1. CASE To(c, "undo") /\ UNCHANGED <<offered, excused>>
  BY <1>1, ToStep DEF InsertService, At
<1>2. CASE ~(To(c, "undo") /\ UNCHANGED <<offered, excused>>)
  <2> DEFINE w == wizard[c]
             x == [name |-> w.name, slug |-> w.slug, on |-> w.id]
  <2>1. /\ w.step = "service" /\ w.id \in Ids
        /\ offered' = offered \cup {x} /\ excused' = excused \cup {w.id}
        /\ wizard' = [wizard EXCEPT ![c] = NoCall]
        /\ UNCHANGED <<sets, lastId, extra, aborts>>
        /\ w.name \notin Names(offered) /\ w.slug \notin {y.slug : y \in offered}
    BY <1>2 DEF InsertService, At, Works
  <2>2. /\ w \in CallRow /\ Ids \subseteq SetId
        /\ offered \subseteq [name : Name, slug : Slugged, on : SetId] /\ excused \subseteq SetId
        /\ \A y \in offered : y.on \in Ids /\ y.on \in excused
        /\ sets \subseteq [id : SetId, name : Name]
        /\ lastId \in 0..MaxSets /\ extra \in 0..MaxExtra /\ aborts \in 0..MaxAborts
    BY WizardFacts
  <2>3. w.name \in Name /\ w.slug \in Slugged
    BY <2>1 DEF WizardInv, WizardAsked
  <2>4. x.on = w.id /\ x \in [name : Name, slug : Slugged, on : SetId]
    BY <2>1, <2>2, <2>3
  <2> HIDE DEF x
  <2>5. Ids' = Ids
    BY <2>1 DEF Ids
  <2>6. \A y \in offered' : y.on \in Ids' /\ y.on \in excused'
    BY <2>1, <2>2, <2>4, <2>5
  <2>7. \A id \in Ids' \ excused' : id = NoCall.id \/ (id \in Ids /\ id # wizard[c].id)
    BY <2>1, <2>5
  <2>8. /\ offered' \subseteq [name : Name, slug : Slugged, on : SetId] /\ excused' \subseteq SetId
        /\ excused \subseteq excused' /\ sets' \subseteq [id : SetId, name : Name]
        /\ lastId' \in 0..MaxSets /\ extra' \in 0..MaxExtra /\ aborts' \in 0..MaxAborts
    BY <2>1, <2>2, <2>4
  <2> QED
    BY <2>1, <2>6, <2>7, <2>8, NoCallRow, WizardGoesOn
<1> QED
  BY <1>1, <1>2

\* A DELETE leaves every rule set a service is on, and all others.
LEMMA DeletedSets ==
  ASSUME WizardInv, NEW id, sets' = Without(id), UNCHANGED <<offered, excused>>
  PROVE  /\ Ids' \subseteq Ids /\ sets' \subseteq sets
         /\ id \in Ids' => id \in excused
         /\ \A x \in offered : x.on \in Ids'
<1>1. \A x \in offered : x.on \in Ids /\ x.on \in excused
  BY DEF WizardInv, WizardRetries, OffersExcused
<1>2. CASE id \in {x.on : x \in offered}
  BY <1>1, <1>2 DEF Without, Ids
<1>3. CASE id \notin {x.on : x \in offered}
  <2>1. sets' = {s \in sets : s.id # id}
    BY <1>3 DEF Without
  <2>2. Ids' = Ids \ {id}
    BY <2>1 DEF Ids
  <2> QED
    BY <1>1, <1>3, <2>1, <2>2
<1> QED
  BY <1>2, <1>3

\* ... or the rule set is deleted again, if the request is still there.
LEMMA UndoStep ==
  ASSUME WizardInv, NEW c \in Call, Undo(c)
  PROVE  WizardInv'
<1>1. /\ sets' = (IF wizard[c].open THEN Without(wizard[c].id) ELSE sets)
      /\ wizard' = [wizard EXCEPT ![c] = NoCall]
      /\ UNCHANGED <<offered, lastId, extra, aborts, excused>>
  BY DEF Undo
<1>2. /\ Ids' \subseteq Ids /\ sets' \subseteq sets
      /\ wizard[c].id \in Ids' => wizard[c].id \in excused
      /\ \A x \in offered : x.on \in Ids'
  <2>1. CASE wizard[c].open
    BY <1>1, <2>1, DeletedSets
  <2>2. CASE ~wizard[c].open
    BY <1>1, <2>2, WizardFacts DEF Ids
  <2> QED
    BY <2>1, <2>2
<1>3. /\ sets' \subseteq [id : SetId, name : Name] /\ offered' \subseteq [name : Name, slug : Slugged, on : SetId]
      /\ lastId' \in 0..MaxSets /\ extra' \in 0..MaxExtra /\ aborts' \in 0..MaxAborts /\ excused' \subseteq SetId
      /\ excused \subseteq excused' /\ \A x \in offered' : x.on \in Ids' /\ x.on \in excused'
  BY <1>1, <1>2, WizardFacts
<1>4. \A id \in Ids' \ excused' : id = NoCall.id \/ (id \in Ids /\ id # wizard[c].id)
  BY <1>1, <1>2
<1> QED
  BY <1>1, <1>3, <1>4, NoCallRow, WizardGoesOn

\* The client goes away.
LEMMA CancelStep ==
  ASSUME WizardInv, NEW c \in Call, Cancel(c)
  PROVE  WizardInv'
<1> DEFINE row == [wizard[c] EXCEPT !.open = FALSE]
<1>1. wizard[c] \in CallRow /\ wizard \in [Call -> CallRow]
  BY WizardFacts
<1>2. /\ wizard' = [wizard EXCEPT ![c] = row] /\ excused' = excused \cup {wizard[c].id}
      /\ UNCHANGED <<sets, offered, lastId, extra>> /\ aborts < MaxAborts /\ aborts' = aborts + 1
      /\ wizard[c].step # "idle"
  BY <1>1 DEF Cancel, At
<1>3. row \in CallRow
  BY <1>1 DEF CallRow
<1>4. /\ row.step = wizard[c].step /\ row.id = wizard[c].id
      /\ row.name = wizard[c].name /\ row.slug = wizard[c].slug
  BY <1>1 DEF CallRow
<1> HIDE DEF row
<1>5. wizard[c].id \in SetId
  BY <1>2 DEF WizardInv, CallsWithSet
<1>6. Ids' = Ids
  BY <1>2 DEF Ids
<1>7. /\ sets' \subseteq [id : SetId, name : Name] /\ offered' \subseteq [name : Name, slug : Slugged, on : SetId]
      /\ lastId' \in 0..MaxSets /\ extra' \in 0..MaxExtra /\ excused' \subseteq SetId
      /\ \A x \in offered' : x.on \in Ids' /\ x.on \in excused'
  BY <1>2, <1>5, <1>6, WizardFacts
<1>8. aborts' \in 0..MaxAborts
  <2>1. aborts \in 0..MaxAborts
    BY WizardFacts
  <2> QED
    BY <1>2, <2>1, WizardAssumption
<1>9. \A id \in Ids' \ excused' : id = row.id \/ (id \in Ids /\ id # wizard[c].id)
  BY <1>4, <1>6
<1>10. row.id \in excused' /\ excused \subseteq excused'
  BY <1>2, <1>4
<1>11. row.step # "idle" /\ row.name \in Name /\ row.slug \in Slugged
  BY <1>2, <1>4 DEF WizardInv, WizardAsked
<1> QED
  BY <1>2, <1>3, <1>7, <1>8, <1>9, <1>10, <1>11, <1>4, <1>5, WizardGoesOn

\* The panel dies in the middle.
LEMMA DieStep ==
  ASSUME WizardInv, WizardsDie
  PROVE  WizardInv'
<1>1. /\ aborts < MaxAborts /\ aborts' = aborts + 1 /\ wizard' = [c \in Call |-> NoCall]
      /\ excused' = excused \cup {wizard[c].id : c \in {d \in Call : wizard[d].step # "idle"}}
      /\ UNCHANGED <<sets, offered, lastId, extra>>
  BY DEF WizardsDie, At
<1>2. wizard' \in [Call -> CallRow] /\ \A c \in Call : wizard'[c] = NoCall
  BY <1>1, NoCallRow
<1>3. excused' \subseteq SetId
  BY <1>1 DEF WizardInv, WizardTypeOK, CallsWithSet
<1>4. aborts' \in 0..MaxAborts
  <2>1. aborts \in 0..MaxAborts
    BY DEF WizardInv, WizardTypeOK
  <2> QED
    BY <1>1, <2>1, WizardAssumption
<1>5. WizardTypeOK'
  BY <1>1, <1>2, <1>3, <1>4 DEF WizardInv, WizardTypeOK, CallRow
<1>6. CallsOK' /\ WizardAsked' /\ CallsWithSet'
  BY <1>2, NoCallRow DEF CallsOK, WizardAsked, CallsWithSet
<1>7. OffersExcused'
  BY <1>1 DEF WizardInv, OffersExcused
<1>8. Ids' = Ids
  BY <1>1 DEF Ids
<1>9. \A id \in Ids : id \in excused'
  <2>1. \A id \in Ids \ excused : \E c \in Call : wizard[c].id = id
    BY DEF WizardInv, WizardRetries
  <2>2. 0 \notin Ids
    <3>1. sets \subseteq [id : SetId, name : Name]
      BY DEF WizardInv, WizardTypeOK
    <3>2. 0 \notin SetId
      BY DEF SetId
    <3> QED
      BY <3>1, <3>2 DEF Ids
  <2>3. \A c \in Call : wizard[c].step = "idle" => wizard[c].id = 0
    BY DEF WizardInv, CallsOK
  <2> QED
    BY <1>1, <2>1, <2>2, <2>3
<1>10. WizardRetries'
  BY <1>1, <1>8, <1>9 DEF WizardInv, WizardRetries
<1> QED
  BY <1>5, <1>6, <1>7, <1>10 DEF WizardInv

\* What operators do by hand leaves the wizards alone.
LEMMA ByHandStep ==
  ASSUME WizardInv,
         \/ \E id \in SetId : DropSet(id)
         \/ \E id \in SetId, n \in Name, s \in Slugged : OfferByHand(n, s, id)
         \/ \E x \in offered : Withdraw(x)
  PROVE  WizardInv'
<1>1. /\ wizard \in [Call -> CallRow] /\ WizardAsked /\ CallsWithSet
      /\ sets \subseteq [id : SetId, name : Name] /\ offered \subseteq [name : Name, slug : Slugged, on : SetId]
      /\ lastId \in 0..MaxSets /\ extra \in 0..MaxExtra /\ aborts \in 0..MaxAborts /\ excused \subseteq SetId
      /\ \A x \in offered : x.on \in Ids /\ x.on \in excused
      /\ \A id \in Ids \ excused : \E c \in Call : wizard[c].id = id
  BY DEF WizardInv, WizardTypeOK, CallRow, WizardRetries, OffersExcused
<1>2. UNCHANGED <<wizard, lastId, aborts>> /\ excused \subseteq excused'
  BY DEF DropSet, OfferByHand, Withdraw
<1>3. extra' \in 0..MaxExtra
  <2>1. extra' = extra \/ (extra < MaxExtra /\ extra' = extra + 1)
    BY DEF DropSet, OfferByHand, Withdraw
  <2> QED
    BY <1>1, <2>1, WizardAssumption
<1>4. /\ sets' \subseteq sets /\ Ids' \subseteq Ids /\ excused' \subseteq SetId
      /\ offered' \subseteq [name : Name, slug : Slugged, on : SetId]
      /\ \A x \in offered' : x.on \in Ids' /\ x.on \in excused'
  <2>1. CASE \E id \in SetId : DropSet(id)
    <3>1. PICK id \in SetId : DropSet(id)
      BY <2>1
    <3>2. sets' = Without(id) /\ UNCHANGED <<offered, excused>>
      BY <3>1 DEF DropSet
    <3> QED
      BY <1>1, <3>2, DeletedSets
  <2>2. CASE \E id \in SetId, n \in Name, s \in Slugged : OfferByHand(n, s, id)
    <3>1. PICK id \in SetId, n \in Name, s \in Slugged : OfferByHand(n, s, id)
      BY <2>2
    <3> DEFINE x == [name |-> n, slug |-> s, on |-> id]
    <3>2. /\ offered' = offered \cup {x} /\ excused' = excused \cup {id} /\ id \in Ids /\ sets' = sets
      BY <3>1 DEF OfferByHand
    <3>3. x.on = id /\ x \in [name : Name, slug : Slugged, on : SetId]
      OBVIOUS
    <3> HIDE DEF x
    <3>4. Ids' = Ids
      BY <3>2 DEF Ids
    <3> QED
      BY <1>1, <3>2, <3>3, <3>4
  <2>3. CASE \E x \in offered : Withdraw(x)
    <3>1. sets' = sets /\ excused' = excused /\ offered' \subseteq offered
      BY <2>3 DEF Withdraw
    <3>2. Ids' = Ids
      BY <3>1 DEF Ids
    <3> QED
      BY <1>1, <3>1, <3>2
  <2> QED
    BY <2>1, <2>2, <2>3
<1>5. WizardTypeOK'
  BY <1>1, <1>2, <1>3, <1>4 DEF WizardTypeOK, CallRow
<1>6. CallsOK' /\ WizardAsked' /\ CallsWithSet'
  BY <1>1, <1>2 DEF WizardInv, CallsOK, WizardAsked, CallsWithSet
<1>7. OffersExcused'
  BY <1>4 DEF OffersExcused
<1>8. WizardRetries'
  BY <1>1, <1>2, <1>4 DEF WizardRetries
<1> QED
  BY <1>5, <1>6, <1>7, <1>8 DEF WizardInv

\* A rule set without a service belongs to a call in progress, or to one that
\* lost its client or its process.
THEOREM WizardInvariant == WizardSpec => []WizardInv
<1>1. WizardInit => WizardInv
  <2> SUFFICES ASSUME WizardInit PROVE WizardInv
    OBVIOUS
  <2>1. wizard \in [Call -> CallRow] /\ \A c \in Call : wizard[c] = NoCall
    BY NoCallRow DEF WizardInit
  <2>2. WizardTypeOK
    <3>1. lastId \in 0..MaxSets /\ extra \in 0..MaxExtra /\ aborts \in 0..MaxAborts
      BY WizardAssumption DEF WizardInit
    <3> QED
      BY <2>1, <3>1 DEF WizardInit, WizardTypeOK, CallRow
  <2>3. CallsOK /\ WizardAsked /\ CallsWithSet /\ OffersExcused
    BY <2>1, NoCallRow DEF WizardInit, CallsOK, WizardAsked, CallsWithSet, OffersExcused
  <2>4. WizardRetries
    BY DEF WizardInit, WizardRetries, Ids
  <2> QED
    BY <2>2, <2>3, <2>4 DEF WizardInv
<1>2. ASSUME WizardInv, [WizardNext]_wizardVars
      PROVE  WizardInv'
  <2>1. ASSUME NEW c \in Call, Proceed(c)
        PROVE  WizardInv'
    BY <1>2, <2>1, ToStep DEF Proceed, At
  <2>2. ASSUME NEW c \in Call, Fail(c)
        PROVE  WizardInv'
    BY <1>2, <2>2, ToStep DEF Fail, At
  <2>3. CASE UNCHANGED wizardVars
    BY <1>2, <2>3
       DEF wizardVars, WizardInv, WizardTypeOK, CallsOK, WizardAsked, CallsWithSet, OffersExcused,
           WizardRetries, Ids
  <2> QED
    BY <1>2, <2>1, <2>2, <2>3, InsertSetStep, InsertServiceStep, UndoStep, CancelStep, DieStep, ByHandStep
       DEF WizardNext
<1> QED
  BY <1>1, <1>2, PTL DEF WizardSpec

\* A wizard that fails can be retried under the same name, and no service loses
\* its rule set to what wizards undo and operators delete.
THEOREM WizardCanBeRetried == WizardSpec => []WizardRetries
<1>1. WizardInv => WizardRetries
  BY DEF WizardInv
<1> QED
  BY <1>1, WizardInvariant, PTL
-----------------------------------------------------------------------------
\* Device profiles and the list of their tokens.

EditRow == [step : {"idle", "delete", "read", "write"}, adds : BOOLEAN,
            token : SUBSET Token, list : SUBSET Token]

\* What a request works on and how far it has come: a creation's profile exists
\* and a removal's is gone, or the token has gone astray.
EditOK(t, known, there, lost) ==
  /\ t.step = "idle" => t.token = {} /\ ~t.adds
  /\ t.step # "idle" => \E x \in known : t.token = {x}
  /\ t.step = "delete" => ~t.adds
  /\ t.adds => t.token \subseteq there \cup lost
  /\ ~t.adds /\ t.step \in {"read", "write"} => t.token \cap there = {}
EditsOK == \A e \in Editor : EditOK(edit[e], drawn, profiles, astray)

\* A copy of the list differs from it at most in tokens gone astray and in the
\* token of the request that holds the copy.
CopiesOK ==
  \A e \in Editor : edit[e].step = "write" =>
    \A x \in Token \ (astray \cup edit[e].token) : x \in edit[e].list <=> x \in tokens

\* The list is right about every token no request is about to add or remove.
Busied(t) == IF t.step \in {"read", "write"} THEN t.token ELSE {}
ListOK ==
  \A x \in Token \ astray :
    (\A e \in Editor : x \notin Busied(edit[e])) => (x \in tokens <=> x \in profiles)
DevicesInv == DevicesTypeOK /\ EditsOK /\ CopiesOK /\ ListOK

\* The row of an edit that is not in progress.
LEMMA NoEditRow == NoEdit \in EditRow /\ NoEdit.step = "idle" /\ NoEdit.token = {} /\ ~NoEdit.adds
<1>1. NoEdit \in EditRow /\ NoEdit.step = "idle" /\ NoEdit.token = {}
  BY DEF NoEdit, EditRow
<1>2. ~NoEdit.adds
  BY DEF NoEdit
<1> QED
  BY <1>1, <1>2

\* The types of the devices.
LEMMA DevicesFacts ==
  ASSUME DevicesInv, NEW e \in Editor
  PROVE  /\ edit \in [Editor -> EditRow] /\ edit[e] \in EditRow
         /\ profiles \subseteq drawn /\ drawn \subseteq Token /\ tokens \subseteq Token
         /\ faults \in 0..MaxFaults /\ astray \subseteq Token
         /\ \A d \in Editor : EditOK(edit[d], drawn, profiles, astray)
BY DEF DevicesInv, DevicesTypeOK, EditRow, EditsOK

\* A fault is counted within its bound.
LEMMA FaultCounts == ASSUME DevicesInv, Fault PROVE faults' \in 0..MaxFaults
<1>1. faults \in 0..MaxFaults
  BY DEF DevicesInv, DevicesTypeOK
<1> QED
  BY <1>1, DevicesAssumption DEF Fault

\* What a step must see to in which one request goes on: its own state, what the
\* others rely on, the copies and the list.
LEMMA EditGoesOn ==
  ASSUME DevicesInv, NEW e \in Editor, NEW row \in EditRow, edit' = [edit EXCEPT ![e] = row],
         profiles' \subseteq drawn', drawn' \subseteq Token, tokens' \subseteq Token,
         faults' \in 0..MaxFaults, astray' \subseteq Token,
         EditOK(row, drawn', profiles', astray'),
         \A d \in Editor \ {e} : EditOK(edit[d], drawn', profiles', astray'),
         row.step = "write" =>
           \A x \in Token \ (astray' \cup row.token) : x \in row.list <=> x \in tokens',
         \A d \in Editor \ {e} : edit[d].step = "write" =>
           \A x \in Token \ (astray' \cup edit[d].token) : x \in edit[d].list <=> x \in tokens',
         \A x \in Token \ astray' :
           x \notin Busied(row) /\ (\A d \in Editor \ {e} : x \notin Busied(edit[d])) =>
             (x \in tokens' <=> x \in profiles')
  PROVE  DevicesInv'
<1>1. edit \in [Editor -> EditRow]
  BY DEF DevicesInv, DevicesTypeOK, EditRow
<1>2. /\ edit' \in [Editor -> EditRow] /\ edit'[e] = row
      /\ \A d \in Editor \ {e} : edit'[d] = edit[d]
  BY <1>1
<1>3. DevicesTypeOK'
  BY <1>2 DEF DevicesTypeOK, EditRow
<1>4. EditsOK'
  BY <1>2 DEF EditsOK
<1>5. CopiesOK'
  BY <1>2 DEF CopiesOK
<1>6. ListOK'
  <2>1. \A d \in Editor \ {e} : Busied(edit'[d]) = Busied(edit[d])
    BY <1>2
  <2> QED
    BY <1>2, <2>1 DEF ListOK
<1> QED
  BY <1>3, <1>4, <1>5, <1>6 DEF DevicesInv

\* A request whose token has gone astray, or that had changed nothing, is over.
LEMMA EditOver ==
  ASSUME DevicesInv, NEW e \in Editor, edit' = [edit EXCEPT ![e] = NoEdit],
         profiles' \subseteq profiles, drawn' = drawn, tokens' = tokens, faults' \in 0..MaxFaults,
         astray \subseteq astray', astray' \subseteq Token,
         profiles \ profiles' \subseteq astray', Busied(edit[e]) \subseteq astray'
  PROVE  DevicesInv'
<1>1. /\ profiles' \subseteq drawn' /\ drawn' \subseteq Token /\ tokens' \subseteq Token
  BY DevicesFacts
<1>2. EditOK(NoEdit, drawn', profiles', astray')
  BY NoEditRow DEF EditOK
<1>3. \A d \in Editor \ {e} : EditOK(edit[d], drawn', profiles', astray')
  BY DevicesFacts DEF EditOK
<1>4. NoEdit.step # "write" /\ Busied(NoEdit) = {}
  BY NoEditRow DEF Busied
<1>5. \A d \in Editor \ {e} : edit[d].step = "write" =>
        \A x \in Token \ (astray' \cup edit[d].token) : x \in edit[d].list <=> x \in tokens'
  BY DEF DevicesInv, CopiesOK
<1>6. \A x \in Token \ astray' :
        (\A d \in Editor \ {e} : x \notin Busied(edit[d])) => (x \in tokens' <=> x \in profiles')
  BY DEF DevicesInv, ListOK
<1> QED
  BY <1>1, <1>2, <1>3, <1>4, <1>5, <1>6, NoEditRow, EditGoesOn

\* A profile is created, its token not yet in the list.
LEMMA CreateProfileStep ==
  ASSUME DevicesInv, NEW e \in Editor, NEW t \in Token, CreateProfile(e, t)
  PROVE  DevicesInv'
<1> DEFINE row == [NoEdit EXCEPT !.step = "read", !.adds = TRUE, !.token = {t}]
<1>1. /\ edit[e].step = "idle" /\ t \notin drawn /\ drawn' = drawn \cup {t}
      /\ profiles' = profiles \cup {t} /\ edit' = [edit EXCEPT ![e] = row]
      /\ UNCHANGED <<tokens, faults, astray>>
  BY DEF CreateProfile
<1>2. row \in EditRow
  BY NoEditRow DEF EditRow
<1>3. row.step = "read" /\ row.token = {t}
  BY NoEditRow DEF EditRow
<1>4. row.adds
  BY NoEditRow DEF EditRow
<1> HIDE DEF row
<1>5. /\ profiles' \subseteq drawn' /\ drawn' \subseteq Token /\ tokens' \subseteq Token
      /\ faults' \in 0..MaxFaults /\ astray' \subseteq Token
  BY <1>1, DevicesFacts
<1>6. EditOK(row, drawn', profiles', astray')
  BY <1>1, <1>3, <1>4 DEF EditOK
<1>7. \A d \in Editor \ {e} : EditOK(edit[d], drawn', profiles', astray')
  <2> SUFFICES ASSUME NEW d \in Editor \ {e} PROVE EditOK(edit[d], drawn', profiles', astray')
    OBVIOUS
  <2>1. EditOK(edit[d], drawn, profiles, astray)
    BY DevicesFacts
  <2>2. t \notin edit[d].token
    BY <1>1, <2>1 DEF EditOK
  <2> QED
    BY <1>1, <2>1, <2>2 DEF EditOK
<1>8. \A d \in Editor \ {e} : edit[d].step = "write" =>
        \A x \in Token \ (astray' \cup edit[d].token) : x \in edit[d].list <=> x \in tokens'
  BY <1>1 DEF DevicesInv, CopiesOK
<1>9. Busied(edit[e]) = {} /\ Busied(row) = {t}
  BY <1>1, <1>3 DEF Busied
<1>10. \A x \in Token \ astray' :
         x \notin Busied(row) /\ (\A d \in Editor \ {e} : x \notin Busied(edit[d])) =>
           (x \in tokens' <=> x \in profiles')
  BY <1>1, <1>9 DEF DevicesInv, ListOK
<1> QED
  BY <1>1, <1>2, <1>3, <1>5, <1>6, <1>7, <1>8, <1>10, EditGoesOn

\* deleteProfile reads the token of the profile ...
LEMMA SelectStep ==
  ASSUME DevicesInv, NEW e \in Editor, NEW t \in Token, SelectHash(e, t)
  PROVE  DevicesInv'
<1> DEFINE row == [NoEdit EXCEPT !.step = "delete", !.token = {t}]
<1>1. /\ edit[e].step = "idle" /\ t \in profiles /\ edit' = [edit EXCEPT ![e] = row]
      /\ UNCHANGED <<profiles, drawn, tokens, faults, astray>>
  BY DEF SelectHash
<1>2. row \in EditRow
  BY NoEditRow DEF EditRow
<1>3. row.step = "delete" /\ row.token = {t}
  BY NoEditRow DEF EditRow
<1>4. row.adds = NoEdit.adds
  BY NoEditRow DEF EditRow
<1> HIDE DEF row
<1>5. /\ profiles' \subseteq drawn' /\ drawn' \subseteq Token /\ tokens' \subseteq Token
      /\ faults' \in 0..MaxFaults /\ astray' \subseteq Token
  BY <1>1, DevicesFacts
<1>6. EditOK(row, drawn', profiles', astray')
  BY <1>1, <1>3, <1>4, <1>5, NoEditRow DEF EditOK
<1>7. \A d \in Editor \ {e} : EditOK(edit[d], drawn', profiles', astray')
  BY <1>1, DevicesFacts
<1>8. \A d \in Editor \ {e} : edit[d].step = "write" =>
        \A x \in Token \ (astray' \cup edit[d].token) : x \in edit[d].list <=> x \in tokens'
  BY <1>1 DEF DevicesInv, CopiesOK
<1>9. Busied(edit[e]) = {}
  BY <1>1 DEF Busied
<1>10. \A x \in Token \ astray' :
         x \notin Busied(row) /\ (\A d \in Editor \ {e} : x \notin Busied(edit[d])) =>
           (x \in tokens' <=> x \in profiles')
  BY <1>1, <1>9 DEF DevicesInv, ListOK
<1> QED
  BY <1>1, <1>2, <1>3, <1>5, <1>6, <1>7, <1>8, <1>10, EditGoesOn

\* ... and deletes the profile.
LEMMA DeleteProfileStep ==
  ASSUME DevicesInv, NEW e \in Editor, DeleteProfile(e)
  PROVE  DevicesInv'
<1> DEFINE row == [edit[e] EXCEPT !.step = "read"]
           lost == IF \E d \in Editor : edit[d].adds /\ edit[d].token = edit[e].token
                   THEN edit[e].token ELSE {}
<1>1. /\ edit \in [Editor -> EditRow] /\ edit[e] \in EditRow
      /\ profiles \subseteq drawn /\ drawn \subseteq Token /\ tokens \subseteq Token
      /\ faults \in 0..MaxFaults /\ astray \subseteq Token
      /\ EditOK(edit[e], drawn, profiles, astray)
  BY DevicesFacts
<1>2. /\ edit[e].step = "delete"
      /\ edit' = [edit EXCEPT ![e] = IF edit[e].token \subseteq profiles THEN row ELSE NoEdit]
      /\ profiles' = profiles \ edit[e].token /\ astray' = astray \cup lost
      /\ UNCHANGED <<drawn, tokens, faults>>
  BY <1>1 DEF DeleteProfile
<1>3. PICK t \in drawn : edit[e].token = {t}
  BY <1>1, <1>2 DEF EditOK
<1>4. Busied(edit[e]) = {} /\ ~edit[e].adds
  BY <1>1, <1>2 DEF Busied, EditOK
<1>5. lost \subseteq edit[e].token
  OBVIOUS
<1>6. \A d \in Editor : edit[d].adds /\ edit[d].token = edit[e].token => lost = edit[e].token
  OBVIOUS
<1> HIDE DEF lost
<1>7. CASE edit[e].token \subseteq profiles
  <2>1. row \in EditRow
    BY <1>1 DEF EditRow
  <2>2. row.step = "read" /\ row.token = edit[e].token
    BY <1>1 DEF EditRow
  <2>3. row.adds = edit[e].adds
    BY <1>1 DEF EditRow
  <2> HIDE DEF row
  <2>4. edit' = [edit EXCEPT ![e] = row]
    BY <1>2, <1>7
  <2>5. /\ profiles' \subseteq drawn' /\ drawn' \subseteq Token /\ tokens' \subseteq Token
        /\ faults' \in 0..MaxFaults /\ astray' \subseteq Token
    BY <1>1, <1>2, <1>3, <1>5
  <2>6. EditOK(row, drawn', profiles', astray')
    BY <1>2, <1>3, <1>4, <2>2, <2>3 DEF EditOK
  <2>7. \A d \in Editor \ {e} : EditOK(edit[d], drawn', profiles', astray')
    <3> SUFFICES ASSUME NEW d \in Editor \ {e} PROVE EditOK(edit[d], drawn', profiles', astray')
      OBVIOUS
    <3>1. EditOK(edit[d], drawn, profiles, astray)
      BY DevicesFacts
    <3>2. edit[d].adds => edit[d].token \subseteq profiles' \cup astray'
      BY <1>2, <1>3, <1>6, <3>1 DEF EditOK
    <3> QED
      BY <1>2, <3>1, <3>2 DEF EditOK
  <2>8. \A d \in Editor \ {e} : edit[d].step = "write" =>
          \A x \in Token \ (astray' \cup edit[d].token) : x \in edit[d].list <=> x \in tokens'
    BY <1>2 DEF DevicesInv, CopiesOK
  <2>9. Busied(row) = edit[e].token
    BY <2>2 DEF Busied
  <2>10. \A x \in Token \ astray' :
           x \notin Busied(row) /\ (\A d \in Editor \ {e} : x \notin Busied(edit[d])) =>
             (x \in tokens' <=> x \in profiles')
    BY <1>2, <1>4, <2>9 DEF DevicesInv, ListOK
  <2> QED
    BY <2>1, <2>2, <2>4, <2>5, <2>6, <2>7, <2>8, <2>10, EditGoesOn
<1>8. CASE ~(edit[e].token \subseteq profiles)
  <2>1. profiles' = profiles
    BY <1>2, <1>3, <1>8
  <2>2. edit' = [edit EXCEPT ![e] = NoEdit]
    BY <1>2, <1>8
  <2>3. /\ profiles' \subseteq profiles /\ drawn' = drawn /\ tokens' = tokens /\ faults' \in 0..MaxFaults
        /\ astray \subseteq astray' /\ astray' \subseteq Token
        /\ profiles \ profiles' \subseteq astray' /\ Busied(edit[e]) \subseteq astray'
    BY <1>1, <1>2, <1>3, <1>4, <1>5, <2>1
  <2> QED
    BY <2>2, <2>3, EditOver
<1> QED
  BY <1>7, <1>8

\* A request reads the list, or takes it for empty.
LEMMA ReadStep ==
  ASSUME DevicesInv, NEW e \in Editor, ReadList(e) \/ ReadNothing(e)
  PROVE  DevicesInv'
<1>1. /\ edit \in [Editor -> EditRow] /\ edit[e] \in EditRow
      /\ profiles \subseteq drawn /\ drawn \subseteq Token /\ tokens \subseteq Token
      /\ faults \in 0..MaxFaults /\ astray \subseteq Token
      /\ EditOK(edit[e], drawn, profiles, astray)
  BY DevicesFacts
<1>2. PICK list \in SUBSET Token :
        /\ edit[e].step = "read" /\ edit' = [edit EXCEPT ![e] = [edit[e] EXCEPT !.step = "write", !.list = list]]
        /\ UNCHANGED <<profiles, drawn, tokens>>
        /\ \/ list = tokens /\ astray' = astray
           \/ list = {} /\ astray' = astray \cup tokens
  <2>1. CASE ReadList(e)
    BY <1>1, <2>1 DEF ReadList
  <2>2. CASE ReadNothing(e)
    BY <1>1, <2>2 DEF ReadNothing
  <2> QED
    BY <2>1, <2>2
<1>3. faults' \in 0..MaxFaults
  BY <1>1, FaultCounts DEF ReadList, ReadNothing
<1> DEFINE row == [edit[e] EXCEPT !.step = "write", !.list = list]
<1>4. row \in EditRow
  BY <1>1 DEF EditRow
<1>5. row.step = "write" /\ row.token = edit[e].token /\ row.list = list
  BY <1>1 DEF EditRow
<1>6. row.adds = edit[e].adds
  BY <1>1 DEF EditRow
<1>7. edit' = [edit EXCEPT ![e] = row]
  BY <1>2
<1> HIDE DEF row
<1>8. /\ profiles' \subseteq drawn' /\ drawn' \subseteq Token /\ tokens' \subseteq Token
      /\ astray' \subseteq Token /\ astray \subseteq astray'
  BY <1>1, <1>2
<1>9. EditOK(row, drawn', profiles', astray')
  BY <1>1, <1>2, <1>5, <1>6, <1>8 DEF EditOK
<1>10. \A d \in Editor \ {e} : EditOK(edit[d], drawn', profiles', astray')
  <2>1. \A d \in Editor : EditOK(edit[d], drawn, profiles, astray)
    BY DevicesFacts
  <2> QED
    BY <1>2, <1>8, <2>1 DEF EditOK
<1>11. \A x \in Token \ (astray' \cup row.token) : x \in row.list <=> x \in tokens'
  BY <1>2, <1>5
<1>12. \A d \in Editor \ {e} : edit[d].step = "write" =>
         \A x \in Token \ (astray' \cup edit[d].token) : x \in edit[d].list <=> x \in tokens'
  BY <1>2, <1>8 DEF DevicesInv, CopiesOK
<1>13. Busied(row) = edit[e].token /\ Busied(edit[e]) = edit[e].token
  BY <1>2, <1>5 DEF Busied
<1>14. \A x \in Token \ astray' :
         x \notin Busied(row) /\ (\A d \in Editor \ {e} : x \notin Busied(edit[d])) =>
           (x \in tokens' <=> x \in profiles')
  BY <1>2, <1>8, <1>13 DEF DevicesInv, ListOK
<1> QED
  BY <1>3, <1>4, <1>5, <1>7, <1>8, <1>9, <1>10, <1>11, <1>12, <1>14, EditGoesOn

\* The list is written as it was read, with the token put in or taken out.
LEMMA WriteStep ==
  ASSUME DevicesInv, NEW e \in Editor, WriteList(e)
  PROVE  DevicesInv'
<1> DEFINE lost == IF \E d \in Editor \ {e} : edit[d].step = "write" THEN edit[e].token ELSE {}
<1>1. /\ edit \in [Editor -> EditRow] /\ edit[e] \in EditRow
      /\ profiles \subseteq drawn /\ drawn \subseteq Token /\ tokens \subseteq Token
      /\ faults \in 0..MaxFaults /\ astray \subseteq Token
      /\ EditOK(edit[e], drawn, profiles, astray)
  BY DevicesFacts
<1>2. /\ edit[e].step = "write" /\ tokens' = Changed(e) /\ edit' = [edit EXCEPT ![e] = NoEdit]
      /\ astray' = astray \cup lost /\ UNCHANGED <<profiles, drawn, faults>>
  BY DEF WriteList
<1>3. lost \subseteq edit[e].token /\ ((\E d \in Editor \ {e} : edit[d].step = "write") => lost = edit[e].token)
  OBVIOUS
<1> HIDE DEF lost
<1>4. edit[e].token \subseteq Token /\ edit[e].list \subseteq Token
  BY <1>1 DEF EditRow
<1>5. /\ profiles' \subseteq drawn' /\ drawn' \subseteq Token /\ tokens' \subseteq Token
      /\ astray' \subseteq Token /\ astray \subseteq astray' /\ faults' \in 0..MaxFaults
  BY <1>1, <1>2, <1>3, <1>4 DEF Changed
\* Other tokens are in the list as before.
<1>6. \A x \in Token \ (astray \cup edit[e].token) : x \in tokens' <=> x \in tokens
  BY <1>2 DEF DevicesInv, CopiesOK, Changed
<1>7. EditOK(NoEdit, drawn', profiles', astray')
  BY NoEditRow DEF EditOK
<1>8. \A d \in Editor \ {e} : EditOK(edit[d], drawn', profiles', astray')
  <2>1. \A d \in Editor : EditOK(edit[d], drawn, profiles, astray)
    BY DevicesFacts
  <2> QED
    BY <1>2, <1>5, <2>1 DEF EditOK
<1>9. NoEdit.step # "write" /\ Busied(NoEdit) = {}
  BY NoEditRow DEF Busied
<1>10. \A d \in Editor \ {e} : edit[d].step = "write" =>
         \A x \in Token \ (astray' \cup edit[d].token) : x \in edit[d].list <=> x \in tokens'
  BY <1>2, <1>3, <1>6 DEF DevicesInv, CopiesOK
<1>11. ASSUME NEW x \in Token \ astray', \A d \in Editor \ {e} : x \notin Busied(edit[d])
       PROVE  x \in tokens' <=> x \in profiles'
  <2>1. CASE x \in edit[e].token
    <3>1. CASE edit[e].adds
      BY <1>1, <1>2, <1>5, <2>1, <3>1 DEF EditOK, Changed
    <3>2. CASE ~edit[e].adds
      BY <1>1, <1>2, <2>1, <3>2 DEF EditOK, Changed
    <3> QED
      BY <3>1, <3>2
  <2>2. CASE x \notin edit[e].token
    <3>1. x \notin Busied(edit[e])
      BY <2>2 DEF Busied
    <3> QED
      BY <1>2, <1>5, <1>6, <1>11, <2>2, <3>1 DEF DevicesInv, ListOK
  <2> QED
    BY <2>1, <2>2
<1> QED
  BY <1>2, <1>5, <1>7, <1>8, <1>9, <1>10, <1>11, NoEditRow, EditGoesOn

\* An edit ends before its list is written.
LEMMA FailStep ==
  ASSUME DevicesInv, NEW e \in Editor, DeleteUnhashed(e) \/ EditFails(e)
  PROVE  DevicesInv'
<1>1. /\ edit[e] \in EditRow /\ profiles \subseteq Token /\ astray \subseteq Token
  BY DevicesFacts
<1>2. edit[e].token \subseteq Token
  BY <1>1 DEF EditRow
<1>3. faults' \in 0..MaxFaults
  BY FaultCounts DEF DeleteUnhashed, EditFails
<1>4. CASE DeleteUnhashed(e)
  BY <1>1, <1>2, <1>3, <1>4, EditOver DEF DeleteUnhashed, Busied
<1>5. CASE EditFails(e)
  <2>1. Busied(edit[e]) \subseteq (IF edit[e].step = "delete" THEN {} ELSE edit[e].token)
    BY DEF Busied
  <2> QED
    BY <1>1, <1>2, <1>3, <1>5, <2>1, EditOver DEF EditFails
<1> QED
  BY <1>4, <1>5

\* The panel dies: edits in progress leave what they have done.
LEMMA EditorsDieStep ==
  ASSUME DevicesInv, EditorsDie
  PROVE  DevicesInv'
<1>1. /\ edit' = [e \in Editor |-> NoEdit] /\ UNCHANGED <<profiles, drawn, tokens>>
      /\ astray' = astray \cup UNION {edit[e].token : e \in {d \in Editor : edit[d].step # "delete"}}
  BY DEF EditorsDie
<1>2. faults' \in 0..MaxFaults
  BY FaultCounts DEF EditorsDie
<1>3. edit \in [Editor -> EditRow] /\ \A e \in Editor : edit[e].token \subseteq Token
  BY DEF DevicesInv, DevicesTypeOK, EditRow
<1>4. edit' \in [Editor -> EditRow] /\ \A e \in Editor : edit'[e] = NoEdit
  BY <1>1, NoEditRow
<1>5. astray \subseteq astray' /\ \A e \in Editor : Busied(edit[e]) \subseteq astray'
  BY <1>1 DEF Busied
<1>6. astray' \subseteq Token
  BY <1>1, <1>3 DEF DevicesInv, DevicesTypeOK
<1>7. DevicesTypeOK'
  BY <1>1, <1>2, <1>4, <1>6 DEF DevicesInv, DevicesTypeOK, EditRow
<1>8. EditsOK'
  BY <1>4, NoEditRow DEF EditsOK, EditOK
<1>9. CopiesOK'
  BY <1>4, NoEditRow DEF CopiesOK
<1>10. ListOK'
  BY <1>1, <1>5 DEF DevicesInv, ListOK
<1> QED
  BY <1>7, <1>8, <1>9, <1>10 DEF DevicesInv

\* The list in the settings and the profiles differ only in tokens an edit in
\* progress is about to write, or a fault or another edit made it lose.
THEOREM DevicesInvariant == DevicesSpec => []DevicesInv
<1>1. DevicesInit => DevicesInv
  <2> SUFFICES ASSUME DevicesInit PROVE DevicesInv
    OBVIOUS
  <2>1. edit \in [Editor -> EditRow] /\ \A e \in Editor : edit[e] = NoEdit
    BY NoEditRow DEF DevicesInit
  <2>2. DevicesTypeOK
    BY <2>1, DevicesAssumption DEF DevicesInit, DevicesTypeOK, EditRow
  <2>3. EditsOK
    BY <2>1, NoEditRow DEF EditsOK, EditOK
  <2>4. CopiesOK
    BY <2>1, NoEditRow DEF CopiesOK
  <2>5. ListOK
    BY DEF DevicesInit, ListOK
  <2> QED
    BY <2>2, <2>3, <2>4, <2>5 DEF DevicesInv
<1>2. ASSUME DevicesInv, [DevicesNext]_devicesVars
      PROVE  DevicesInv'
  <2>1. CASE UNCHANGED devicesVars
    BY <1>2, <2>1 DEF devicesVars, DevicesInv, DevicesTypeOK, EditsOK, CopiesOK, ListOK
  <2> QED
    BY <1>2, <2>1, CreateProfileStep, SelectStep, DeleteProfileStep, ReadStep, WriteStep, FailStep,
       EditorsDieStep DEF DevicesNext
<1> QED
  BY <1>1, <1>2, PTL DEF DevicesSpec

\* Whatever requests overlap, fail or die, a token nobody is working on and that
\* was not hit itself is accepted exactly as long as its profile exists.
THEOREM TokensFollowProfiles == DevicesSpec => []TokensMatch
<1>1. DevicesInv => TokensMatch
  BY DEF DevicesInv, ListOK, Busied, TokensMatch
<1> QED
  BY <1>1, DevicesInvariant, PTL
-----------------------------------------------------------------------------
\* Nodes, groups and services.

NodeRow == [exists : BOOLEAN, content : Nat, version : Nat, status : Status]
HandlerSteps == {"idle", "edit", "create", "store", "delete", "add", "drop"}
HandlerRow == [step : HandlerSteps, node : Node \cup {Nil}, seen : Nat, ver : Nat, raced : BOOLEAN]

\* A node that exists has had a version since it was created; one that does not
\* is nobody's decision.
NodeOK(row, decided) ==
  /\ row.exists => row.version # 0
  /\ ~row.exists => decided = "unknown"
  /\ row.exists /\ decided = "maintenance" => row.status = "maintenance"
NodesOK == \A n \in Node : NodeOK(nodes[n], word[n])

\* An editor whose version is the current one has seen the current content, and
\* a node about to be deleted is in no group unless it was added meanwhile.
HandlerOK(t, rows, in) ==
  /\ t.step \in {"edit", "delete", "add"} => t.node \in Node
  /\ t.step = "edit" =>
       /\ t.ver # 0 /\ t.ver <= rows[t.node].version
       /\ t.ver = rows[t.node].version => t.seen = rows[t.node].content
  /\ t.step = "delete" /\ t.node \in in => t.raced
HandlersOK == \A r \in Handler : HandlerOK(request[r], nodes, members)

\* Nodes made and nodes about to be made are owed to a lapse, but for one, which
\* the key or the request with it stands for.
InFlight(r) == request[r].step \in {"create", "store"}
Creators == {r \in Handler : request[r].step = "create"}
KeyHeld == key \/ \E r \in Handler : InFlight(r)
KeyOK == made + Cardinality(Creators) <= lapses + (IF KeyHeld THEN 1 ELSE 0)
InventoryInv ==
  InventoryTypeOK /\ NodesOK /\ HandlersOK /\ ~undone /\ (service => group) /\ KeyOK

\* The row of a request that is not in progress.
LEMMA NoRequestRow ==
  /\ NoRequest \in HandlerRow /\ NoRequest.step = "idle"
  /\ \A rows, in : HandlerOK(NoRequest, rows, in)
<1>1. NoRequest \in HandlerRow
  BY DEF NoRequest, HandlerRow, HandlerSteps
<1>2. NoRequest.step = "idle"
  BY DEF NoRequest
<1> QED
  BY <1>1, <1>2 DEF HandlerOK

\* The types of the inventory.
LEMMA InventoryFacts ==
  ASSUME InventoryInv
  PROVE  /\ nodes \in [Node -> NodeRow] /\ members \subseteq Node /\ word \in [Node -> Status]
         /\ request \in [Handler -> HandlerRow] /\ polling \in Node \cup {Nil} /\ ops \in 0..MaxOps
         /\ made \in Nat /\ lapses \in Nat /\ ~undone
         /\ \A n \in Node : nodes[n] \in NodeRow /\ NodeOK(nodes[n], word[n])
         /\ \A r \in Handler : request[r] \in HandlerRow /\ HandlerOK(request[r], nodes, members)
<1>1. /\ nodes \in [Node -> NodeRow] /\ members \subseteq Node /\ word \in [Node -> Status]
      /\ request \in [Handler -> HandlerRow] /\ polling \in Node \cup {Nil} /\ ops \in 0..MaxOps
      /\ made \in Nat /\ lapses \in Nat
  BY DEF InventoryInv, InventoryTypeOK, NodeRow, HandlerRow, HandlerSteps
<1>2. ~undone
  BY DEF InventoryInv
<1>3. \A n \in Node : nodes[n] \in NodeRow /\ NodeOK(nodes[n], word[n])
  BY <1>1 DEF InventoryInv, NodesOK
<1>4. \A r \in Handler : request[r] \in HandlerRow /\ HandlerOK(request[r], nodes, members)
  BY <1>1 DEF InventoryInv, HandlersOK
<1> QED
  BY <1>1, <1>2, <1>3, <1>4

\* A node's row changes without anyone's losing sight of it: a new content has a
\* new version.
Grows(n) ==
  \/ nodes'[n].version = nodes[n].version /\ nodes'[n].content = nodes[n].content
  \/ nodes'[n].version > nodes[n].version

\* What a request has checked stays so while versions only grow.
LEMMA HandlersStay ==
  ASSUME InventoryInv, nodes' \in [Node -> NodeRow], \A n \in Node : Grows(n), members' \subseteq members
  PROVE  \A r \in Handler : HandlerOK(request[r], nodes', members')
<1> SUFFICES ASSUME NEW r \in Handler PROVE HandlerOK(request[r], nodes', members')
  OBVIOUS
<1>1. request[r] \in HandlerRow /\ HandlerOK(request[r], nodes, members)
  BY InventoryFacts
<1>2. request[r].ver \in Nat
  BY <1>1 DEF HandlerRow
<1>3. \A n \in Node : /\ nodes[n].version \in Nat /\ nodes'[n].version \in Nat
                      /\ Grows(n)
  BY InventoryFacts DEF NodeRow
<1> QED
  BY <1>1, <1>2, <1>3 DEF HandlerOK, Grows

\* A node changes with the word of its operator.
LEMMA NodeMoves ==
  ASSUME InventoryInv, NEW n \in Node, NEW row \in NodeRow, nodes' = [nodes EXCEPT ![n] = row],
         word' \in [Node -> Status], \A m \in Node \ {n} : word'[m] = word[m],
         NodeOK(row, word'[n]),
         \/ row.version = nodes[n].version /\ row.content = nodes[n].content
         \/ row.version > nodes[n].version
  PROVE  nodes' \in [Node -> NodeRow] /\ NodesOK' /\ \A m \in Node : Grows(m)
<1>1. nodes \in [Node -> NodeRow] /\ \A m \in Node : NodeOK(nodes[m], word[m])
  BY InventoryFacts
<1>2. nodes' \in [Node -> NodeRow] /\ nodes'[n] = row /\ \A m \in Node \ {n} : nodes'[m] = nodes[m]
  BY <1>1
<1>3. \A m \in Node : NodeOK(nodes'[m], word'[m])
  BY <1>1, <1>2
<1>4. NodesOK'
  BY <1>3 DEF NodesOK
<1>5. \A m \in Node : Grows(m)
  BY <1>2 DEF Grows
<1> QED
  BY <1>2, <1>4, <1>5

\* How many requests are about to create a node.
LEMMA CreatorsCounted ==
  ASSUME NEW r \in Handler
  PROVE  /\ Cardinality(Creators) \in Nat
         /\ r \notin Creators => Cardinality(Creators \cup {r}) = Cardinality(Creators) + 1
         /\ r \in Creators => Cardinality(Creators \ {r}) = Cardinality(Creators) - 1
<1>1. IsFiniteSet(Creators)
  BY InventoryAssumption, FS_Subset DEF Creators
<1> QED
  BY <1>1, FS_AddElement, FS_RemoveElement, FS_CardinalityType

\* Steps that have nothing to do with the idempotency key.
LEMMA KeyStays ==
  ASSUME InventoryInv, UNCHANGED <<key, made, lapses>>,
         \A q \in Handler : \/ request'[q].step = request[q].step
                            \/ request'[q].step \notin {"create", "store"} /\ request[q].step \notin {"create", "store"}
  PROVE  KeyOK'
<1>1. Creators' = Creators
  BY DEF Creators
<1>2. KeyHeld' = KeyHeld
  BY DEF KeyHeld, InFlight
<1> QED
  BY <1>1, <1>2 DEF InventoryInv, KeyOK

\* What a step must see to in which one request goes on.
LEMMA HandlerGoesOn ==
  ASSUME InventoryInv, NEW r \in Handler, NEW row \in HandlerRow, request' = [request EXCEPT ![r] = row],
         HandlerOK(row, nodes', members'), nodes' \in [Node -> NodeRow], NodesOK',
         \A n \in Node : Grows(n), members' \subseteq members, word' \in [Node -> Status],
         group' \in BOOLEAN, service' \in BOOLEAN, key' \in BOOLEAN, lapses' \in Nat,
         polling' = polling, ops' \in 0..MaxOps, made' \in Nat, undone' = FALSE,
         service' => group', KeyOK'
  PROVE  InventoryInv'
<1>1. request \in [Handler -> HandlerRow] /\ members \subseteq Node /\ polling \in Node \cup {Nil}
  BY InventoryFacts
<1>2. /\ request' \in [Handler -> HandlerRow] /\ request'[r] = row
      /\ \A q \in Handler \ {r} : request'[q] = request[q]
  BY <1>1
<1>3. \A q \in Handler : HandlerOK(request[q], nodes', members')
  BY HandlersStay
<1>4. HandlersOK'
  BY <1>2, <1>3 DEF HandlersOK
<1>5. InventoryTypeOK'
  BY <1>1, <1>2 DEF InventoryTypeOK, NodeRow, HandlerRow, HandlerSteps
<1> QED
  BY <1>4, <1>5 DEF InventoryInv

\* The same for a step that is no request's.
LEMMA OthersGoOn ==
  ASSUME InventoryInv, nodes' \in [Node -> NodeRow], NodesOK',
         \A n \in Node : Grows(n), members' \subseteq members, word' \in [Node -> Status],
         group' \in BOOLEAN, service' \in BOOLEAN, polling' \in Node \cup {Nil}, ops' \in 0..MaxOps,
         UNCHANGED <<request, key, undone, made, lapses>>, service' => group'
  PROVE  InventoryInv'
<1>1. request \in [Handler -> HandlerRow] /\ members \subseteq Node /\ made \in Nat
  BY InventoryFacts
<1>2. \A q \in Handler : HandlerOK(request[q], nodes', members')
  BY HandlersStay
<1>3. HandlersOK'
  BY <1>2 DEF HandlersOK
<1>4. KeyOK'
  BY KeyStays
<1>5. InventoryTypeOK'
  BY <1>1 DEF InventoryInv, InventoryTypeOK, NodeRow
<1> QED
  BY <1>3, <1>4, <1>5 DEF InventoryInv

\* No node changes.
LEMMA NodesStay ==
  ASSUME InventoryInv, UNCHANGED <<nodes, word>>
  PROVE  /\ nodes' \in [Node -> NodeRow] /\ NodesOK' /\ word' \in [Node -> Status]
         /\ \A n \in Node : Grows(n)
BY InventoryFacts DEF NodesOK, NodeOK, Grows, InventoryInv

\* Operations are counted within their bound.
LEMMA OpsCounted == ASSUME InventoryInv, Counts PROVE ops' \in 0..MaxOps
<1>1. ops \in 0..MaxOps
  BY InventoryFacts
<1> QED
  BY <1>1, InventoryAssumption DEF Counts

\* The flags of the inventory.
LEMMA InventoryFlags ==
  ASSUME InventoryInv
  PROVE  /\ undone = FALSE /\ group \in BOOLEAN /\ service \in BOOLEAN /\ key \in BOOLEAN
         /\ lapses \in Nat /\ (service => group)
BY DEF InventoryInv, InventoryTypeOK

\* A request begins: what it has checked holds.
LEMMA BeginStep ==
  ASSUME InventoryInv, NEW r \in Handler, NEW n \in Node \cup {Nil},
         NEW step \in {"create", "delete", "add", "drop"}, Begins(r, n, step), Counts,
         step \in {"delete", "add"} => n \in Node, step = "delete" => n \notin members,
         UNCHANGED <<nodes, members, group, service, polling, word, undone, key, made>>,
         lapses' \in Nat, step = "create" => KeyOK', step # "create" => lapses' = lapses
  PROVE  InventoryInv'
<1> DEFINE row == [NoRequest EXCEPT !.step = step, !.node = n]
<1>1. request[r].step = "idle" /\ request' = [request EXCEPT ![r] = row]
  BY DEF Begins
<1>2. row \in HandlerRow
  BY NoRequestRow DEF HandlerRow, HandlerSteps
<1>3. row.step = step /\ row.node = n
  BY NoRequestRow DEF HandlerRow
<1> HIDE DEF row
<1>4. HandlerOK(row, nodes', members')
  BY <1>3 DEF HandlerOK
<1>5. KeyOK'
  <2>1. request \in [Handler -> HandlerRow]
    BY InventoryFacts
  <2>2. step # "create" => \A q \in Handler : \/ request'[q].step = request[q].step
                                              \/ request'[q].step \notin {"create", "store"} /\ request[q].step \notin {"create", "store"}
    BY <1>1, <1>3, <2>1
  <2> QED
    BY <2>2, KeyStays
<1>6. /\ nodes' \in [Node -> NodeRow] /\ NodesOK' /\ word' \in [Node -> Status]
      /\ \A m \in Node : Grows(m)
  BY NodesStay
<1>7. undone' = FALSE /\ group' \in BOOLEAN /\ service' \in BOOLEAN /\ key' \in BOOLEAN
      /\ (service' => group') /\ made' \in Nat
  BY InventoryFlags, InventoryFacts
<1>8. ops' \in 0..MaxOps
  BY OpsCounted
<1> QED
  BY <1>1, <1>2, <1>4, <1>5, <1>6, <1>7, <1>8, HandlerGoesOn

\* A request with the key begins; one that should have found the key, or waited
\* for another, is a lapse.
LEMMA LookUpStep ==
  ASSUME InventoryInv, NEW r \in Handler, LookUpKey(r)
  PROVE  InventoryInv'
<1>1. /\ Begins(r, Nil, "create") /\ Counts
      /\ lapses' = IF KeyHeld THEN lapses + 1 ELSE lapses
      /\ UNCHANGED <<nodes, members, group, service, polling, key, word, undone, made>>
  BY DEF LookUpKey, InFlight, KeyHeld
<1>2. made \in Nat /\ lapses \in Nat /\ lapses' \in Nat
  BY <1>1, InventoryFacts
<1>3. request \in [Handler -> HandlerRow]
  BY InventoryFacts
<1> DEFINE row == [NoRequest EXCEPT !.step = "create", !.node = Nil]
<1>4. request' = [request EXCEPT ![r] = row] /\ request[r].step = "idle"
  BY <1>1 DEF Begins
<1>5. row.step = "create"
  BY NoRequestRow DEF HandlerRow
<1> HIDE DEF row
<1>6. request'[r].step = "create" /\ \A q \in Handler \ {r} : request'[q] = request[q]
  BY <1>3, <1>4, <1>5
<1>7. KeyOK'
  <2>1. Creators' = Creators \cup {r} /\ r \notin Creators
    BY <1>4, <1>6 DEF Creators
  <2>2. KeyHeld'
    BY <1>6 DEF KeyHeld, InFlight
  <2>3. made + Cardinality(Creators) <= lapses + (IF KeyHeld THEN 1 ELSE 0)
    BY DEF InventoryInv, KeyOK
  <2>4. Cardinality(Creators') = Cardinality(Creators) + 1 /\ Cardinality(Creators) \in Nat
    BY <2>1, CreatorsCounted
  <2> QED
    BY <1>1, <1>2, <2>2, <2>3, <2>4 DEF KeyOK
<1> QED
  BY <1>1, <1>2, <1>7, BeginStep

\* An operator loads a node: what they see is what its version stands for.
LEMMA LoadStep ==
  ASSUME InventoryInv, NEW r \in Handler, NEW n \in Node, Load(r, n)
  PROVE  InventoryInv'
<1> DEFINE row == [NoRequest EXCEPT !.step = "edit", !.node = n, !.seen = nodes[n].content,
                                    !.ver = nodes[n].version]
<1>1. /\ nodes[n].exists /\ request[r].step = "idle" /\ request' = [request EXCEPT ![r] = row]
      /\ UNCHANGED <<nodes, members, group, service, polling, key, ops, word, undone, made, lapses>>
  BY DEF Load
<1>2. nodes[n].content \in Nat /\ nodes[n].version \in Nat /\ nodes[n].version # 0
  BY <1>1, InventoryFacts DEF NodeRow, NodeOK
<1>3. row \in HandlerRow
  BY <1>2, NoRequestRow DEF HandlerRow, HandlerSteps
<1>4. row.step = "edit" /\ row.node = n /\ row.seen = nodes[n].content /\ row.ver = nodes[n].version
  BY NoRequestRow DEF HandlerRow
<1> HIDE DEF row
<1>5. HandlerOK(row, nodes', members')
  BY <1>1, <1>2, <1>4 DEF HandlerOK
<1>6. KeyOK'
  <2>1. request \in [Handler -> HandlerRow]
    BY InventoryFacts
  <2>2. \A q \in Handler : \/ request'[q].step = request[q].step
                           \/ request'[q].step \notin {"create", "store"} /\ request[q].step \notin {"create", "store"}
    BY <1>1, <1>4, <2>1
  <2> QED
    BY <1>1, <2>2, KeyStays
<1>7. /\ nodes' \in [Node -> NodeRow] /\ NodesOK' /\ word' \in [Node -> Status]
      /\ \A m \in Node : Grows(m)
  BY <1>1, NodesStay
<1>8. undone' = FALSE /\ group' \in BOOLEAN /\ service' \in BOOLEAN /\ key' \in BOOLEAN
      /\ lapses' \in Nat /\ (service' => group')
  BY <1>1, InventoryFlags
<1>9. ops' \in 0..MaxOps /\ made' \in Nat
  BY <1>1, InventoryFacts
<1> QED
  BY <1>1, <1>3, <1>5, <1>6, <1>7, <1>8, <1>9, HandlerGoesOn

\* A request is over.
LEMMA CloseStep ==
  ASSUME InventoryInv, NEW r \in Handler, NEW step \in {"edit", "delete", "drop"}, Closes(r, step),
         nodes' \in [Node -> NodeRow], NodesOK', \A n \in Node : Grows(n), members' \subseteq members,
         word' \in [Node -> Status], group' \in BOOLEAN, service' = service, ops' \in 0..MaxOps,
         UNCHANGED <<polling, key, made, lapses>>, undone' = FALSE, service' => group'
  PROVE  InventoryInv'
<1>1. request[r].step = step /\ request' = [request EXCEPT ![r] = NoRequest]
  BY DEF Closes
<1>2. KeyOK'
  <2>1. request \in [Handler -> HandlerRow]
    BY InventoryFacts
  <2>2. \A q \in Handler : \/ request'[q].step = request[q].step
                           \/ request'[q].step \notin {"create", "store"} /\ request[q].step \notin {"create", "store"}
    BY <1>1, <2>1, NoRequestRow
  <2> QED
    BY <2>2, KeyStays
<1>3. service' \in BOOLEAN /\ key' \in BOOLEAN /\ lapses' \in Nat /\ made' \in Nat
  BY InventoryFlags, InventoryFacts
<1> QED
  BY <1>1, <1>2, <1>3, NoRequestRow, HandlerGoesOn

\* The key is stored after the node it made.
LEMMA StoreStep ==
  ASSUME InventoryInv, NEW r \in Handler, StoreKey(r)
  PROVE  InventoryInv'
<1>1. /\ request[r].step = "store" /\ request' = [request EXCEPT ![r] = NoRequest] /\ key' = TRUE
      /\ UNCHANGED <<nodes, members, group, service, polling, ops, word, undone, made, lapses>>
  BY DEF StoreKey, Closes
<1>2. request \in [Handler -> HandlerRow] /\ made \in Nat /\ ops \in 0..MaxOps
  BY InventoryFacts
<1>3. request'[r] = NoRequest /\ \A q \in Handler \ {r} : request'[q] = request[q]
  BY <1>1, <1>2
<1>4. KeyOK'
  <2>1. Creators' = Creators
    BY <1>1, <1>3, NoRequestRow DEF Creators
  <2>2. KeyHeld /\ KeyHeld'
    BY <1>1 DEF KeyHeld, InFlight
  <2> QED
    BY <1>1, <2>1, <2>2 DEF InventoryInv, KeyOK
<1>5. /\ nodes' \in [Node -> NodeRow] /\ NodesOK' /\ word' \in [Node -> Status]
      /\ \A m \in Node : Grows(m)
  BY <1>1, NodesStay
<1>6. undone' = FALSE /\ group' \in BOOLEAN /\ service' \in BOOLEAN /\ key' \in BOOLEAN
      /\ lapses' \in Nat /\ (service' => group')
  BY <1>1, InventoryFlags
<1> QED
  BY <1>1, <1>2, <1>4, <1>5, <1>6, NoRequestRow, HandlerGoesOn

PatchedStatus == {"same", "maintenance", "unknown"}

\* An edit with If-Match meets the content its author has seen.
LEMMA PatchStep ==
  ASSUME InventoryInv, NEW r \in Handler, NEW expected,
         NEW wanted \in PatchedStatus, Patch(r, expected, wanted)
  PROVE  InventoryInv'
<1> DEFINE n == request[r].node
<1>1. /\ Counts /\ Closes(r, "edit") /\ request[r].step = "edit"
      /\ UNCHANGED <<members, group, service, polling, key, made, lapses>>
  BY DEF Patch, Closes
<1>2. /\ request[r] \in HandlerRow /\ HandlerOK(request[r], nodes, members)
      /\ word \in [Node -> Status] /\ nodes \in [Node -> NodeRow] /\ ops \in 0..MaxOps
  BY InventoryFacts
<1>3. n \in Node /\ nodes[n] \in NodeRow /\ NodeOK(nodes[n], word[n])
  BY <1>1, <1>2, InventoryFacts DEF HandlerOK
<1>4. ops' \in 0..MaxOps /\ undone = FALSE /\ group' \in BOOLEAN /\ (service' => group')
  BY <1>1, OpsCounted, InventoryFlags
<1>5. CASE Matches(n, expected)
  <2> DEFINE set == IF wanted = "same" THEN nodes[n].status ELSE wanted
             row == [nodes[n] EXCEPT !.content = ops + 1, !.version = nodes[n].version + 1, !.status = set]
  <2>1. /\ nodes' = [nodes EXCEPT ![n] = row]
        /\ word' = IF wanted = "same" THEN word ELSE [word EXCEPT ![n] = wanted]
        /\ undone' = (undone \/ (expected # 0 /\ nodes[n].content # request[r].seen))
    <3>1. nodes' = [nodes EXCEPT ![n] = [nodes[n] EXCEPT !.content = ops + 1, !.version = @ + 1,
                                           !.status = IF wanted = "same" THEN @ ELSE wanted]]
      BY <1>5 DEF Patch
    <3>a. [nodes[n] EXCEPT !.content = ops + 1, !.version = @ + 1,
                           !.status = IF wanted = "same" THEN @ ELSE wanted] = row
      BY <1>3 DEF NodeRow
    <3> HIDE DEF row
    <3>2. nodes' = [nodes EXCEPT ![n] = row]
      BY <1>2, <1>3, <3>1, <3>a
    <3> QED
      BY <1>5, <3>2 DEF Patch
  <2>2. undone' = FALSE
    <3>0. expected \in {0, request[r].ver}
      BY DEF Patch
    <3>1. expected # 0 => nodes[n].version = request[r].ver
      BY <1>5, <3>0 DEF Matches
    <3>2. expected # 0 => nodes[n].content = request[r].seen
      BY <1>1, <1>2, <3>1 DEF HandlerOK
    <3> QED
      BY <1>4, <2>1, <3>2
  <2>a. nodes[n].exists
    BY <1>5 DEF Matches
  <2>3. nodes[n].version \in Nat /\ nodes[n].status \in Status
    BY <1>3 DEF NodeRow
  <2>4. set \in Status /\ (wanted # "same" => set = wanted) /\ (wanted = "same" => set = nodes[n].status)
    BY <2>3 DEF Status, PatchedStatus
  <2> HIDE DEF set
  <2>5. nodes[n].version + 1 \in Nat /\ ops + 1 \in Nat
    BY <1>2, <2>3, InventoryAssumption
  <2>6. row \in NodeRow
    BY <1>3, <2>4, <2>5 DEF NodeRow
  <2>7. row.version = nodes[n].version + 1 /\ row.status = set
    BY <1>3 DEF NodeRow
  <2>8. row.exists = nodes[n].exists
    BY <1>3 DEF NodeRow
  <2> HIDE DEF row
  <2>9. /\ word' \in [Node -> Status] /\ \A m \in Node \ {n} : word'[m] = word[m]
        /\ word'[n] = (IF wanted = "same" THEN word[n] ELSE wanted)
    BY <1>2, <1>3, <2>1 DEF Status, PatchedStatus
  <2>10. NodeOK(row, word'[n])
    <3>1. row.version # 0
      BY <2>3, <2>7
    <3> QED
      BY <1>3, <2>a, <2>4, <2>7, <2>8, <2>9, <3>1 DEF NodeOK
  <2>11. row.version > nodes[n].version
    BY <2>3, <2>7
  <2>12. nodes' \in [Node -> NodeRow] /\ NodesOK' /\ \A m \in Node : Grows(m)
    BY <1>3, <2>1, <2>6, <2>9, <2>10, <2>11, NodeMoves
  <2> QED
    BY <1>1, <1>4, <2>2, <2>9, <2>12, CloseStep
<1>6. CASE ~Matches(n, expected)
  <2>1. UNCHANGED <<nodes, word, undone>>
    BY <1>6 DEF Patch
  <2>2. /\ nodes' \in [Node -> NodeRow] /\ NodesOK' /\ word' \in [Node -> Status]
        /\ \A m \in Node : Grows(m)
    BY <2>1, NodesStay
  <2> QED
    BY <1>1, <1>4, <2>1, <2>2, CloseStep
<1> QED
  BY <1>5, <1>6

\* A node is deleted only if it has not joined the group unnoticed.
LEMMA DeleteNodeStep ==
  ASSUME InventoryInv, NEW r \in Handler, DeleteNode(r)
  PROVE  InventoryInv'
<1> DEFINE n == request[r].node
           row == [nodes[n] EXCEPT !.exists = FALSE, !.status = "unknown"]
<1>1. /\ Closes(r, "delete") /\ request[r].step = "delete"
      /\ nodes' = [nodes EXCEPT ![n] = row] /\ word' = [word EXCEPT ![n] = "unknown"]
      /\ members' = members \ {n} /\ undone' = (undone \/ (n \in members /\ ~request[r].raced))
      /\ UNCHANGED <<group, service, polling, key, ops, made, lapses>>
  BY DEF DeleteNode, Closes
<1>2. /\ HandlerOK(request[r], nodes, members) /\ word \in [Node -> Status]
      /\ nodes \in [Node -> NodeRow] /\ ops' \in 0..MaxOps
  BY <1>1, InventoryFacts
<1>3. n \in Node /\ nodes[n] \in NodeRow /\ (n \in members => request[r].raced)
  BY <1>1, <1>2 DEF HandlerOK
<1>4. undone' = FALSE /\ group' \in BOOLEAN /\ (service' => group')
  BY <1>1, <1>3, InventoryFlags
<1>5. row \in NodeRow
  BY <1>3 DEF NodeRow, Status
<1>6. row.version = nodes[n].version /\ row.content = nodes[n].content
  BY <1>3 DEF NodeRow
<1>7. ~row.exists
  BY <1>3 DEF NodeRow
<1> HIDE DEF row
<1>8. word' \in [Node -> Status] /\ word'[n] = "unknown" /\ \A m \in Node \ {n} : word'[m] = word[m]
  BY <1>1, <1>2, <1>3 DEF Status
<1>9. NodeOK(row, word'[n])
  BY <1>7, <1>8 DEF NodeOK
<1>10. nodes' \in [Node -> NodeRow] /\ NodesOK' /\ \A m \in Node : Grows(m)
  BY <1>1, <1>3, <1>5, <1>6, <1>8, <1>9, NodeMoves
<1> QED
  BY <1>1, <1>2, <1>4, <1>8, <1>10, CloseStep

\* A group is deleted only without a service.
LEMMA DeleteGroupStep ==
  ASSUME InventoryInv, NEW r \in Handler, DeleteGroup(r)
  PROVE  InventoryInv'
<1>1. /\ Closes(r, "drop") /\ group' = (group /\ service) /\ members' \subseteq members
      /\ UNCHANGED <<nodes, service, polling, key, ops, word, undone, made, lapses>>
  BY DEF DeleteGroup
<1>2. /\ nodes' \in [Node -> NodeRow] /\ NodesOK' /\ word' \in [Node -> Status]
      /\ \A m \in Node : Grows(m)
  BY <1>1, NodesStay
<1>3. undone' = FALSE /\ group' \in BOOLEAN
  BY <1>1, InventoryFlags
<1>4. service' => group'
  BY <1>1, InventoryFlags
<1>5. ops' \in 0..MaxOps
  BY <1>1, InventoryFacts
<1> QED
  BY <1>1, <1>2, <1>3, <1>4, <1>5, CloseStep

\* A node is inserted once per request.
LEMMA InsertNodeStep ==
  ASSUME InventoryInv, NEW r \in Handler, NEW n \in Node, InsertNode(r, n)
  PROVE  InventoryInv'
<1> DEFINE row == [NoNode EXCEPT !.exists = TRUE, !.version = 1]
           next == [request[r] EXCEPT !.step = "store"]
<1>1. /\ request[r] \in HandlerRow /\ request \in [Handler -> HandlerRow]
      /\ nodes \in [Node -> NodeRow] /\ word \in [Node -> Status] /\ made \in Nat
      /\ ops \in 0..MaxOps
      /\ NodeOK(nodes[n], word[n])
  BY InventoryFacts
<1>2. /\ request[r].step = "create" /\ ~nodes[n].exists /\ nodes[n].version = 0
      /\ request' = [request EXCEPT ![r] = next] /\ nodes' = [nodes EXCEPT ![n] = row]
      /\ made' = made + 1
      /\ UNCHANGED <<members, group, service, polling, key, ops, word, undone, lapses>>
  BY <1>1 DEF InsertNode
<1>3. next \in HandlerRow
  BY <1>1 DEF HandlerRow, HandlerSteps
<1>4. next.step = "store"
  BY <1>1 DEF HandlerRow
<1>5. row \in NodeRow
  BY DEF NoNode, NodeRow, Status
<1>6. row.version = 1
  BY DEF NoNode
<1> HIDE DEF row, next
<1>7. word'[n] = "unknown" /\ word' \in [Node -> Status] /\ \A m \in Node \ {n} : word'[m] = word[m]
  BY <1>1, <1>2 DEF NodeOK
<1>8. NodeOK(row, word'[n])
  BY <1>6, <1>7 DEF NodeOK
<1>9. row.version > nodes[n].version
  BY <1>2, <1>6
<1>10. nodes' \in [Node -> NodeRow] /\ NodesOK' /\ \A m \in Node : Grows(m)
  BY <1>2, <1>5, <1>7, <1>8, <1>9, NodeMoves
<1>11. HandlerOK(next, nodes', members')
  BY <1>4 DEF HandlerOK
<1>12. KeyOK'
  <2>1. request'[r].step = "store" /\ \A q \in Handler \ {r} : request'[q] = request[q]
    BY <1>1, <1>2, <1>4
  <2>2. Creators' = Creators \ {r} /\ r \in Creators
    BY <1>2, <2>1 DEF Creators
  <2>3. KeyHeld /\ KeyHeld'
    BY <1>2, <2>1 DEF KeyHeld, InFlight
  <2>4. Cardinality(Creators') = Cardinality(Creators) - 1 /\ Cardinality(Creators) \in Nat
    BY <2>2, CreatorsCounted
  <2>5. lapses \in Nat
    BY InventoryFacts
  <2> QED
    BY <1>1, <1>2, <2>3, <2>4, <2>5 DEF InventoryInv, KeyOK
<1>13. undone' = FALSE /\ group' \in BOOLEAN /\ service' \in BOOLEAN /\ key' \in BOOLEAN
      /\ lapses' \in Nat /\ (service' => group')
  BY <1>2, InventoryFlags
<1>14. ops' \in 0..MaxOps /\ made' \in Nat /\ members' \subseteq members /\ polling' = polling
  BY <1>1, <1>2
<1> QED
  BY <1>2, <1>3, <1>7, <1>10, <1>11, <1>12, <1>13, <1>14, HandlerGoesOn

\* The panel dies: a node whose key is not stored is a lapse.
LEMMA PanelDiesStep ==
  ASSUME InventoryInv, PanelDies
  PROVE  InventoryInv'
<1>1. /\ request' = [r \in Handler |-> NoRequest] /\ polling' = Nil
      /\ lapses' = IF \E r \in Handler : request[r].step = "store" THEN lapses + 1 ELSE lapses
      /\ UNCHANGED <<nodes, members, group, service, key, word, undone, made>>
  BY DEF PanelDies
<1>2. ops' \in 0..MaxOps
  BY OpsCounted DEF PanelDies
<1>3. request' \in [Handler -> HandlerRow] /\ \A r \in Handler : request'[r] = NoRequest
  BY <1>1, NoRequestRow
<1>4. lapses' \in Nat /\ lapses \in Nat /\ made \in Nat
  BY <1>1, InventoryFacts
<1>5. InventoryTypeOK'
  BY <1>1, <1>2, <1>3, <1>4 DEF InventoryInv, InventoryTypeOK, HandlerRow, HandlerSteps
<1>6. NodesOK' /\ ~undone' /\ (service' => group')
  BY <1>1 DEF InventoryInv, NodesOK
<1>7. HandlersOK'
  BY <1>3, NoRequestRow DEF HandlersOK
<1>8. KeyOK'
  <2>1. Creators' = {} /\ Cardinality({}) = 0
    BY <1>3, NoRequestRow, FS_EmptySet DEF Creators
  <2>2. Cardinality(Creators) \in Nat /\ (Creators # {} => Cardinality(Creators) >= 1)
    BY InventoryAssumption, FS_Subset, FS_EmptySet, FS_CardinalityType DEF Creators
  <2>3. made + Cardinality(Creators) <= lapses + (IF KeyHeld THEN 1 ELSE 0)
    BY DEF InventoryInv, KeyOK
  <2>4. KeyHeld => key \/ Creators # {} \/ lapses' = lapses + 1
    BY <1>1 DEF KeyHeld, InFlight, Creators
  <2>5. key => KeyHeld'
    BY <1>1 DEF KeyHeld
  <2> QED
    BY <1>1, <1>4, <2>1, <2>2, <2>3, <2>4, <2>5 DEF KeyOK
<1> QED
  BY <1>5, <1>6, <1>7, <1>8 DEF InventoryInv

\* A request is cut off: a node whose key it did not store is a lapse.
LEMMA AbandonStep ==
  ASSUME InventoryInv, NEW r \in Handler, Abandon(r)
  PROVE  InventoryInv'
<1>1. /\ request' = [request EXCEPT ![r] = NoRequest]
      /\ lapses' = IF request[r].step = "store" THEN lapses + 1 ELSE lapses
      /\ UNCHANGED <<nodes, members, group, service, polling, key, ops, word, undone, made>>
  BY DEF Abandon
<1>2. /\ request \in [Handler -> HandlerRow] /\ made \in Nat /\ ops \in 0..MaxOps
      /\ lapses \in Nat /\ lapses' \in Nat
  BY <1>1, InventoryFacts
<1>3. request'[r] = NoRequest /\ \A q \in Handler \ {r} : request'[q] = request[q]
  BY <1>1, <1>2
<1>4. KeyOK'
  <2>1. Creators' = Creators \ {r}
    BY <1>3, NoRequestRow DEF Creators
  <2>2. /\ Cardinality(Creators) \in Nat
        /\ request[r].step = "create" => Cardinality(Creators') = Cardinality(Creators) - 1
        /\ request[r].step # "create" => Creators' = Creators
    BY <2>1, CreatorsCounted DEF Creators
  <2>3. ~InFlight(r) => KeyHeld' = KeyHeld
    BY <1>1, <1>3, NoRequestRow DEF KeyHeld, InFlight
  <2>4. InFlight(r) = (request[r].step = "create" \/ request[r].step = "store")
    BY DEF InFlight
  <2>5. made + Cardinality(Creators) <= lapses + (IF KeyHeld THEN 1 ELSE 0)
    BY DEF InventoryInv, KeyOK
  <2>6. CASE request[r].step = "create"
    BY <1>1, <1>2, <2>2, <2>5, <2>6 DEF KeyOK
  <2>7. CASE request[r].step = "store"
    BY <1>1, <1>2, <2>2, <2>5, <2>7 DEF KeyOK
  <2>8. CASE ~InFlight(r)
    BY <1>1, <1>2, <2>2, <2>3, <2>4, <2>5, <2>8 DEF KeyOK
  <2> QED
    BY <2>4, <2>6, <2>7, <2>8
<1>5. /\ nodes' \in [Node -> NodeRow] /\ NodesOK' /\ word' \in [Node -> Status]
      /\ \A m \in Node : Grows(m)
  BY <1>1, NodesStay
<1>6. undone' = FALSE /\ group' \in BOOLEAN /\ service' \in BOOLEAN /\ key' \in BOOLEAN
      /\ (service' => group')
  BY <1>1, InventoryFlags
<1> QED
  BY <1>1, <1>2, <1>4, <1>5, <1>6, NoRequestRow, HandlerGoesOn

\* A key that is no longer kept is a lapse.
LEMMA ExpireStep ==
  ASSUME InventoryInv, ExpireKey
  PROVE  InventoryInv'
<1>1. /\ key /\ key' = FALSE /\ lapses' = lapses + 1
      /\ UNCHANGED <<nodes, members, group, service, request, polling, word, undone, made>>
  BY DEF ExpireKey
<1>2. ops' \in 0..MaxOps
  BY OpsCounted DEF ExpireKey
<1>3. lapses \in Nat /\ made \in Nat /\ request \in [Handler -> HandlerRow]
  BY InventoryFacts
<1>4. InventoryTypeOK'
  <2>0. key' \in BOOLEAN
    BY <1>1
  <2>1. lapses' \in Nat
    BY <1>1, <1>3
  <2>2. undone' \in BOOLEAN /\ group' \in BOOLEAN /\ service' \in BOOLEAN
    BY <1>1, InventoryFlags
  <2>3. made' \in Nat /\ polling' \in Node \cup {Nil} /\ members' \subseteq Node
    BY <1>1, InventoryFacts
  <2>4. nodes' \in [Node -> NodeRow] /\ word' \in [Node -> Status] /\ request' \in [Handler -> HandlerRow]
    BY <1>1, InventoryFacts
  <2> QED
    BY <1>2, <2>0, <2>1, <2>2, <2>3, <2>4 DEF InventoryTypeOK, NodeRow, HandlerRow, HandlerSteps
<1>5. NodesOK' /\ HandlersOK' /\ ~undone' /\ (service' => group')
  BY <1>1 DEF InventoryInv, NodesOK, HandlersOK
<1>6. KeyOK'
  <2>1. Creators' = Creators /\ KeyHeld
    BY <1>1 DEF Creators, KeyHeld
  <2>2. Cardinality(Creators) \in Nat
    BY InventoryAssumption, FS_Subset, FS_CardinalityType DEF Creators
  <2> QED
    BY <1>1, <1>3, <2>1, <2>2 DEF InventoryInv, KeyOK
<1> QED
  BY <1>4, <1>5, <1>6 DEF InventoryInv

\* A member is added: requests about to delete the node are marked.
LEMMA AddMemberStep ==
  ASSUME InventoryInv, NEW r \in Handler, AddMember(r)
  PROVE  InventoryInv'
<1> DEFINE n == request[r].node
<1>1. /\ request[r].step = "add" /\ members \subseteq members' /\ members' \subseteq members \cup {n}
      /\ request' = [q \in Handler |->
                       IF q = r THEN NoRequest
                       ELSE [request[q] EXCEPT !.raced = @ \/ (request[q].step = "delete" /\ request[q].node = n)]]
      /\ UNCHANGED <<nodes, group, service, polling, key, ops, word, undone, made, lapses>>
  BY DEF AddMember
<1>2. /\ \A q \in Handler : request[q] \in HandlerRow /\ HandlerOK(request[q], nodes, members)
      /\ members \subseteq Node /\ ops \in 0..MaxOps
  BY InventoryFacts
<1>3. n \in Node
  BY <1>1, <1>2 DEF HandlerOK
<1>4. ASSUME NEW q \in Handler \ {r}
      PROVE  request'[q] \in HandlerRow /\ request'[q].step = request[q].step /\ HandlerOK(request'[q], nodes', members')
  <2> DEFINE met == request[q].step = "delete" /\ request[q].node = n
             raced == request[q].raced \/ met
  <2>1. request'[q] = [request[q] EXCEPT !.raced = raced]
    BY <1>1
  <2>2. raced \in BOOLEAN
    OBVIOUS
  <2>3. request'[q].raced <=> raced
    BY <1>2, <2>1 DEF HandlerRow
  <2>4. met <=> request[q].step = "delete" /\ request[q].node = n
    OBVIOUS
  <2>5. raced <=> request[q].raced \/ met
    OBVIOUS
  <2> HIDE DEF raced, met
  <2>6. request'[q] \in HandlerRow
    BY <1>2, <2>1, <2>2 DEF HandlerRow
  <2>7. /\ request'[q].step = request[q].step /\ request'[q].node = request[q].node
        /\ request'[q].ver = request[q].ver /\ request'[q].seen = request[q].seen
    BY <1>2, <2>1 DEF HandlerRow
  <2>8. HandlerOK(request'[q], nodes', members')
    BY <1>1, <1>2, <2>3, <2>4, <2>5, <2>7 DEF HandlerOK
  <2> QED
    BY <2>6, <2>7, <2>8
<1>5. request'[r] = NoRequest
  BY <1>1
<1>6. HandlersOK'
  BY <1>4, <1>5, NoRequestRow DEF HandlersOK
<1>7. request' \in [Handler -> HandlerRow]
  <2>1. \A q \in Handler : request'[q] \in HandlerRow
    BY <1>4, <1>5, NoRequestRow
  <2>2. request' = [q \in Handler |-> request'[q]]
    BY <1>1
  <2> QED
    BY <2>1, <2>2
<1>8. InventoryTypeOK'
  BY <1>1, <1>2, <1>3, <1>7 DEF InventoryInv, InventoryTypeOK, HandlerRow, HandlerSteps
<1>9. KeyOK'
  BY <1>1, <1>4, <1>5, NoRequestRow, KeyStays
<1>10. NodesOK' /\ ~undone' /\ (service' => group')
  BY <1>1 DEF InventoryInv, NodesOK
<1> QED
  BY <1>6, <1>8, <1>9, <1>10 DEF InventoryInv

\* Steps that are no request's and change a node: Maintain, the poll's answer and
\* the stale mark.
LEMMA NodeStep ==
  ASSUME InventoryInv,
         \/ \E n \in Node, on \in BOOLEAN : Maintain(n, on)
         \/ \E s \in {"healthy", "unknown", "unhealthy"} : Answer(s)
         \/ \E n \in Node : MarkStale(n)
  PROVE  InventoryInv'
<1>0. /\ nodes \in [Node -> NodeRow] /\ word \in [Node -> Status] /\ ops \in 0..MaxOps
      /\ \A n \in Node : nodes[n] \in NodeRow /\ NodeOK(nodes[n], word[n])
      /\ polling \in Node \cup {Nil}
  BY InventoryFacts
<1>1. group \in BOOLEAN /\ service \in BOOLEAN /\ (service => group)
  BY InventoryFlags
<1>2. ASSUME NEW n \in Node, NEW on \in BOOLEAN, Maintain(n, on)
      PROVE  InventoryInv'
  <2> DEFINE set == IF on THEN "maintenance" ELSE "unknown"
             row == [nodes[n] EXCEPT !.status = set, !.version = nodes[n].version + 1]
  <2>1. /\ nodes' = [nodes EXCEPT ![n].status = set, ![n].version = @ + 1] /\ Counts
        /\ word' = [word EXCEPT ![n] = set]
        /\ UNCHANGED <<members, group, service, request, polling, key, undone, made, lapses>>
    BY <1>2 DEF Maintain
  <2>2. nodes' = [nodes EXCEPT ![n] = row]
    BY <1>0, <2>1 DEF NodeRow
  <2>3. set \in Status
    BY DEF Status
  <2> HIDE DEF set
  <2>4. nodes[n].version \in Nat /\ nodes[n].version + 1 \in Nat
    BY <1>0 DEF NodeRow
  <2>5. row \in NodeRow
    BY <1>0, <2>3, <2>4 DEF NodeRow
  <2>6. row.status = set /\ row.version = nodes[n].version + 1
    BY <1>0 DEF NodeRow
  <2>7. row.exists = nodes[n].exists
    BY <1>0 DEF NodeRow
  <2>8. nodes[n].exists
    BY <1>2 DEF Maintain
  <2> HIDE DEF row
  <2>9. word' \in [Node -> Status] /\ word'[n] = set /\ \A m \in Node \ {n} : word'[m] = word[m]
    BY <1>0, <2>1, <2>3
  <2>10. row.version # 0 /\ row.version > nodes[n].version
    BY <2>4, <2>6
  <2>11. NodeOK(row, word'[n])
    BY <2>6, <2>7, <2>8, <2>9, <2>10 DEF NodeOK
  <2>12. nodes' \in [Node -> NodeRow] /\ NodesOK' /\ \A m \in Node : Grows(m)
    BY <2>2, <2>5, <2>9, <2>10, <2>11, NodeMoves
  <2>13. ops' \in 0..MaxOps
    BY <2>1, OpsCounted
  <2> QED
    BY <1>0, <1>1, <2>1, <2>9, <2>12, <2>13, OthersGoOn
<1>3. ASSUME NEW n \in Node, NEW new \in Status, nodes[n].status # "maintenance",
             nodes' = [nodes EXCEPT ![n].status = new],
             polling' \in Node \cup {Nil},
             UNCHANGED <<members, group, service, request, key, ops, word, undone, made, lapses>>
      PROVE  InventoryInv'
  <2> DEFINE row == [nodes[n] EXCEPT !.status = new]
  <2>1. nodes' = [nodes EXCEPT ![n] = row]
    BY <1>0, <1>3
  <2>2. row \in NodeRow
    BY <1>0 DEF NodeRow
  <2>3. row.version = nodes[n].version /\ row.content = nodes[n].content
    BY <1>0 DEF NodeRow
  <2>4. row.exists = nodes[n].exists
    BY <1>0 DEF NodeRow
  <2> HIDE DEF row
  <2>5. NodeOK(row, word'[n])
    BY <1>0, <1>3, <2>3, <2>4 DEF NodeOK
  <2>6. nodes' \in [Node -> NodeRow] /\ NodesOK' /\ \A m \in Node : Grows(m)
    BY <1>0, <1>3, <2>1, <2>2, <2>3, <2>5, NodeMoves
  <2> QED
    BY <1>0, <1>1, <1>3, <2>6, OthersGoOn
<1>4. ASSUME NEW s \in {"healthy", "unknown", "unhealthy"}, Answer(s)
      PROVE  InventoryInv'
  <2>1. /\ polling \in Node /\ polling' = Nil
        /\ UNCHANGED <<members, group, service, request, key, ops, word, undone, made, lapses>>
    BY <1>0, <1>4 DEF Answer
  <2>2. CASE nodes[polling].exists /\ nodes[polling].status # "maintenance"
    BY <1>3, <1>4, <2>1, <2>2 DEF Answer, Status
  <2>3. CASE ~(nodes[polling].exists /\ nodes[polling].status # "maintenance")
    <3>1. nodes' = nodes
      BY <1>4, <2>3 DEF Answer
    <3>2. /\ nodes' \in [Node -> NodeRow] /\ NodesOK' /\ word' \in [Node -> Status]
          /\ \A m \in Node : Grows(m)
      BY <2>1, <3>1, NodesStay
    <3> QED
      BY <1>0, <1>1, <2>1, <3>2, OthersGoOn
  <2> QED
    BY <2>2, <2>3
<1>5. ASSUME NEW n \in Node, MarkStale(n)
      PROVE  InventoryInv'
  BY <1>0, <1>3, <1>5 DEF MarkStale, Status
<1> QED
  BY <1>2, <1>4, <1>5

\* The operations that are one statement.
LEMMA PlainStep ==
  ASSUME InventoryInv,
         \/ \E n \in Node : Ask(n) \/ RemoveMember(n)
         \/ CreateGroup \/ CreateService \/ DeleteService
  PROVE  InventoryInv'
<1>1. /\ UNCHANGED <<nodes, request, key, word, undone, made, lapses>> /\ members' \subseteq members
  BY DEF Ask, RemoveMember, CreateGroup, CreateService, DeleteService
<1>2. polling' \in Node \cup {Nil}
  BY InventoryFacts DEF Ask, RemoveMember, CreateGroup, CreateService, DeleteService
<1>3. ops' \in 0..MaxOps
  <2>1. ops' = ops \/ Counts
    BY DEF Ask, RemoveMember, CreateGroup, CreateService, DeleteService
  <2> QED
    BY <2>1, InventoryFacts, OpsCounted
<1>4. group' \in BOOLEAN /\ service' \in BOOLEAN /\ (service' => group')
  <2>1. CASE CreateGroup
    <3>1. group' = TRUE /\ service' = service
      BY <2>1 DEF CreateGroup
    <3> QED
      BY <3>1, InventoryFlags
  <2>2. CASE CreateService
    <3>1. group /\ group' = group /\ service' = TRUE
      BY <2>2 DEF CreateService
    <3> QED
      BY <3>1, InventoryFlags
  <2>3. CASE DeleteService
    <3>1. service' = FALSE /\ group' = group
      BY <2>3 DEF DeleteService
    <3> QED
      BY <3>1, InventoryFlags
  <2>4. CASE \E n \in Node : Ask(n) \/ RemoveMember(n)
    <3>1. service' = service /\ group' = group
      BY <2>4 DEF Ask, RemoveMember
    <3> QED
      BY <3>1, InventoryFlags
  <2> QED
    BY <2>1, <2>2, <2>3, <2>4
<1>5. /\ nodes' \in [Node -> NodeRow] /\ NodesOK' /\ word' \in [Node -> Status]
      /\ \A m \in Node : Grows(m)
  BY <1>1, NodesStay
<1> QED
  BY <1>1, <1>2, <1>3, <1>4, <1>5, OthersGoOn

\* A version of a node stands for its content, a node in maintenance stays so,
\* and a node made with the key has its request or its key.
THEOREM InventoryInvariant == InventorySpec => []InventoryInv
<1>1. InventoryInit => InventoryInv
  <2> SUFFICES ASSUME InventoryInit PROVE InventoryInv
    OBVIOUS
  <2>1. request \in [Handler -> HandlerRow] /\ \A r \in Handler : request[r] = NoRequest
    BY NoRequestRow DEF InventoryInit
  <2>2. NoNode \in NodeRow
    BY DEF NoNode, NodeRow, Status
  <2>3. ~NoNode.exists
    BY DEF NoNode
  <2>4. nodes \in [Node -> NodeRow] /\ word \in [Node -> Status]
        /\ \A n \in Node : nodes[n] = NoNode /\ word[n] = "unknown"
    BY <2>2 DEF InventoryInit, Status
  <2>5. InventoryTypeOK
    <3>1. /\ group \in BOOLEAN /\ service \in BOOLEAN /\ key \in BOOLEAN
          /\ undone \in BOOLEAN
      BY DEF InventoryInit
    <3>2. members \subseteq Node /\ polling \in Node \cup {Nil} /\ made \in Nat /\ lapses \in Nat
      BY DEF InventoryInit
    <3>3. ops \in 0..MaxOps
      BY InventoryAssumption DEF InventoryInit
    <3>4. nodes \in [Node -> [exists : BOOLEAN, content : Nat, version : Nat, status : Status]]
      BY <2>4 DEF NodeRow
    <3>5. request \in [Handler -> [step : {"idle", "edit", "create", "store", "delete", "add", "drop"},
                                  node : Node \cup {Nil}, seen : Nat, ver : Nat, raced : BOOLEAN]]
      BY <2>1 DEF HandlerRow, HandlerSteps
    <3> QED
      BY <2>4, <3>1, <3>2, <3>3, <3>4, <3>5 DEF InventoryTypeOK
  <2>6. NodesOK
    BY <2>3, <2>4 DEF NodesOK, NodeOK
  <2>7. HandlersOK
    BY <2>1, NoRequestRow DEF HandlersOK
  <2>8. KeyOK
    <3>1. Creators = {} /\ Cardinality({}) = 0
      BY <2>1, NoRequestRow, FS_EmptySet DEF Creators
    <3> QED
      BY <3>1 DEF InventoryInit, KeyOK
  <2> QED
    BY <2>5, <2>6, <2>7, <2>8 DEF InventoryInit, InventoryInv
<1>2. ASSUME InventoryInv, [InventoryNext]_inventoryVars
      PROVE  InventoryInv'
  <2>1. ASSUME NEW r \in Handler, NEW n \in Node, CheckNode(r, n)
        PROVE  InventoryInv'
    BY <1>2, <2>1, InventoryFlags, BeginStep DEF CheckNode
  <2>2. ASSUME NEW r \in Handler, NEW n \in Node, CheckRole(r, n)
        PROVE  InventoryInv'
    BY <1>2, <2>2, InventoryFlags, BeginStep DEF CheckRole
  <2>3. ASSUME NEW r \in Handler, CheckGroup(r)
        PROVE  InventoryInv'
    BY <1>2, <2>3, InventoryFlags, BeginStep DEF CheckGroup
  <2>4. ASSUME NEW r \in Handler,
               \E e \in {0, request[r].ver}, s \in {"same", "maintenance", "unknown"} : Patch(r, e, s)
        PROVE  InventoryInv'
    BY <1>2, <2>4, PatchStep DEF PatchedStatus
  <2>5. CASE UNCHANGED inventoryVars
    BY <1>2, <2>5
       DEF inventoryVars, InventoryInv, InventoryTypeOK, NodesOK, HandlersOK, KeyOK, InFlight, Creators, KeyHeld
  <2> QED
    BY <1>2, <2>1, <2>2, <2>3, <2>4, <2>5, LookUpStep, LoadStep, StoreStep, DeleteNodeStep,
       DeleteGroupStep, InsertNodeStep, PanelDiesStep, AbandonStep, ExpireStep, AddMemberStep, NodeStep, PlainStep
       DEF InventoryNext
<1> QED
  BY <1>1, <1>2, PTL DEF InventorySpec

\* What an operator decided about a node, its group or its service stands until
\* an operator changes it.
THEOREM OperatorsDecide == InventorySpec => []OperatorsWordStands
<1>1. InventoryInv => OperatorsWordStands
  BY DEF InventoryInv, NodesOK, NodeOK, OperatorsWordStands
<1> QED
  BY <1>1, InventoryInvariant, PTL

\* A request repeated with its idempotency key creates its node once, and every
\* node beyond the first is owed to a lapse of the key.
THEOREM KeyCreatesOnce == InventorySpec => []CreatedOnce
<1>1. InventoryInv => CreatedOnce
  <2>1. Cardinality(Creators) \in Nat
    BY InventoryAssumption, FS_Subset, FS_CardinalityType DEF Creators
  <2> QED
    BY <2>1, InventoryFacts DEF InventoryInv, KeyOK, CreatedOnce
<1> QED
  BY <1>1, InventoryInvariant, PTL

-----------------------------------------------------------------------------
\* Backup and restore.

Owner == Panel \cup {"none", "torn"}
BusySteps == {"load", "clear", "create", "fill"}
ArchiveRow == [db : Panel \cup {"mixed"}, keys : [KeyFile -> Owner], clean : BOOLEAN]
ProcessRow == [state : {"up", "down", "dead"}, keys : [KeyFile -> Owner]]
PackRow == [i : 0..4, listed : SUBSET KeyFile, to : ArchiveRow]
RestoreRow == [step : BusySteps \cup {"idle", "restart", "over"}, i : 0..3,
               from : ArchiveRow, alone : BOOLEAN]
BackupRows ==
  /\ db \in Panel \cup {"mixed"} /\ keys \in [KeyFile -> Owner]
  /\ process \in ProcessRow
  /\ packing \in PackRow
  /\ archives \subseteq ArchiveRow
  /\ restore \in [Restore -> RestoreRow]
  /\ broken \in BOOLEAN

\* What a restore that met no other has done so far to the database d and the
\* keys k.
RestoreOK(d, k, t) ==
  /\ t.step = "load" => t.i = 1
  /\ t.step # "load" => d = t.from.db
  /\ t.step = "clear" => \A j \in 1..3 : j < t.i => k[KeyFiles[j]] = "none"
  /\ t.step = "create" =>
       \A j \in 1..3 : k[KeyFiles[j]] = IF j < t.i THEN t.from.keys[KeyFiles[j]] ELSE "none"
  /\ t.step = "fill" =>
       \A j \in 1..3 :
         /\ j < t.i => k[KeyFiles[j]] = t.from.keys[KeyFiles[j]]
         /\ j > t.i => k[KeyFiles[j]] = "none"
         /\ j = t.i /\ t.from.keys[KeyFiles[j]] = "none" => k[KeyFiles[j]] = "none"
RestoresOK ==
  /\ \A r \in Restore : restore[r].step \in BusySteps =>
       /\ IsUp /\ restore[r].i \in 1..3
       /\ restore[r].alone => Busy = {r} /\ RestoreOK(db, keys, restore[r])
       /\ ~restore[r].alone => broken
  /\ \A r \in Restore : restore[r].step = "restart" => IsUp

\* Between restores the database and the keys are one panel's, and the process
\* has loaded them unless it is down or about to be restarted.
Whole(p) ==
  /\ db = p
  /\ keys = All(p) \/ (p = "new" /\ keys = All("none") /\ process.state = "down")
  /\ process.state # "down" /\ (\A r \in Restore : restore[r].step # "restart") =>
       process.keys = All(p)
AtRest == ~broken /\ Busy = {} => process.state # "dead" /\ \E p \in Panel : Whole(p)

\* A clean backup in progress has seen one panel's database and files.
PackingOK ==
  /\ packing.i # 0 => IsUp
  /\ packing.i # 0 /\ packing.to.clean =>
       /\ Busy = {} /\ packing.to.db \in Panel /\ keys = All(packing.to.db)
       /\ packing.i >= 2 =>
            /\ packing.listed = KeyFile
            /\ \A j \in 1..3 : j < packing.i - 1 =>
                 packing.to.keys[KeyFiles[j]] = packing.to.db
ArchivesOK == \A a \in archives : a.clean => a.keys = All(a.db)

BackupInv == BackupRows /\ RestoresOK /\ AtRest /\ PackingOK /\ ArchivesOK

\* The key files have different names.
LEMMA KeyNames ==
  /\ KeyFiles[1] = "ca" /\ KeyFiles[2] = "manifest-signing" /\ KeyFiles[3] = "panel-client"
  /\ KeyFile = {"ca", "manifest-signing", "panel-client"}
  /\ \A j \in 1..3 : KeyFiles[j] \in KeyFile
  /\ \A i, j \in 1..3 : KeyFiles[i] = KeyFiles[j] => i = j
  /\ \A f \in KeyFile : \E j \in 1..3 : f = KeyFiles[j]
<1>1. KeyFiles[1] = "ca" /\ KeyFiles[2] = "manifest-signing" /\ KeyFiles[3] = "panel-client"
  BY DEF KeyFiles
<1>2. 1..3 = {1, 2, 3}
  OBVIOUS
<1>3. KeyFile = {KeyFiles[1], KeyFiles[2], KeyFiles[3]}
  BY <1>2 DEF KeyFile
<1> QED
  BY <1>1, <1>2, <1>3

\* Keys that agree file by file are one panel's.
LEMMA KeysAgree ==
  ASSUME NEW k \in [KeyFile -> Owner], NEW p, \A j \in 1..3 : k[KeyFiles[j]] = p
  PROVE  k = All(p)
BY KeyNames DEF All

\* The constant rows have their types.
LEMMA BackupRowsThere ==
  /\ \A p \in Panel : Archive(p) \in ArchiveRow /\ Archive(p).keys = All(p) /\ Archive(p).db = p
  /\ NotPacking \in PackRow /\ NotPacking.i = 0
  /\ NotRestoring \in RestoreRow /\ NotRestoring.step = "idle"
  /\ Served \in RestoreRow /\ Served.step = "over"
  /\ \A o \in Owner : All(o) \in [KeyFile -> Owner]
<1>1. \A o \in Owner : All(o) \in [KeyFile -> Owner]
  BY DEF All
<1>2. \A p \in Panel : Archive(p) \in ArchiveRow /\ Archive(p).keys = All(p) /\ Archive(p).db = p
  BY <1>1 DEF Archive, ArchiveRow, Owner
<1>3. NotPacking \in PackRow /\ NotPacking.i = 0
  BY <1>2 DEF NotPacking, PackRow, Panel
<1>4. NotRestoring \in RestoreRow /\ NotRestoring.step = "idle"
  BY <1>2 DEF NotRestoring, RestoreRow, Panel
<1>5. Served \in RestoreRow /\ Served.step = "over"
  BY <1>4 DEF Served, RestoreRow
<1> QED
  BY <1>1, <1>2, <1>3, <1>4, <1>5

\* The types of backup and restore.
LEMMA BackupFacts ==
  ASSUME BackupInv
  PROVE  /\ db \in Panel \cup {"mixed"} /\ keys \in [KeyFile -> Owner]
         /\ process \in ProcessRow /\ packing \in PackRow /\ archives \subseteq ArchiveRow
         /\ restore \in [Restore -> RestoreRow] /\ broken \in BOOLEAN
         /\ \A r \in Restore : r \in Busy <=> restore[r].step \in BusySteps
         /\ Busy \subseteq Restore
BY DEF BackupInv, BackupRows, Busy, BusySteps

\* The steps of a backup leave all else alone.
LEMMA PackStep ==
  ASSUME BackupInv, UNCHANGED <<db, keys, process, restore, stops, broken>>,
         packing' \in PackRow, archives' \subseteq ArchiveRow, PackingOK', ArchivesOK'
  PROVE  BackupInv'
<1>1. Busy' = Busy
  BY DEF Busy
<1>2. RestoresOK'
  BY <1>1 DEF BackupInv, RestoresOK, IsUp
<1>3. AtRest'
  BY <1>1 DEF BackupInv, AtRest, Whole
<1> QED
  BY <1>2, <1>3 DEF BackupInv, BackupRows

\* A backup begun between whole restores dumps one panel ...
LEMMA DumpStep ==
  ASSUME BackupInv, Dump
  PROVE  BackupInv'
<1>1. /\ packing'.i = 1 /\ packing'.to.db = db /\ IsUp
      /\ (packing'.to.clean => ~broken /\ Busy = {})
  BY DEF Dump, NotPacking, Archive
<1>2. packing' \in PackRow
  <2>1. (~broken /\ Busy = {}) \in BOOLEAN
    OBVIOUS
  <2>2. All("this") \in [KeyFile -> Owner] /\ db \in Panel \cup {"mixed"}
    BY BackupFacts, BackupRowsThere DEF Owner, Panel
  <2> DEFINE dumped == [db |-> db, keys |-> All("this"), clean |-> ~broken /\ Busy = {}]
  <2>3. dumped \in ArchiveRow
    BY <2>1, <2>2 DEF ArchiveRow
  <2>4. packing' = [i |-> 1, listed |-> {}, to |-> dumped]
    BY DEF Dump, NotPacking, Archive
  <2> HIDE DEF dumped
  <2> QED
    BY <2>3, <2>4 DEF PackRow
<1>3. UNCHANGED <<db, keys, process, archives, restore, stops, broken>>
  BY DEF Dump
<1>4. PackingOK'
  <2>1. Busy' = Busy
    BY <1>3 DEF Busy
  <2>2. ASSUME ~broken, Busy = {}
        PROVE  db \in Panel /\ keys = All(db)
    BY <1>1, <2>2 DEF BackupInv, AtRest, Whole, IsUp
  <2> QED
    BY <1>1, <1>3, <2>1, <2>2 DEF PackingOK, IsUp
<1>5. ArchivesOK'
  BY <1>3 DEF BackupInv, ArchivesOK
<1> QED
  BY <1>2, <1>3, <1>4, <1>5, BackupFacts, PackStep

\* ... lists all of its files ...
LEMMA ListStep ==
  ASSUME BackupInv, List
  PROVE  BackupInv'
<1>1. /\ packing.i = 1 /\ packing'.i = 2 /\ packing'.to.db = packing.to.db
      /\ packing'.to.clean = packing.to.clean
      /\ packing'.listed = {f \in KeyFile : keys[f] # "none"}
  BY BackupFacts DEF List, PackRow, ArchiveRow
<1>2. packing' \in PackRow
  <2>1. All("none") \in [KeyFile -> Owner] /\ packing \in PackRow
    BY BackupFacts, BackupRowsThere DEF Owner
  <2> DEFINE empty == [packing.to EXCEPT !.keys = All("none")]
  <2>2. empty \in ArchiveRow
    BY <2>1 DEF PackRow, ArchiveRow
  <2>3. packing' = [packing EXCEPT !.i = 2, !.listed = {f \in KeyFile : keys[f] # "none"}, !.to = empty]
    BY <2>1 DEF List, PackRow
  <2>4. {f \in KeyFile : keys[f] # "none"} \in SUBSET KeyFile /\ 2 \in 0..4
    OBVIOUS
  <2>5. packing' = [i |-> 2, listed |-> {f \in KeyFile : keys[f] # "none"}, to |-> empty]
    BY <2>1, <2>3 DEF PackRow
  <2> HIDE DEF empty
  <2> QED
    BY <2>2, <2>4, <2>5 DEF PackRow
<1>3. UNCHANGED <<db, keys, process, archives, restore, stops, broken>>
  BY DEF List
<1>4. PackingOK'
  <2>1. Busy' = Busy
    BY <1>3 DEF Busy
  <2>2. IsUp
    BY <1>1 DEF BackupInv, PackingOK
  <2>3. ASSUME packing.to.clean
        PROVE  /\ Busy = {} /\ packing.to.db \in Panel /\ keys = All(packing.to.db)
               /\ packing'.listed = KeyFile
    <3>1. Busy = {} /\ packing.to.db \in Panel /\ keys = All(packing.to.db)
      BY <1>1, <2>3 DEF BackupInv, PackingOK
    <3>2. \A f \in KeyFile : keys[f] # "none"
      BY <3>1 DEF All, Panel
    <3> QED
      BY <1>1, <3>1, <3>2
  <2>4. \A j \in 1..3 : ~(j < 1)
    OBVIOUS
  <2> QED
    BY <1>1, <1>3, <2>1, <2>2, <2>3, <2>4 DEF PackingOK, IsUp
<1>5. ArchivesOK'
  BY <1>3 DEF BackupInv, ArchivesOK
<1> QED
  BY <1>2, <1>3, <1>4, <1>5, BackupFacts, PackStep

\* ... and packs each of them, unless a restore has begun.
LEMMA PackFileStep ==
  ASSUME BackupInv, PackFile
  PROVE  BackupInv'
<1> DEFINE f == KeyFiles[packing.i - 1]
           owner == IF f \in packing.listed THEN keys[f] ELSE "none"
           packed == [packing.to EXCEPT !.keys[f] = owner]
           gone == f \in packing.listed /\ keys[f] = "none"
           last == packing.i = 4
<1>1. packing.i \in 2..4 /\ packing.i - 1 \in 1..3 /\ f \in KeyFile
  <2>1. packing.i \in 2..4
    BY DEF PackFile
  <2>2. packing.i - 1 \in 1..3
    BY <2>1
  <2> QED
    BY <2>1, <2>2, KeyNames
<1>2. owner \in Owner
  BY <1>1, BackupFacts DEF Owner
<1>3. /\ packed \in ArchiveRow /\ packed.db = packing.to.db /\ packed.clean = packing.to.clean
      /\ packed.keys = [packing.to.keys EXCEPT ![f] = owner]
  <2>1. packing.to \in ArchiveRow
    BY BackupFacts DEF PackRow
  <2> QED
    BY <1>1, <1>2, <2>1 DEF ArchiveRow
<1>4. ASSUME packing.to.clean
      PROVE  /\ Busy = {} /\ packing.to.db \in Panel /\ keys = All(packing.to.db)
             /\ packing.listed = KeyFile /\ ~gone
             /\ \A j \in 1..3 : j < packing.i => packed.keys[KeyFiles[j]] = packing.to.db
  <2>1. packing.i # 0 /\ packing.i >= 2
    BY <1>1
  <2>2. /\ Busy = {} /\ packing.to.db \in Panel /\ keys = All(packing.to.db)
        /\ packing.listed = KeyFile
        /\ \A j \in 1..3 : j < packing.i - 1 => packing.to.keys[KeyFiles[j]] = packing.to.db
    BY <1>4, <2>1 DEF BackupInv, PackingOK
  <2>3. owner = packing.to.db /\ ~gone
    BY <1>1, <2>2 DEF All, Panel
  <2>4. ASSUME NEW j \in 1..3, j < packing.i
        PROVE  packed.keys[KeyFiles[j]] = packing.to.db
    <3>0. packing.to.keys \in [KeyFile -> Owner]
      BY BackupFacts DEF PackRow, ArchiveRow
    <3>1. CASE j = packing.i - 1
      BY <1>1, <1>3, <2>3, <3>0, <3>1
    <3>2. CASE j < packing.i - 1
      <4>1. KeyFiles[j] # f /\ KeyFiles[j] \in KeyFile
        BY <1>1, <3>2, KeyNames
      <4> QED
        BY <1>3, <2>2, <3>0, <3>2, <4>1
    <3> QED
      BY <1>1, <2>4, <3>1, <3>2
  <2> QED
    BY <2>2, <2>3, <2>4
<1>5. UNCHANGED <<db, keys, process, restore, stops, broken>>
  BY DEF PackFile
<1>6. packing' = IF gone \/ last THEN NotPacking ELSE [packing EXCEPT !.i = @ + 1, !.to = packed]
  BY DEF PackFile
<1>7. archives' = IF last /\ ~gone THEN archives \cup {packed} ELSE archives
  BY DEF PackFile
<1>8. IsUp
  BY <1>1 DEF BackupInv, PackingOK
<1> HIDE DEF f, owner, packed, gone, last
<1>9. packing' \in PackRow /\ PackingOK'
  <2>0. Busy' = Busy
    BY <1>5 DEF Busy
  <2>1. CASE gone \/ last
    <3>1. packing' = NotPacking
      BY <1>6, <2>1
    <3> QED
      BY <3>1, BackupRowsThere DEF PackingOK
  <2>2. CASE ~(gone \/ last)
    <3>1. packing' = [packing EXCEPT !.i = @ + 1, !.to = packed]
      BY <1>6, <2>2
    <3>2. packing.i + 1 \in 3..4
      BY <1>1, <2>2 DEF last
    <3>3. packing' \in PackRow
      <4>1. packing.i + 1 \in 0..4
        BY <3>2
      <4>2. packing \in PackRow /\ packed \in ArchiveRow
        BY <1>3, BackupFacts
      <4> QED
        BY <3>1, <4>1, <4>2 DEF PackRow
    <3>4. /\ packing'.i = packing.i + 1 /\ packing'.to = packed
          /\ packing'.listed = packing.listed
      BY <3>1, BackupFacts DEF PackRow
    <3>5. ASSUME packing.to.clean
          PROVE  \A j \in 1..3 : j < packing'.i - 1 => packing'.to.keys[KeyFiles[j]] = packing'.to.db
      <4>1. packing'.i - 1 = packing.i
        BY <1>1, <3>4
      <4> QED
        BY <1>3, <1>4, <3>4, <3>5, <4>1
    <3>6. PackingOK'
      BY <1>3, <1>4, <1>5, <1>8, <2>0, <3>4, <3>5 DEF PackingOK, IsUp
    <3> QED
      BY <3>3, <3>6
  <2> QED
    BY <2>1, <2>2
<1>10. archives' \subseteq ArchiveRow /\ ArchivesOK'
  <2>1. ASSUME last, packed.clean
        PROVE  packed.keys = All(packed.db)
    <3>1. packing.to.clean /\ packed.db = packing.to.db /\ packing.i = 4
      BY <1>3, <2>1 DEF last
    <3>2. \A j \in 1..3 : packed.keys[KeyFiles[j]] = packed.db
      BY <1>4, <3>1
    <3>3. packed.keys \in [KeyFile -> Owner]
      BY <1>3 DEF ArchiveRow
    <3> QED
      BY <3>2, <3>3, KeysAgree
  <2> QED
    BY <1>3, <1>7, <2>1, BackupFacts DEF BackupInv, ArchivesOK
<1> QED
  BY <1>5, <1>9, <1>10, PackStep

\* A restore that has begun goes a step on.
LEMMA BusyStep ==
  ASSUME BackupInv, NEW r \in Restore, NEW t \in RestoreRow,
         restore[r].step \in BusySteps, t.step \in BusySteps, t.i \in 1..3,
         t.alone = restore[r].alone,
         restore' = [restore EXCEPT ![r] = t],
         UNCHANGED <<process, packing, archives, stops, broken>>,
         db' \in Panel \cup {"mixed"}, keys' \in [KeyFile -> Owner],
         t.alone => RestoreOK(db', keys', t)
  PROVE  BackupInv'
<1>1. /\ restore' \in [Restore -> RestoreRow] /\ restore'[r] = t
      /\ \A x \in Restore : x # r => restore'[x] = restore[x]
  BY BackupFacts
<1>2. Busy' = Busy /\ r \in Busy
  BY <1>1 DEF Busy, BusySteps
<1>3. BackupRows'
  BY <1>1 DEF BackupInv, BackupRows
<1>4. IsUp /\ IsUp'
  BY DEF BackupInv, RestoresOK, IsUp
<1>5. RestoresOK'
  <2>1. ASSUME NEW x \in Restore, restore'[x].step \in BusySteps
        PROVE  /\ restore'[x].i \in 1..3
               /\ restore'[x].alone => Busy' = {x} /\ RestoreOK(db', keys', restore'[x])
               /\ ~restore'[x].alone => broken'
    <3>1. CASE x = r
      BY <1>1, <1>2, <3>1 DEF BackupInv, RestoresOK
    <3>2. CASE x # r
      <4>1. restore'[x] = restore[x] /\ Busy # {x}
        BY <1>1, <1>2, <3>2
      <4> QED
        BY <2>1, <4>1 DEF BackupInv, RestoresOK
    <3> QED
      BY <3>1, <3>2
  <2>2. \A x \in Restore : restore'[x].step = "restart" => IsUp'
    BY <1>4
  <2> QED
    BY <1>4, <2>1, <2>2 DEF RestoresOK
<1>6. AtRest' /\ PackingOK'
  BY <1>2, <1>4 DEF BackupInv, AtRest, PackingOK
<1>7. ArchivesOK'
  BY DEF BackupInv, ArchivesOK
<1> QED
  BY <1>3, <1>5, <1>6, <1>7 DEF BackupInv

\* A restore that meets another is not alone, nor is the other any more.
LEMMA RestoreBeginsStep ==
  ASSUME BackupInv, NEW r \in Restore, NEW a \in archives, RestoreBegins(r, a)
  PROVE  BackupInv'
<1> DEFINE t == [step |-> "load", i |-> 1, from |-> a, alone |-> Busy = {}]
<1>1. /\ \A x \in Restore : restore'[x] = IF x = r THEN t ELSE [restore[x] EXCEPT !.alone = @ /\ x \notin Busy]
      /\ restore' = [x \in Restore |-> restore'[x]]
  BY DEF RestoreBegins
<1>2. t \in RestoreRow /\ t.step = "load" /\ t.i = 1 /\ (t.alone <=> Busy = {})
  <2>1. a \in ArchiveRow /\ (Busy = {}) \in BOOLEAN
    BY BackupFacts
  <2>2. t.step = "load" /\ t.i = 1 /\ t.alone = (Busy = {})
    OBVIOUS
  <2>3. ASSUME NEW al \in BOOLEAN
        PROVE  [step |-> "load", i |-> 1, from |-> a, alone |-> al] \in RestoreRow
    BY <2>1 DEF RestoreRow, BusySteps
  <2>4. t \in RestoreRow
    BY <2>1, <2>3
  <2> QED
    BY <2>2, <2>4
<1>3. ASSUME NEW x \in Restore, x # r
      PROVE  /\ restore'[x] \in RestoreRow /\ restore'[x].step = restore[x].step
             /\ restore'[x].i = restore[x].i
             /\ (restore'[x].alone => x \notin Busy)
  <2>1. restore[x] \in RestoreRow /\ restore'[x] = [restore[x] EXCEPT !.alone = @ /\ x \notin Busy]
    BY <1>1, <1>3, BackupFacts
  <2>2. (restore[x].alone /\ x \notin Busy) \in BOOLEAN
    OBVIOUS
  <2> QED
    BY <2>1, <2>2 DEF RestoreRow
<1>4. restore'[r] = t
  BY <1>1
<1> HIDE DEF t
<1>5. restore' \in [Restore -> RestoreRow]
  BY <1>1, <1>2, <1>3, <1>4
<1>6. /\ IsUp /\ restore[r].step = "idle" /\ db' = "mixed" /\ broken' = (broken \/ Busy # {})
      /\ packing' = [packing EXCEPT !.to.clean = FALSE]
      /\ UNCHANGED <<keys, process, archives, stops>>
  BY DEF RestoreBegins
<1>7. Busy' = Busy \cup {r}
  <2>1. \A x \in Restore : restore'[x].step \in BusySteps <=> x = r \/ restore[x].step \in BusySteps
    BY <1>2, <1>3, <1>4 DEF BusySteps
  <2> QED
    BY <2>1, BackupFacts DEF Busy, BusySteps
<1>8. /\ packing' \in PackRow /\ packing'.i = packing.i /\ packing'.to.clean = FALSE
  <2>1. [packing.to EXCEPT !.clean = FALSE] \in ArchiveRow /\ packing \in PackRow
    BY BackupFacts DEF PackRow, ArchiveRow
  <2>2. packing' = [packing EXCEPT !.to = [packing.to EXCEPT !.clean = FALSE]]
    BY <1>6, <2>1 DEF PackRow
  <2>3. packing'.to = [packing.to EXCEPT !.clean = FALSE] /\ packing'.i = packing.i
        /\ packing'.listed = packing.listed
    BY <2>1, <2>2 DEF PackRow
  <2>4. packing' \in PackRow
    BY <2>1, <2>2 DEF PackRow
  <2>5. packing.to \in ArchiveRow
    BY <2>1 DEF PackRow
  <2> QED
    BY <2>3, <2>4, <2>5 DEF ArchiveRow
<1>9. BackupRows'
  <2>1. broken' \in BOOLEAN
    BY <1>6
  <2> QED
    BY <1>5, <1>6, <1>8, <2>1, BackupFacts DEF BackupRows
<1>10. RestoresOK'
  <2>0. IsUp'
    BY <1>6 DEF IsUp
  <2>1. RestoreOK(db', keys', t)
    BY <1>2 DEF RestoreOK
  <2>2. ASSUME NEW x \in Restore, restore'[x].step \in BusySteps
        PROVE  /\ restore'[x].i \in 1..3
               /\ restore'[x].alone => Busy' = {x} /\ RestoreOK(db', keys', restore'[x])
               /\ ~restore'[x].alone => broken'
    <3>1. CASE x = r
      <4>1. restore'[x] = t /\ t.i \in 1..3
        BY <1>2, <1>4, <3>1
      <4>2. t.alone => Busy' = {x}
        BY <1>2, <1>7, <3>1
      <4>3. ~t.alone => broken'
        BY <1>2, <1>6
      <4> QED
        BY <2>1, <4>1, <4>2, <4>3
    <3>2. CASE x # r
      <4>1. restore[x].step \in BusySteps /\ x \in Busy
        BY <1>3, <2>2, <3>2, BackupFacts
      <4>2. ~restore'[x].alone /\ restore'[x].i \in 1..3
        BY <1>3, <3>2, <4>1 DEF BackupInv, RestoresOK
      <4>3. broken'
        BY <1>6, <4>1
      <4> QED
        BY <4>2, <4>3
    <3> QED
      BY <3>1, <3>2
  <2> QED
    BY <2>0, <2>2 DEF RestoresOK
<1>11. AtRest' /\ PackingOK'
  <2>1. AtRest'
    BY <1>7 DEF AtRest
  <2>2. PackingOK'
    BY <1>6, <1>8 DEF PackingOK, IsUp
  <2> QED
    BY <2>1, <2>2
<1>12. ArchivesOK'
  BY <1>6 DEF BackupInv, ArchivesOK
<1> QED
  BY <1>9, <1>10, <1>11, <1>12 DEF BackupInv

\* The file a restore is at.
LEMMA FileOf ==
  ASSUME BackupInv, NEW r \in Restore, restore[r].step \in BusySteps
  PROVE  /\ restore[r] \in RestoreRow /\ restore[r].i \in 1..3
         /\ KeyFiles[restore[r].i] \in KeyFile
         /\ restore[r].from \in ArchiveRow
         /\ restore[r].from.keys \in [KeyFile -> Owner]
         /\ restore[r].from.keys[KeyFiles[restore[r].i]] \in Owner
<1>1. restore[r] \in RestoreRow /\ restore[r].i \in 1..3
  BY BackupFacts DEF BackupInv, RestoresOK
<1>2. restore[r].from \in ArchiveRow
  BY <1>1 DEF RestoreRow
<1>3. restore[r].from.keys \in [KeyFile -> Owner]
  BY <1>2 DEF ArchiveRow
<1> QED
  BY <1>1, <1>2, <1>3, KeyNames

\* The database is the archive's.
LEMMA DatabaseLoadedStep ==
  ASSUME BackupInv, NEW r \in Restore, DatabaseLoaded(r)
  PROVE  BackupInv'
<1> DEFINE t == [restore[r] EXCEPT !.step = "clear"]
<1>1. /\ restore[r].step = "load" /\ restore' = [restore EXCEPT ![r] = t]
      /\ db' = restore[r].from.db /\ UNCHANGED <<keys, process, packing, archives, stops, broken>>
  BY BackupFacts DEF DatabaseLoaded, Goes
<1>2. restore[r].step \in BusySteps
  BY <1>1 DEF BusySteps
<1>3. restore[r] \in RestoreRow
  BY <1>2, FileOf
<1>4. t \in RestoreRow
  BY <1>3 DEF RestoreRow, BusySteps
<1>5. /\ t.step = "clear" /\ t.i = restore[r].i /\ t.from = restore[r].from
      /\ t.alone = restore[r].alone
  BY <1>3 DEF RestoreRow
<1>6. db' \in Panel \cup {"mixed"} /\ keys' \in [KeyFile -> Owner]
  BY <1>1, <1>2, FileOf, BackupFacts DEF ArchiveRow
<1> HIDE DEF t
<1>7. t.alone => RestoreOK(db', keys', t)
  <2>1. t.alone => restore[r].i = 1
    BY <1>1, <1>2, <1>5 DEF BackupInv, RestoresOK, RestoreOK
  <2> QED
    BY <1>1, <1>5, <2>1 DEF RestoreOK
<1> QED
  BY <1>1, <1>2, <1>4, <1>5, <1>6, <1>7, FileOf, BusyStep DEF BusySteps

\* The files are removed one by one ...
LEMMA ClearFileStep ==
  ASSUME BackupInv, NEW r \in Restore, ClearFile(r)
  PROVE  BackupInv'
<1> DEFINE x == restore[r]
           f == KeyFiles[x.i]
           t == IF x.i < 3 THEN [x EXCEPT !.i = x.i + 1] ELSE [x EXCEPT !.step = "create", !.i = 1]
<1>1. /\ x.step = "clear" /\ restore' = [restore EXCEPT ![r] = t]
      /\ keys' = [keys EXCEPT ![f] = "none"]
      /\ UNCHANGED <<db, process, packing, archives, stops, broken>>
  BY BackupFacts DEF ClearFile, Forth
<1>2. x.step \in BusySteps
  BY <1>1 DEF BusySteps
<1>3. x \in RestoreRow /\ x.i \in 1..3 /\ f \in KeyFile
  BY <1>2, FileOf
<1>4. keys' \in [KeyFile -> Owner] /\ db' \in Panel \cup {"mixed"}
  BY <1>1, <1>3, BackupFacts DEF Owner
<1>5. t \in RestoreRow
  <2>1. CASE x.i < 3
    <3>1. x.i + 1 \in 0..3 /\ t = [x EXCEPT !.i = x.i + 1]
      BY <1>3, <2>1
    <3> QED
      BY <1>3, <3>1 DEF RestoreRow
  <2>2. CASE ~(x.i < 3)
    <3>1. t = [x EXCEPT !.step = "create", !.i = 1] /\ 1 \in 0..3
      BY <2>2
    <3> QED
      BY <1>3, <3>1 DEF RestoreRow, BusySteps
  <2> QED
    BY <2>1, <2>2
<1>6. /\ t.from = x.from /\ t.alone = x.alone
      /\ x.i < 3 => t.step = "clear" /\ t.i = x.i + 1
      /\ ~(x.i < 3) => t.step = "create" /\ t.i = 1
  BY <1>1, <1>3 DEF RestoreRow
<1>7. ASSUME x.alone
      PROVE  /\ db' = x.from.db
             /\ \A j \in 1..3 : j <= x.i => keys'[KeyFiles[j]] = "none"
  <2>1. db = x.from.db /\ \A j \in 1..3 : j < x.i => keys[KeyFiles[j]] = "none"
    BY <1>1, <1>2, <1>7 DEF BackupInv, RestoresOK, RestoreOK
  <2>2. ASSUME NEW j \in 1..3, j <= x.i
        PROVE  keys'[KeyFiles[j]] = "none"
    <3>1. KeyFiles[j] \in KeyFile
      BY KeyNames
    <3>2. j < x.i \/ j = x.i
      BY <1>3, <2>2
    <3> QED
      BY <1>1, <1>3, <2>1, <3>1, <3>2, BackupFacts
  <2> QED
    BY <1>1, <2>1, <2>2
<1> HIDE DEF x, f, t
<1>8. t.alone => RestoreOK(db', keys', t)
  <2>1. CASE x.i < 3
    BY <1>3, <1>6, <1>7, <2>1 DEF RestoreOK
  <2>2. CASE ~(x.i < 3)
    BY <1>3, <1>6, <1>7, <2>2 DEF RestoreOK
  <2> QED
    BY <2>1, <2>2
<1>9. t.step \in BusySteps /\ t.i \in 1..3
  BY <1>3, <1>6 DEF BusySteps
<1> QED
  BY <1>1, <1>2, <1>4, <1>5, <1>6, <1>8, <1>9, BusyStep DEF x

\* ... created one by one ...
LEMMA CreateFileStep ==
  ASSUME BackupInv, NEW r \in Restore, CreateFile(r)
  PROVE  BackupInv'
<1> DEFINE x == restore[r]
           f == KeyFiles[x.i]
           t == [x EXCEPT !.step = "fill"]
<1>1. /\ x.step = "create" /\ restore' = [restore EXCEPT ![r] = t]
      /\ keys' = IF x.from.keys[f] = "none" THEN keys ELSE [keys EXCEPT ![f] = "torn"]
      /\ UNCHANGED <<db, process, packing, archives, stops, broken>>
  BY BackupFacts DEF CreateFile, Goes
<1>2. x.step \in BusySteps
  BY <1>1 DEF BusySteps
<1>3. x \in RestoreRow /\ x.i \in 1..3 /\ f \in KeyFile
  BY <1>2, FileOf
<1>4. keys' \in [KeyFile -> Owner] /\ db' \in Panel \cup {"mixed"}
  BY <1>1, <1>3, BackupFacts DEF Owner
<1>5. t \in RestoreRow
  BY <1>3 DEF RestoreRow, BusySteps
<1>6. t.from = x.from /\ t.alone = x.alone /\ t.step = "fill" /\ t.i = x.i
  BY <1>3 DEF RestoreRow
<1>7. ASSUME x.alone
      PROVE  /\ db' = x.from.db
             /\ \A j \in 1..3 :
                  /\ j < x.i => keys'[KeyFiles[j]] = x.from.keys[KeyFiles[j]]
                  /\ j > x.i => keys'[KeyFiles[j]] = "none"
                  /\ j = x.i /\ x.from.keys[f] = "none" => keys'[KeyFiles[j]] = "none"
  <2>1. /\ db = x.from.db
        /\ \A j \in 1..3 : keys[KeyFiles[j]] = IF j < x.i THEN x.from.keys[KeyFiles[j]] ELSE "none"
    BY <1>1, <1>2, <1>7 DEF BackupInv, RestoresOK, RestoreOK
  <2>2. ASSUME NEW j \in 1..3, j # x.i
        PROVE  keys'[KeyFiles[j]] = keys[KeyFiles[j]]
    <3>1. KeyFiles[j] # f
      BY <1>3, <2>2, KeyNames
    <3> QED
      BY <1>1, <3>1, BackupFacts, KeyNames
  <2>3. x.from.keys[f] = "none" => keys'[f] = keys[f]
    BY <1>1
  <2> QED
    BY <1>1, <1>3, <2>1, <2>2, <2>3
<1>8. t.alone => RestoreOK(db', keys', t)
  BY <1>3, <1>6, <1>7 DEF RestoreOK
<1> HIDE DEF x, f, t
<1>9. t.step \in BusySteps /\ t.i \in 1..3
  BY <1>3, <1>6 DEF BusySteps
<1> QED
  BY <1>1, <1>2, <1>4, <1>5, <1>6, <1>8, <1>9, BusyStep DEF x

\* A file is filled: those up to it are the archive's, if the restore met no other.
LEMMA FilesFilled ==
  ASSUME BackupInv, NEW r \in Restore, FillFile(r)
  PROVE  /\ restore[r].step = "fill" /\ restore[r].step \in BusySteps
         /\ keys' \in [KeyFile -> Owner] /\ db' \in Panel \cup {"mixed"}
         /\ restore[r].alone =>
              /\ db' = restore[r].from.db
              /\ \A j \in 1..3 :
                   keys'[KeyFiles[j]] = IF j <= restore[r].i THEN restore[r].from.keys[KeyFiles[j]]
                                        ELSE "none"
<1> DEFINE x == restore[r]
           f == KeyFiles[x.i]
<1>1. /\ x.step = "fill" /\ db' = db
      /\ keys' = IF x.from.keys[f] = "none" THEN keys ELSE [keys EXCEPT ![f] = x.from.keys[f]]
  BY DEF FillFile
<1>2. x.step \in BusySteps
  BY <1>1 DEF BusySteps
<1>3. x \in RestoreRow /\ x.i \in 1..3 /\ f \in KeyFile /\ x.from.keys[f] \in Owner
  BY <1>2, FileOf
<1>4. keys' \in [KeyFile -> Owner] /\ db' \in Panel \cup {"mixed"}
  BY <1>1, <1>3, BackupFacts
<1>5. ASSUME x.alone
      PROVE  /\ db' = x.from.db
             /\ \A j \in 1..3 :
                  keys'[KeyFiles[j]] = IF j <= x.i THEN x.from.keys[KeyFiles[j]] ELSE "none"
  <2>1. /\ db = x.from.db
        /\ \A j \in 1..3 :
             /\ j < x.i => keys[KeyFiles[j]] = x.from.keys[KeyFiles[j]]
             /\ j > x.i => keys[KeyFiles[j]] = "none"
             /\ j = x.i /\ x.from.keys[KeyFiles[j]] = "none" => keys[KeyFiles[j]] = "none"
    BY <1>1, <1>2, <1>5 DEF BackupInv, RestoresOK, RestoreOK
  <2>2. ASSUME NEW j \in 1..3, j # x.i
        PROVE  keys'[KeyFiles[j]] = keys[KeyFiles[j]]
    <3>1. KeyFiles[j] # f
      BY <1>3, <2>2, KeyNames
    <3> QED
      BY <1>1, <3>1, BackupFacts, KeyNames
  <2>3. keys'[f] = x.from.keys[f]
    BY <1>1, <1>3, <2>1, BackupFacts
  <2>4. ASSUME NEW j \in 1..3
        PROVE  keys'[KeyFiles[j]] = IF j <= x.i THEN x.from.keys[KeyFiles[j]] ELSE "none"
    <3>1. CASE j = x.i
      BY <1>3, <2>3, <3>1
    <3>2. CASE j # x.i
      BY <1>3, <2>1, <2>2, <3>2
    <3> QED
      BY <3>1, <3>2
  <2> QED
    BY <1>1, <2>1, <2>4
<1> QED
  BY <1>1, <1>2, <1>4, <1>5

\* ... and filled; after the last one the database and the files are the
\* archive's, and the process is to be restarted.
LEMMA FillFileStep ==
  ASSUME BackupInv, NEW r \in Restore, FillFile(r)
  PROVE  BackupInv'
<1> DEFINE x == restore[r]
<1>0. x \in RestoreRow /\ x.i \in 1..3 /\ x.step = "fill" /\ x.step \in BusySteps
  BY FilesFilled, FileOf
<1>1. /\ UNCHANGED <<db, process, packing, archives, stops>>
      /\ broken' = IF x.i = 3 /\ x.alone THEN x.from.keys # All(x.from.db) ELSE broken
      /\ restore' = [restore EXCEPT ![r] = IF x.i < 3 THEN [x EXCEPT !.i = x.i + 1, !.step = "create"]
                                           ELSE [x EXCEPT !.step = "restart"]]
  BY DEF FillFile
<1>2. CASE x.i < 3
  <2> DEFINE t == [x EXCEPT !.i = x.i + 1, !.step = "create"]
  <2>1. x.i + 1 \in 0..3 /\ x.i + 1 \in 1..3
    BY <1>0, <1>2
  <2>2. t \in RestoreRow
    BY <1>0, <2>1 DEF RestoreRow, BusySteps
  <2>3. t.from = x.from /\ t.alone = x.alone /\ t.step = "create" /\ t.i = x.i + 1
    BY <1>0 DEF RestoreRow
  <2>4. restore' = [restore EXCEPT ![r] = t] /\ broken' = broken
    BY <1>1, <1>2
  <2> HIDE DEF t
  <2>5. t.alone => RestoreOK(db', keys', t)
    <3>1. \A j \in 1..3 : j <= x.i <=> j < t.i
      BY <1>0, <2>3
    <3> QED
      BY <2>3, <3>1, FilesFilled DEF RestoreOK
  <2>6. t.step \in BusySteps /\ t.i \in 1..3
    BY <2>1, <2>3 DEF BusySteps
  <2> QED
    BY <1>0, <1>1, <2>2, <2>3, <2>4, <2>5, <2>6, FilesFilled, BusyStep
<1>3. CASE ~(x.i < 3)
  <2> DEFINE t == [x EXCEPT !.step = "restart"]
  <2>0. x.i = 3
    BY <1>0, <1>3
  <2>1. t \in RestoreRow /\ t.step = "restart"
    BY <1>0 DEF RestoreRow
  <2>2. restore' = [restore EXCEPT ![r] = t]
    BY <1>1, <1>3
  <2> HIDE DEF t
  <2>3. /\ restore' \in [Restore -> RestoreRow] /\ restore'[r] = t
        /\ \A y \in Restore : y # r => restore'[y] = restore[y]
    BY <2>1, <2>2, BackupFacts
  <2>4. Busy' = Busy \ {r} /\ r \in Busy
    <3>1. \A y \in Restore : restore'[y].step \in BusySteps <=> y # r /\ restore[y].step \in BusySteps
      BY <2>1, <2>3 DEF BusySteps
    <3> QED
      BY <1>0, <3>1, BackupFacts DEF Busy, BusySteps
  <2>5. broken' = IF x.alone THEN x.from.keys # All(x.from.db) ELSE broken
    BY <1>1, <2>0
  <2>6. BackupRows'
    <3>1. broken' \in BOOLEAN
      BY <2>5, BackupFacts
    <3> QED
      BY <1>1, <2>3, <3>1, FilesFilled, BackupFacts DEF BackupRows
  <2>7. IsUp /\ IsUp'
    BY <1>0, <1>1 DEF BackupInv, RestoresOK, IsUp
  <2>8. RestoresOK'
    <3>1. ASSUME NEW y \in Restore, restore'[y].step \in BusySteps
          PROVE  /\ restore'[y].i \in 1..3 /\ ~restore'[y].alone /\ broken'
      <4>1. y # r /\ restore'[y] = restore[y] /\ y \in Busy
        BY <2>1, <2>3, <3>1, BackupFacts DEF BusySteps
      <4>2. ~restore[y].alone /\ ~x.alone /\ broken /\ restore[y].i \in 1..3
        BY <1>0, <2>4, <3>1, <4>1 DEF BackupInv, RestoresOK
      <4> QED
        BY <2>5, <4>1, <4>2
    <3> QED
      BY <2>7, <3>1 DEF RestoresOK
  <2>9. AtRest'
    <3> SUFFICES ASSUME ~broken'
                 PROVE  process'.state # "dead" /\ \E p \in Panel : Whole(p)'
      BY DEF AtRest
    <3>1. x.alone /\ x.from.keys = All(x.from.db)
      BY <1>0, <2>5 DEF BackupInv, RestoresOK
    <3>2. x.from.keys \in [KeyFile -> Owner] /\ x.from \in ArchiveRow
      BY <1>0, FileOf
    <3>3. \A j \in 1..3 : x.from.keys[KeyFiles[j]] = x.from.db
      BY <3>1, KeyNames DEF All
    <3>4. x.from.db \in Panel
      <4>1. x.from.db \in Owner /\ x.from.db \in Panel \cup {"mixed"}
        BY <3>2, <3>3, KeyNames DEF ArchiveRow
      <4> QED
        BY <4>1 DEF Owner, Panel
    <3>5. \A j \in 1..3 : keys'[KeyFiles[j]] = x.from.db
      BY <1>0, <2>0, <3>1, <3>3, FilesFilled
    <3>6. keys' = All(x.from.db) /\ db' = x.from.db
      BY <1>0, <3>1, <3>5, FilesFilled, KeysAgree
    <3>7. PICK p \in Panel : p = x.from.db
      BY <3>4
    <3>8. Whole(p)'
      BY <2>1, <2>3, <3>6, <3>7 DEF Whole
    <3> QED
      BY <1>1, <2>7, <3>8 DEF IsUp
  <2>10. PackingOK'
    BY <1>1, <2>4, <2>7 DEF BackupInv, PackingOK
  <2>11. ArchivesOK'
    BY <1>1 DEF BackupInv, ArchivesOK
  <2> QED
    BY <2>6, <2>8, <2>9, <2>10, <2>11 DEF BackupInv
<1> QED
  BY <1>2, <1>3

\* A restore that fails leaves the panel broken.
LEMMA RestoreFailsStep ==
  ASSUME BackupInv, NEW r \in Restore, RestoreFails(r)
  PROVE  BackupInv'
<1>1. /\ r \in Busy /\ restore' = [restore EXCEPT ![r] = Served] /\ broken' = TRUE
      /\ UNCHANGED <<db, keys, process, packing, archives, stops>>
  BY DEF RestoreFails
<1>2. /\ restore' \in [Restore -> RestoreRow] /\ restore'[r] = Served
      /\ \A y \in Restore : y # r => restore'[y] = restore[y]
  BY <1>1, BackupFacts, BackupRowsThere
<1>3. BackupRows'
  BY <1>1, <1>2, BackupFacts DEF BackupRows
<1>4. IsUp /\ IsUp'
  BY <1>1, BackupFacts DEF BackupInv, RestoresOK, IsUp
<1>5. RestoresOK'
  <2>1. ASSUME NEW y \in Restore, restore'[y].step \in BusySteps
        PROVE  restore'[y].i \in 1..3 /\ ~restore'[y].alone
    <3>1. y # r /\ restore'[y] = restore[y]
      BY <1>2, <2>1, BackupRowsThere DEF BusySteps
    <3>2. Busy # {y}
      BY <1>1, <3>1
    <3> QED
      BY <2>1, <3>1, <3>2 DEF BackupInv, RestoresOK
  <2> QED
    BY <1>1, <1>4, <2>1 DEF RestoresOK
<1>6. AtRest' /\ PackingOK'
  BY <1>1, <1>4 DEF BackupInv, AtRest, PackingOK
<1>7. ArchivesOK'
  BY <1>1 DEF BackupInv, ArchivesOK
<1> QED
  BY <1>3, <1>5, <1>6, <1>7 DEF BackupInv

\* The process ends: a restore in progress leaves the panel broken.
LEMMA EndsStep ==
  ASSUME BackupInv, Ends
  PROVE  BackupInv'
<1>1. /\ process' = [process EXCEPT !.state = "down"] /\ packing' = NotPacking
      /\ broken' = (broken \/ Busy # {}) /\ UNCHANGED <<db, keys, archives>>
      /\ \A r \in Restore : restore'[r] = IF restore[r].step = "idle" THEN NotRestoring ELSE Served
      /\ restore' = [r \in Restore |-> restore'[r]]
  BY DEF Ends
<1>2. /\ restore' \in [Restore -> RestoreRow]
      /\ \A r \in Restore : restore'[r].step \in {"idle", "over"}
  BY <1>1, BackupRowsThere
<1>3. process' \in ProcessRow /\ process'.state = "down"
  BY <1>1, BackupFacts DEF ProcessRow
<1>4. BackupRows'
  <2>1. broken' \in BOOLEAN
    BY <1>1
  <2> QED
    BY <1>1, <1>2, <1>3, <2>1, BackupFacts, BackupRowsThere DEF BackupRows
<1>5. RestoresOK' /\ PackingOK'
  <2>1. RestoresOK'
    BY <1>2 DEF RestoresOK, BusySteps
  <2>2. PackingOK'
    BY <1>1, BackupRowsThere DEF PackingOK
  <2> QED
    BY <2>1, <2>2
<1>6. AtRest'
  <2> SUFFICES ASSUME ~broken'
               PROVE  process'.state # "dead" /\ \E p \in Panel : Whole(p)'
    BY DEF AtRest
  <2>1. ~broken /\ Busy = {}
    BY <1>1
  <2>2. PICK p \in Panel : Whole(p)
    BY <2>1 DEF BackupInv, AtRest
  <2>3. Whole(p)'
    BY <1>1, <1>3, <2>2 DEF Whole
  <2> QED
    BY <1>3, <2>3
<1>7. ArchivesOK'
  BY <1>1 DEF BackupInv, ArchivesOK
<1> QED
  BY <1>4, <1>5, <1>6, <1>7 DEF BackupInv

\* A start loads the keys of the panel, or makes all of them on a new host.
LEMMA BootsStep ==
  ASSUME BackupInv, Boots
  PROVE  BackupInv'
<1> DEFINE loaded == [f \in KeyFile |->
                        IF keys[f] # "none" \/ (f = "panel-client" /\ keys["ca"] = "torn")
                        THEN keys[f] ELSE "new"]
           starts == /\ loaded["manifest-signing"] # "torn"
                     /\ loaded["panel-client"] \notin {"torn", "none"}
<1>1. /\ process.state = "down" /\ keys' = loaded
      /\ UNCHANGED <<db, packing, archives, restore, stops, broken>>
  BY DEF Boots
<1>2. PICK s \in {"up", "dead"} :
        /\ loaded["ca"] # "torn" => s = IF starts THEN "up" ELSE "dead"
        /\ ~starts => s = "dead"
        /\ process' = [state |-> s, keys |-> loaded]
  BY DEF Boots
<1>3. loaded \in [KeyFile -> Owner]
  BY BackupFacts DEF Owner, Panel
<1>4. process' \in ProcessRow /\ process'.state = s /\ process'.keys = loaded
  BY <1>2, <1>3 DEF ProcessRow
<1>5. ~IsUp /\ Busy = {} /\ Busy' = {}
  <2>1. ~IsUp
    BY <1>1 DEF IsUp
  <2>2. Busy = {}
    BY <2>1, BackupFacts DEF BackupInv, RestoresOK
  <2> QED
    BY <1>1, <2>1, <2>2 DEF Busy
<1>6. \A r \in Restore : restore[r].step \notin BusySteps \cup {"restart"}
  BY <1>5 DEF BackupInv, RestoresOK
<1>7. packing.i = 0
  BY <1>5 DEF BackupInv, PackingOK
<1>8. ASSUME ~broken
      PROVE  process'.state # "dead" /\ \E p \in Panel : Whole(p)'
  <2>1. PICK p \in Panel : Whole(p)
    BY <1>5, <1>8 DEF BackupInv, AtRest
  <2>2. \A f \in KeyFile : loaded[f] = p
    <3>1. CASE keys = All(p)
      BY <3>1 DEF All, Panel
    <3>2. CASE p = "new" /\ keys = All("none")
      <4>1. keys["ca"] = "none" /\ \A f \in KeyFile : keys[f] = "none"
        BY <3>2, KeyNames DEF All
      <4> QED
        BY <3>2, <4>1
    <3> QED
      BY <2>1, <3>1, <3>2 DEF Whole
  <2>3. loaded = All(p)
    BY <2>2 DEF All
  <2>4. loaded["ca"] = p /\ loaded["manifest-signing"] = p /\ loaded["panel-client"] = p
    BY <2>2, KeyNames
  <2>5. p \notin {"torn", "none"}
    BY DEF Panel
  <2>6. starts /\ loaded["ca"] # "torn"
    BY <2>4, <2>5
  <2>7. s = "up"
    BY <1>2, <2>6
  <2>8. Whole(p)'
    <3>1. db' = p /\ keys' = All(p) /\ process'.keys = All(p)
      BY <1>1, <1>4, <2>1, <2>3 DEF Whole
    <3> QED
      BY <3>1 DEF Whole
  <2> QED
    BY <1>4, <2>7, <2>8
<1> HIDE DEF loaded, starts
<1>9. BackupRows'
  BY <1>1, <1>3, <1>4, BackupFacts DEF BackupRows
<1>10. RestoresOK' /\ PackingOK'
  BY <1>1, <1>6, <1>7 DEF RestoresOK, PackingOK
<1>11. AtRest' /\ ArchivesOK'
  BY <1>1, <1>8 DEF BackupInv, AtRest, ArchivesOK
<1> QED
  BY <1>9, <1>10, <1>11 DEF BackupInv

\* Restores that meet no other go through their stages in order, and between
\* restores the database, the keys on disk and those the process has loaded are
\* one panel's.
THEOREM BackupInvariant == BackupSpec => []BackupInv
<1>1. BackupInit => BackupInv
  <2> SUFFICES ASSUME BackupInit PROVE BackupInv
    OBVIOUS
  <2>1. restore \in [Restore -> RestoreRow] /\ \A r \in Restore : restore[r].step = "idle"
    BY BackupRowsThere DEF BackupInit
  <2>2. packing \in PackRow /\ packing.i = 0
    BY BackupRowsThere DEF BackupInit
  <2>3. archives \subseteq ArchiveRow /\ ArchivesOK
    BY BackupRowsThere DEF BackupInit, ArchivesOK, Panel
  <2>4. broken = FALSE
    BY DEF BackupInit
  <2>5. /\ db \in Panel /\ keys \in [KeyFile -> Owner] /\ process \in ProcessRow
        /\ process.state # "dead" /\ Whole(db)
    <3>1. All("this") \in [KeyFile -> Owner] /\ All("none") \in [KeyFile -> Owner]
      BY BackupRowsThere DEF Owner, Panel
    <3>2. CASE db = "this" /\ keys = All("this") /\ process = [state |-> "up", keys |-> All("this")]
      BY <3>1, <3>2 DEF Panel, ProcessRow, Whole
    <3>3. CASE db = "new" /\ keys = All("none") /\ process = [state |-> "down", keys |-> All("none")]
      BY <3>1, <3>3 DEF Panel, ProcessRow, Whole
    <3> QED
      BY <3>2, <3>3 DEF BackupInit
  <2>6. BackupRows
    BY <2>1, <2>2, <2>3, <2>4, <2>5 DEF BackupRows
  <2>7. RestoresOK
    BY <2>1 DEF RestoresOK, BusySteps
  <2>8. AtRest /\ PackingOK
    BY <2>2, <2>5 DEF AtRest, PackingOK
  <2> QED
    BY <2>3, <2>6, <2>7, <2>8 DEF BackupInv
<1>2. ASSUME BackupInv, [BackupNext]_backupVars
      PROVE  BackupInv'
  <2>1. CASE UNCHANGED backupVars
    <3>1. UNCHANGED <<db, keys, process, packing, archives, restore, stops, broken>>
      BY <2>1 DEF backupVars
    <3>2. Busy' = Busy
      BY <3>1 DEF Busy
    <3>3. packing' \in PackRow /\ archives' \subseteq ArchiveRow /\ PackingOK' /\ ArchivesOK'
      BY <1>2, <3>1, <3>2, BackupFacts DEF BackupInv, PackingOK, ArchivesOK, IsUp
    <3> QED
      BY <1>2, <3>1, <3>3, PackStep
  <2>2. CASE Restarts \/ Stops
    BY <1>2, <2>2, EndsStep DEF Restarts, Stops
  <2> QED
    BY <1>2, <2>1, <2>2, DumpStep, ListStep, PackFileStep, BootsStep, RestoreBeginsStep,
       DatabaseLoadedStep, ClearFileStep, CreateFileStep, FillFileStep, RestoreFailsStep
       DEF BackupNext
<1> QED
  BY <1>1, <1>2, PTL DEF BackupSpec

\* A running panel that no broken restore has touched has the database and all
\* the keys, on disk and in memory, of one panel, and so has every clean archive,
\* for any number of restores, backups and deaths of the process in any order.
THEOREM RestoredPanelIsOne == BackupSpec => []PanelIsOne
<1>1. BackupInv => PanelIsOne
  <2> SUFFICES ASSUME BackupInv PROVE PanelIsOne
    OBVIOUS
  <2>1. ASSUME IsUp, ~broken, \A r \in Restore : restore[r].step \in {"idle", "over"}
        PROVE  \E p \in Panel : db = p /\ keys = All(p) /\ process.keys = All(p)
    <3>1. Busy = {} /\ \A r \in Restore : restore[r].step # "restart"
      BY <2>1 DEF Busy
    <3>2. PICK p \in Panel : Whole(p)
      BY <2>1, <3>1 DEF BackupInv, AtRest
    <3> QED
      BY <2>1, <3>1, <3>2 DEF Whole, IsUp
  <2> QED
    BY <2>1 DEF BackupInv, ArchivesOK, PanelIsOne
<1> QED
  BY <1>1, BackupInvariant, PTL
=============================================================================
