--------------------------- MODULE ReportLedgerProofs ---------------------------
(***************************************************************************)
(* Theorems about the reports that ReportStore keeps, for any number of    *)
(* hosts, clients, requests and jobs: the merging rule, what maintenance   *)
(* deletes, that the tables implement ReportLedger, the numbers of         *)
(* reporters and of reports, and that a single job survives.               *)
(***************************************************************************)
EXTENDS ReportStoreProofs

USE TaskAssumption, NullAssumption
USE DEF env, tables, crackerTable, reportTable, request, pass, locals, Goto

--------------------------------------------------------------------------------
(* The inductive invariant of the merging rule and of expiry.                 *)

\* A Report object that a job has read is as old as its pass asks for.  Its row, if it is
\* still there, is the one read but for a refresh, and may have lost its cracker; no
\* request is about to link it to another one.
Read(j, b) ==
  /\ b.id < nextReport /\ b.row.latest < limit[j]
  /\ b.id \in DOMAIN reports =>
       /\ reports[b.id].first = b.row.first /\ reports[b.id].ip = b.row.ip
       /\ b.row.cracker # NULL => reports[b.id].cracker \in {b.row.cracker, NULL}
  /\ \A q \in Request : pc[q] = "link" /\ rpt[q].id = b.id => b.row.cracker = NULL

BatchOK(j) ==
  /\ pc[j] \notin {"idle", "dead"} => limit[j] <= now - EXPIRY
  /\ pc[j] \in {"idle", "dead", "scan"} => batch[j] = {}
  /\ \A b \in batch[j] : Read(j, b)
  /\ pc[j] \in {"lock", "clear", "delete"} =>
       Read(j, rpt[j]) /\ rpt[j].row.cracker = obj[j].id
  /\ pc[j] = "delete" /\ rpt[j].id \in DOMAIN reports => reports[rpt[j].id].cracker = NULL

\* The reports a request merges its own with.
Mine(q) == ReportsBy(obj[q].id, sub[q].client)

\* Between the SELECT of these reports and the end of the merge they do not change.
MergeOK(q) ==
  /\ pc[q] \in {"insert", "link"} =>
       /\ Cardinality(Mine(q)) < 3
       /\ \A r \in Mine(q) : sub[q].when > reports[r].latest + DAY
  /\ pc[q] = "link" =>
       /\ rpt[q].id \in DOMAIN reports /\ reports[rpt[q].id] = rpt[q].row
       /\ rpt[q].row = [cracker |-> NULL, ip |-> sub[q].client,
                        first |-> sub[q].when, latest |-> sub[q].when]
  /\ pc[q] = "touch" =>
       /\ Cardinality(Mine(q)) = 3 /\ rpt[q].id \in Latest(Mine(q))
       /\ rpt[q].row = [reports[rpt[q].id] EXCEPT !.latest = sub[q].when]

LinksOK ==
  \A p, q \in Request :
    pc[p] = "link" /\ pc[q] = "link" /\ rpt[p].id = rpt[q].id => p = q

BatchesOK == \A j \in Job : BatchOK(j)
MergesOK == (\A q \in Request : MergeOK(q)) /\ LinksOK

MergeInv == IndInv /\ BatchesOK /\ MergesOK /\ AtMostThree

--------------------------------------------------------------------------------
(* What the operations on the table of reports change.                        *)

\* All rows but one stay as they are.
RowsBut(i) ==
  /\ \A r : r # i => (r \in DOMAIN reports' <=> r \in DOMAIN reports)
  /\ \A r \in DOMAIN reports : r # i => reports'[r] = reports[r]

LEMMA InsertFacts ==
  ASSUME MergeInv, NEW q \in Request, InsertReport(q)
  PROVE  /\ nextReport \in Nat /\ nextReport \notin DOMAIN reports /\ nextReport' = nextReport + 1
         /\ RowsBut(nextReport) /\ nextReport \in DOMAIN reports'
         /\ reports'[nextReport] = [cracker |-> NULL, ip |-> sub[q].client,
                                    first |-> sub[q].when, latest |-> sub[q].when]
         /\ rpt'[q].id = nextReport /\ rpt'[q].row = reports'[nextReport]
         /\ pc[q] = "insert" /\ pc'[q] = "link"
         /\ UNCHANGED <<crackers, todo, sub, obj, batch, limit, now>>
  <1> DEFINE row == [cracker |-> NULL, ip |-> sub[q].client,
                     first |-> sub[q].when, latest |-> sub[q].when]
  <1>1. /\ reports' = InsertRow(reports, nextReport, row) /\ nextReport' = nextReport + 1
        /\ rpt' = [rpt EXCEPT ![q] = [id |-> nextReport, row |-> row]]
        /\ pc[q] = "insert" /\ pc' = [pc EXCEPT ![q] = "link"]
        /\ UNCHANGED <<crackers, todo, sub, obj, batch, limit, now>>
    BY DEF InsertReport
  <1>2. /\ DOMAIN reports \subseteq 1..(nextReport - 1) /\ nextReport \in Nat
        /\ q \in Task /\ DOMAIN rpt = Task /\ DOMAIN pc = Task
    BY DEF MergeInv, IndInv, TypeOK, TablesOK, ControlOK, MemoryOK, Id, Task
  <1>3. nextReport \notin DOMAIN reports
    BY <1>2
  <1> HIDE DEF row
  <1>4. RowsBut(nextReport) /\ nextReport \in DOMAIN reports' /\ reports'[nextReport] = row
    BY <1>1, <1>2 DEF InsertRow, RowsBut
  <1>5. rpt'[q] = [id |-> nextReport, row |-> row] /\ pc'[q] = "link"
    BY <1>1, <1>2
  <1>6. QED
    BY <1>1, <1>2, <1>3, <1>4, <1>5 DEF row

LEMMA LinkFacts ==
  ASSUME MergeInv, NEW q \in Request, LinkReport(q)
  PROVE  /\ RowsBut(rpt[q].id) /\ rpt[q].id \in DOMAIN reports /\ rpt[q].id \in DOMAIN reports'
         /\ reports[rpt[q].id] = [cracker |-> NULL, ip |-> sub[q].client,
                                  first |-> sub[q].when, latest |-> sub[q].when]
         /\ reports'[rpt[q].id] = [cracker |-> obj[q].id, ip |-> sub[q].client,
                                   first |-> sub[q].when, latest |-> sub[q].when]
         /\ obj[q].id \in Id
         /\ pc[q] = "link" /\ pc'[q] = "save"
         /\ UNCHANGED <<crackers, nextReport, todo, sub, obj, batch, limit, now>>
  <1>1. /\ reports' = SetCracker(reports, rpt[q].id, obj[q].id)
        /\ pc[q] = "link" /\ pc' = [pc EXCEPT ![q] = "save"]
        /\ UNCHANGED <<crackers, nextReport, todo, sub, obj, batch, limit, now>>
    BY DEF LinkReport
  <1>2. /\ obj[q].id \in Id /\ q \in Task /\ DOMAIN pc = Task
    BY <1>1, RequestHolds DEF MergeInv, IndInv, TypeOK, ControlOK, RequestCritical, Task
  <1>3. /\ rpt[q].id \in DOMAIN reports
        /\ reports[rpt[q].id] = [cracker |-> NULL, ip |-> sub[q].client,
                                 first |-> sub[q].when, latest |-> sub[q].when]
    BY <1>1 DEF MergeInv, MergesOK, MergeOK
  <1>4. RowsBut(rpt[q].id) /\ rpt[q].id \in DOMAIN reports'
    BY <1>1, <1>3 DEF SetCracker, RowsBut
  <1>5. reports'[rpt[q].id] = [reports[rpt[q].id] EXCEPT !.cracker = obj[q].id]
    BY <1>1, <1>3 DEF SetCracker
  <1>6. pc'[q] = "save"
    BY <1>1, <1>2
  <1>7. QED
    BY <1>1, <1>2, <1>3, <1>4, <1>5, <1>6

LEMMA TouchFacts ==
  ASSUME MergeInv, NEW q \in Request, TouchReport(q)
  PROVE  /\ RowsBut(rpt[q].id) /\ rpt[q].id \in DOMAIN reports /\ rpt[q].id \in DOMAIN reports'
         /\ rpt[q].id \in Latest(Mine(q)) /\ reports[rpt[q].id] \in ReportRow
         /\ reports'[rpt[q].id] = [reports[rpt[q].id] EXCEPT !.latest = sub[q].when]
         /\ reports[rpt[q].id].cracker = obj[q].id /\ obj[q].id \in Id
         /\ reports[rpt[q].id].ip = sub[q].client
         /\ pc[q] = "touch" /\ pc'[q] = "save"
         /\ UNCHANGED <<crackers, nextReport, todo, sub, obj, batch, limit, now>>
  <1>1. /\ reports' = UpdateRow(reports, rpt[q].id, rpt[q].row)
        /\ pc[q] = "touch" /\ pc' = [pc EXCEPT ![q] = "save"]
        /\ UNCHANGED <<crackers, nextReport, todo, sub, obj, batch, limit, now>>
    BY DEF TouchReport
  <1>2. /\ obj[q].id \in Id /\ q \in Task /\ DOMAIN pc = Task
    BY <1>1, RequestHolds DEF MergeInv, IndInv, TypeOK, ControlOK, RequestCritical, Task
  <1>3. /\ rpt[q].id \in Latest(Mine(q))
        /\ rpt[q].row = [reports[rpt[q].id] EXCEPT !.latest = sub[q].when]
    BY <1>1 DEF MergeInv, MergesOK, MergeOK
  <1>4. /\ rpt[q].id \in DOMAIN reports /\ reports[rpt[q].id].cracker = obj[q].id
        /\ reports[rpt[q].id].ip = sub[q].client
    BY <1>3 DEF Latest, Mine, ReportsBy, ReportsOf
  <1>5. reports[rpt[q].id] \in ReportRow
    BY <1>4 DEF MergeInv, IndInv, TypeOK, TablesOK
  <1>6. /\ RowsBut(rpt[q].id) /\ rpt[q].id \in DOMAIN reports'
        /\ reports'[rpt[q].id] = rpt[q].row
    BY <1>1, <1>4 DEF UpdateRow, RowsBut
  <1>7. pc'[q] = "save"
    BY <1>1, <1>2
  <1>8. QED
    BY <1>1, <1>2, <1>3, <1>4, <1>5, <1>6, <1>7

\* What a job that has its report in hand knows of it.
LEMMA JobReads ==
  ASSUME MergeInv, NEW j \in Job, pc[j] \in {"lock", "clear", "delete"}
  PROVE  /\ Read(j, rpt[j]) /\ rpt[j].row.cracker = obj[j].id /\ obj[j].id \in Id
         /\ rpt[j].id \in Id /\ rpt[j].id < nextReport
         /\ rpt[j].id \in DOMAIN reports => reports[rpt[j].id].cracker \in {obj[j].id, NULL}
         /\ \A q \in Request : pc[q] = "link" => rpt[q].id # rpt[j].id
  <1>1. Read(j, rpt[j]) /\ rpt[j].row.cracker = obj[j].id
    BY DEF MergeInv, BatchesOK, BatchOK
  <1>2. obj[j].id \in Id /\ rpt[j].id \in Id
    BY JobHolds DEF MergeInv, IndInv, JobCritical
  <1>3. obj[j].id # NULL
    BY <1>2 DEF Id
  <1>4. QED
    BY <1>1, <1>2, <1>3 DEF Read

LEMMA ClearFacts ==
  ASSUME MergeInv, NEW j \in Job, ClearReport(j)
  PROVE  /\ RowsBut(rpt[j].id) /\ (rpt[j].id \in DOMAIN reports' <=> rpt[j].id \in DOMAIN reports)
         /\ rpt[j].id \in DOMAIN reports =>
              /\ reports[rpt[j].id].cracker \in {obj[j].id, NULL}
              /\ reports[rpt[j].id] \in ReportRow
              /\ reports'[rpt[j].id] = [reports[rpt[j].id] EXCEPT !.cracker = NULL]
         /\ pc[j] = "clear" /\ pc'[j] = "delete"
         /\ UNCHANGED <<crackers, nextReport, todo, sub, obj, rpt, batch, limit, now>>
  <1>1. /\ reports' = SetCracker(reports, rpt[j].id, NULL)
        /\ pc[j] = "clear" /\ pc' = [pc EXCEPT ![j] = "delete"]
        /\ UNCHANGED <<crackers, nextReport, todo, sub, obj, rpt, batch, limit, now>>
    BY DEF ClearReport
  <1>2. /\ j \in Task /\ DOMAIN pc = Task
        /\ rpt[j].id \in DOMAIN reports => reports[rpt[j].id] \in ReportRow
    BY DEF MergeInv, IndInv, TypeOK, ControlOK, TablesOK, Task
  <1>3. rpt[j].id \in DOMAIN reports => reports[rpt[j].id].cracker \in {obj[j].id, NULL}
    BY <1>1, JobReads
  <1>4. /\ RowsBut(rpt[j].id) /\ (rpt[j].id \in DOMAIN reports' <=> rpt[j].id \in DOMAIN reports)
        /\ rpt[j].id \in DOMAIN reports =>
             reports'[rpt[j].id] = [reports[rpt[j].id] EXCEPT !.cracker = NULL]
    BY <1>1 DEF SetCracker, RowsBut
  <1>5. QED
    BY <1>1, <1>2, <1>3, <1>4

LEMMA DeleteFacts ==
  ASSUME MergeInv, NEW j \in Job, DeleteReport(j)
  PROVE  /\ RowsBut(rpt[j].id) /\ rpt[j].id \notin DOMAIN reports'
         /\ rpt[j].id \in DOMAIN reports => reports[rpt[j].id].cracker = NULL
         /\ pc[j] = "delete" /\ pc'[j] = "count" /\ rpt'[j] = NULL
         /\ UNCHANGED <<crackers, nextReport, todo, sub, obj, batch, limit, now>>
  <1>1. /\ reports' = DeleteRow(reports, rpt[j].id)
        /\ pc[j] = "delete" /\ pc' = [pc EXCEPT ![j] = "count"] /\ rpt' = [rpt EXCEPT ![j] = NULL]
        /\ UNCHANGED <<crackers, nextReport, todo, sub, obj, batch, limit, now>>
    BY DEF DeleteReport
  <1>2. j \in Task /\ DOMAIN pc = Task /\ DOMAIN rpt = Task
    BY DEF MergeInv, IndInv, TypeOK, ControlOK, MemoryOK, Task
  <1>3. rpt[j].id \in DOMAIN reports => reports[rpt[j].id].cracker = NULL
    BY <1>1 DEF MergeInv, BatchesOK, BatchOK
  <1>4. /\ DOMAIN reports' = DOMAIN reports \ {rpt[j].id}
        /\ \A r \in DOMAIN reports' : reports'[r] = reports[r]
    BY <1>1 DEF DeleteRow, Restrict
  <1>5. RowsBut(rpt[j].id) /\ rpt[j].id \notin DOMAIN reports'
    BY <1>4 DEF RowsBut
  <1>6. QED
    BY <1>1, <1>2, <1>3, <1>5

--------------------------------------------------------------------------------
(* What one task does leaves the merges and the batches of the others alone.  *)

\* A request's merge is not disturbed by a change of a row of another cracker.
LEMMA MergeKept ==
  ASSUME MergeInv, NEW p \in Request, NEW i, RowsBut(i),
         pc'[p] = pc[p], obj'[p] = obj[p], sub'[p] = sub[p], rpt'[p] = rpt[p],
         pc[p] \in {"insert", "link", "touch"} =>
           /\ i \in DOMAIN reports => reports[i].cracker # obj[p].id
           /\ i \in DOMAIN reports' => reports'[i].cracker # obj[p].id,
         pc[p] = "link" => i # rpt[p].id
  PROVE  MergeOK(p)'
  <1>1. CASE pc[p] \in {"insert", "link", "touch"}
    <2>1. Mine(p)' = Mine(p) /\ \A r \in Mine(p) : r # i /\ reports'[r] = reports[r]
      BY <1>1 DEF RowsBut, Mine, ReportsBy, ReportsOf
    <2>2. Latest(Mine(p))' = Latest(Mine(p)) /\ Latest(Mine(p)) \subseteq Mine(p)
      BY <2>1 DEF Latest
    <2>3. MergeOK(p)
      BY DEF MergeInv, MergesOK
    <2>4. pc[p] = "link" => rpt[p].id \in DOMAIN reports' /\ reports'[rpt[p].id] = reports[rpt[p].id]
      BY <2>3 DEF MergeOK, RowsBut
    <2>5. pc[p] = "touch" => reports'[rpt[p].id] = reports[rpt[p].id]
      BY <2>1, <2>2, <2>3 DEF MergeOK
    <2>6. QED
      BY <2>1, <2>2, <2>3, <2>4, <2>5 DEF MergeOK
  <1>2. CASE pc[p] \notin {"insert", "link", "touch"}
    BY <1>2 DEF MergeOK
  <1>3. QED
    BY <1>1, <1>2

\* What jobs rely on in a step of another task: no row comes back, no row gets another
\* cracker unless its request links it, and only a new row is linked later.
RowsKept ==
  /\ nextReport' \in Nat /\ nextReport' >= nextReport
  /\ now' \in Nat /\ now' >= now
  /\ \A r \in DOMAIN reports' : r < nextReport =>
       /\ r \in DOMAIN reports
       /\ reports'[r].first = reports[r].first /\ reports'[r].ip = reports[r].ip
       /\ \/ reports'[r].cracker \in {reports[r].cracker, NULL}
          \/ \E q \in Request : pc[q] = "link" /\ rpt[q].id = r
  /\ \A q \in Request : pc'[q] = "link" =>
       \/ pc[q] = "link" /\ rpt'[q].id = rpt[q].id
       \/ rpt'[q].id = nextReport

LEMMA ReadKept ==
  ASSUME MergeInv, NEW j \in Job, NEW b \in ReportObj, RowsKept, Read(j, b), limit'[j] = limit[j]
  PROVE  Read(j, b)'
  <1>1. b.id \in Nat /\ nextReport \in Nat /\ b.id < nextReport
    BY DEF MergeInv, IndInv, TypeOK, TablesOK, Id, Read, ReportObj
  <1>2. b.id < nextReport' /\ b.row.latest < limit'[j]
    BY <1>1 DEF RowsKept, Read
  <1>3. b.id \in DOMAIN reports' =>
          /\ b.id \in DOMAIN reports
          /\ reports'[b.id].first = reports[b.id].first /\ reports'[b.id].ip = reports[b.id].ip
          /\ b.row.cracker # NULL => reports'[b.id].cracker \in {reports[b.id].cracker, NULL}
    BY <1>1 DEF RowsKept, Read
  <1>4. \A q \in Request : pc'[q] = "link" /\ rpt'[q].id = b.id => b.row.cracker = NULL
    BY <1>1 DEF RowsKept, Read
  <1>5. QED
    BY <1>2, <1>3, <1>4 DEF Read

LEMMA BatchKept ==
  ASSUME MergeInv, NEW j \in Job, RowsKept, pc'[j] = pc[j], obj'[j] = obj[j],
         rpt'[j] = rpt[j], limit'[j] = limit[j], batch'[j] = batch[j]
  PROVE  BatchOK(j)'
  <1>1. BatchOK(j)
    BY DEF MergeInv, BatchesOK
  <1>2. now \in Nat /\ now' \in Nat /\ now' >= now /\ limit[j] \in Int /\ batch[j] \subseteq ReportObj
    BY DEF MergeInv, IndInv, TypeOK, ControlOK, MemoryOK, RowsKept
  <1>3. limit[j] <= now - EXPIRY => limit[j] <= now' - EXPIRY
    BY <1>2, TimeAssumption
  <1>4. \A b \in batch'[j] : Read(j, b)'
    BY <1>1, <1>2, ReadKept DEF BatchOK
  <1>5. pc[j] \in {"lock", "clear", "delete"} => Read(j, rpt[j])'
    BY <1>1, ReadKept, JobHolds DEF BatchOK, MergeInv, IndInv
  <1>6. ASSUME pc[j] = "delete", rpt[j].id \in DOMAIN reports'
        PROVE  reports'[rpt[j].id].cracker = NULL
    <2>1. /\ rpt[j].id < nextReport
          /\ \A q \in Request : pc[q] = "link" => rpt[q].id # rpt[j].id
      BY <1>6, JobReads
    <2>2. rpt[j].id \in DOMAIN reports => reports[rpt[j].id].cracker = NULL
      BY <1>1, <1>6 DEF BatchOK
    <2>3. QED
      BY <1>6, <2>1, <2>2 DEF RowsKept
  <1>7. QED
    BY <1>1, <1>3, <1>4, <1>5, <1>6 DEF BatchOK

\* Two requests that merge work on different crackers.
LEMMA DifferentMerges ==
  ASSUME IndInv, NEW p \in Request, NEW q \in Request, p # q,
         pc[p] \in RequestCritical \ {"find", "create"},
         pc[q] \in RequestCritical \ {"find", "create"}
  PROVE  obj[p].id # obj[q].id
  <1>1. HostOf(p) # HostOf(q)
    BY DEF IndInv, LocksOK, MutualExclusion, InCritical, Task
  <1>2. /\ obj[p] # NULL /\ obj[p].id # NULL /\ obj[p].row.ip = HostOf(p)
        /\ obj[q] # NULL /\ obj[q].id # NULL /\ obj[q].row.ip = HostOf(q)
    BY DEF IndInv, LocalsOK
  <1>3. /\ obj[p].id \in DOMAIN crackers /\ crackers[obj[p].id].ip = obj[p].row.ip
        /\ obj[q].id \in DOMAIN crackers /\ crackers[obj[q].id].ip = obj[q].row.ip
    BY <1>2 DEF IndInv, StoreOK, ObjectsOK, Task
  <1>4. QED
    BY <1>1, <1>2, <1>3

\* What handle_report_from_client does to the reports.
LEMMA RequestRows ==
  ASSUME MergeInv, NEW q \in Request, Accept(q) \/ RequestStep(q) \/ FailRequest(q)
  PROVE  /\ RowsKept /\ UNCHANGED <<now, limit, batch>>
         /\ \/ InsertReport(q) \/ LinkReport(q) \/ TouchReport(q)
            \/ UNCHANGED <<reports, nextReport>> /\ pc'[q] # "link"
  <1> USE DEF Task
  <1>1. /\ nextReport \in Nat /\ now \in Nat /\ pc \in [Task -> RequestLabel \cup JobLabel]
        /\ DOMAIN reports \subseteq 1..(nextReport - 1)
        /\ reports \in [DOMAIN reports -> ReportRow]
    BY DEF MergeInv, IndInv, TypeOK, TablesOK, ControlOK, Id
  <1>2. \A p \in Request \ {q} : pc'[p] = pc[p] /\ rpt'[p] = rpt[p]
    BY RequestAlone DEF MergeInv, IndInv
  <1>3. CASE InsertReport(q)
    <2>1. ASSUME NEW r \in DOMAIN reports', r < nextReport
          PROVE  r \in DOMAIN reports /\ reports'[r] = reports[r]
      <3>1. RowsBut(nextReport)
        BY <1>3, InsertFacts
      <3>2. r # nextReport
        BY <1>1, <2>1
      <3>3. QED
        BY <3>1, <3>2 DEF RowsBut
    <2>2. \A p \in Request : pc'[p] = "link" =>
            (pc[p] = "link" /\ rpt'[p].id = rpt[p].id) \/ rpt'[p].id = nextReport
      BY <1>2, <1>3, InsertFacts
    <2>3. nextReport' = nextReport + 1 /\ UNCHANGED <<now, limit, batch>>
      BY <1>3, InsertFacts
    <2>4. RowsKept
      BY <1>1, <2>1, <2>2, <2>3 DEF RowsKept
    <2>5. QED
      BY <1>3, <2>3, <2>4
  <1>4. CASE LinkReport(q)
    <2>1. ASSUME NEW r \in DOMAIN reports'
          PROVE  /\ r \in DOMAIN reports
                 /\ reports'[r].first = reports[r].first /\ reports'[r].ip = reports[r].ip
                 /\ reports'[r].cracker = reports[r].cracker \/ (pc[q] = "link" /\ rpt[q].id = r)
      <3>1. CASE r = rpt[q].id
        <4>1. /\ r \in DOMAIN reports /\ pc[q] = "link"
              /\ reports[r] = [cracker |-> NULL, ip |-> sub[q].client,
                               first |-> sub[q].when, latest |-> sub[q].when]
              /\ reports'[r] = [cracker |-> obj[q].id, ip |-> sub[q].client,
                                first |-> sub[q].when, latest |-> sub[q].when]
          BY <1>4, <3>1, LinkFacts
        <4>2. QED
          BY <3>1, <4>1
      <3>2. CASE r # rpt[q].id
        <4>1. RowsBut(rpt[q].id)
          BY <1>4, LinkFacts
        <4>2. QED
          BY <3>2, <4>1 DEF RowsBut
      <3>3. QED
        BY <3>1, <3>2
    <2>2. \A p \in Request : pc'[p] = "link" => pc[p] = "link" /\ rpt'[p].id = rpt[p].id
      BY <1>2, <1>4, LinkFacts
    <2>3. UNCHANGED <<now, limit, batch, nextReport>>
      BY <1>4, LinkFacts
    <2>4. RowsKept
      BY <1>1, <2>1, <2>2, <2>3 DEF RowsKept
    <2>5. QED
      BY <1>4, <2>3, <2>4
  <1>5. CASE TouchReport(q)
    <2>1. ASSUME NEW r \in DOMAIN reports'
          PROVE  /\ r \in DOMAIN reports
                 /\ reports'[r].first = reports[r].first /\ reports'[r].ip = reports[r].ip
                 /\ reports'[r].cracker = reports[r].cracker
      <3>1. CASE r = rpt[q].id
        <4>1. /\ r \in DOMAIN reports /\ reports[r] \in ReportRow
              /\ reports'[r] = [reports[r] EXCEPT !.latest = sub[q].when]
          BY <1>5, <3>1, TouchFacts
        <4>2. QED
          BY <4>1 DEF ReportRow
      <3>2. CASE r # rpt[q].id
        <4>1. RowsBut(rpt[q].id)
          BY <1>5, TouchFacts
        <4>2. QED
          BY <3>2, <4>1 DEF RowsBut
      <3>3. QED
        BY <3>1, <3>2
    <2>2. \A p \in Request : pc'[p] = "link" => pc[p] = "link" /\ rpt'[p].id = rpt[p].id
      BY <1>2, <1>5, TouchFacts
    <2>3. UNCHANGED <<now, limit, batch, nextReport>>
      BY <1>5, TouchFacts
    <2>4. RowsKept
      BY <1>1, <2>1, <2>2, <2>3 DEF RowsKept
    <2>5. QED
      BY <1>5, <2>3, <2>4
  <1>6. CASE \/ Accept(q) \/ Lock(q) \/ FindCracker(q) \/ CreateCracker(q) \/ FindReports(q)
             \/ SaveCracker(q) \/ UnlockHost(q) \/ FailRequest(q)
    <2>1. UNCHANGED <<now, limit, batch, reports, nextReport>> /\ pc'[q] # "link"
      BY <1>1, <1>6 DEF Accept, Lock, FindCracker, CreateCracker, FindReports, SaveCracker,
                        UnlockHost, FailRequest, Finish
    <2>2. \A p \in Request : pc'[p] = "link" => pc[p] = "link" /\ rpt'[p].id = rpt[p].id
      BY <1>2, <2>1
    <2>3. RowsKept
      BY <1>1, <2>1, <2>2 DEF RowsKept
    <2>4. QED
      BY <2>1, <2>3
  <1>7. QED
    BY <1>3, <1>4, <1>5, <1>6 DEF RequestStep

\* A job's batch is not disturbed by requests.
LEMMA RequestBatches ==
  ASSUME MergeInv, NEW q \in Request, Accept(q) \/ RequestStep(q) \/ FailRequest(q)
  PROVE  BatchesOK'
  <1>1. RowsKept /\ UNCHANGED <<limit, batch>>
    BY RequestRows
  <1>2. \A j \in Job : pc'[j] = pc[j] /\ obj'[j] = obj[j] /\ rpt'[j] = rpt[j]
    BY RequestAlone DEF MergeInv, IndInv, Task
  <1>3. QED
    BY <1>1, <1>2, BatchKept DEF BatchesOK

\* What perform_maintenance does to the reports.
LEMMA JobRows ==
  ASSUME MergeInv, NEW j \in Job, JobStep(j) \/ FailJob(j)
  PROVE  /\ RowsKept /\ UNCHANGED <<now, nextReport, sub>>
         /\ \A i \in Job \ {j} : limit'[i] = limit[i] /\ batch'[i] = batch[i]
         /\ \/ ClearReport(j) \/ DeleteReport(j)
            \/ UNCHANGED reports
  <1> USE DEF Task
  <1>1. /\ nextReport \in Nat /\ now \in Nat /\ pc \in [Task -> RequestLabel \cup JobLabel]
        /\ reports \in [DOMAIN reports -> ReportRow]
        /\ limit \in [Job -> Int] /\ batch \in [Job -> SUBSET ReportObj]
    BY DEF MergeInv, IndInv, TypeOK, TablesOK, ControlOK, MemoryOK, Id
  <1>2. \A p \in Request : pc'[p] = pc[p] /\ rpt'[p] = rpt[p]
    BY JobAlone DEF MergeInv, IndInv
  <1>3. UNCHANGED sub
    BY JobAlone DEF MergeInv, IndInv
  <1>4. CASE ClearReport(j)
    <2>1. ASSUME NEW r \in DOMAIN reports'
          PROVE  /\ r \in DOMAIN reports
                 /\ reports'[r].first = reports[r].first /\ reports'[r].ip = reports[r].ip
                 /\ reports'[r].cracker \in {reports[r].cracker, NULL}
      <3>1. CASE r = rpt[j].id
        <4>1. /\ r \in DOMAIN reports /\ reports[r] \in ReportRow
              /\ reports'[r] = [reports[r] EXCEPT !.cracker = NULL]
          BY <1>4, <3>1, ClearFacts
        <4>2. QED
          BY <4>1 DEF ReportRow
      <3>2. CASE r # rpt[j].id
        <4>1. RowsBut(rpt[j].id)
          BY <1>4, ClearFacts
        <4>2. QED
          BY <3>2, <4>1 DEF RowsBut
      <3>3. QED
        BY <3>1, <3>2
    <2>2. UNCHANGED <<now, limit, batch, nextReport>>
      BY <1>4, ClearFacts
    <2>3. RowsKept
      BY <1>1, <1>2, <2>1, <2>2 DEF RowsKept
    <2>4. QED
      BY <1>3, <1>4, <2>2, <2>3
  <1>5. CASE DeleteReport(j)
    <2>1. ASSUME NEW r \in DOMAIN reports'
          PROVE  r \in DOMAIN reports /\ reports'[r] = reports[r]
      <3>1. RowsBut(rpt[j].id) /\ rpt[j].id \notin DOMAIN reports'
        BY <1>5, DeleteFacts
      <3>2. QED
        BY <3>1 DEF RowsBut
    <2>2. UNCHANGED <<now, limit, batch, nextReport>>
      BY <1>5, DeleteFacts
    <2>3. RowsKept
      BY <1>1, <1>2, <2>1, <2>2 DEF RowsKept
    <2>4. QED
      BY <1>3, <1>5, <2>2, <2>3
  <1>6. CASE \/ StartJob(j) \/ ScanReports(j) \/ FetchCracker(j) \/ FetchNoCracker(j)
             \/ Lock(j) \/ CountReporters(j) \/ WriteBackCracker(j) \/ DropCracker(j)
             \/ ReleaseHost(j) \/ FailJob(j)
    <2>1. UNCHANGED <<now, reports, nextReport>>
      BY <1>6 DEF StartJob, ScanReports, FetchCracker, FetchNoCracker, Lock, CountReporters,
                  WriteBackCracker, DropCracker, ReleaseHost, FailJob, Die
    <2>2. \A i \in Job \ {j} : limit'[i] = limit[i] /\ batch'[i] = batch[i]
      BY <1>1, <1>6 DEF StartJob, ScanReports, FetchCracker, FetchNoCracker, Lock, CountReporters,
                  WriteBackCracker, DropCracker, ReleaseHost, FailJob, Die
    <2>3. RowsKept
      BY <1>1, <1>2, <2>1 DEF RowsKept
    <2>4. QED
      BY <1>3, <2>1, <2>2, <2>3
  <1>7. QED
    BY <1>4, <1>5, <1>6 DEF JobStep

\* A report of a job's batch whose row has the cracker NULL is deleted: the job's own batch.
LEMMA OwnBatch ==
  ASSUME MergeInv, NEW j \in Job, JobStep(j) \/ FailJob(j)
  PROVE  BatchOK(j)'
  <1> USE DEF Task
  <1>1. /\ j \in Task /\ now \in Nat /\ pc \in [Task -> RequestLabel \cup JobLabel]
        /\ rpt \in [Task -> ReportObj \cup {NULL}] /\ obj \in [Task -> CrackerObj \cup {NULL}]
        /\ limit \in [Job -> Int] /\ batch \in [Job -> SUBSET ReportObj] /\ pc[j] \in JobLabel
    BY DEF MergeInv, IndInv, TypeOK, ControlOK, MemoryOK
  <1>2. BatchOK(j) /\ RowsKept /\ UNCHANGED now
    BY JobRows DEF MergeInv, BatchesOK
  <1>3. CASE StartJob(j)
    <2>1. /\ pc[j] = "idle" /\ pc'[j] = "scan" /\ limit'[j] = now - EXPIRY /\ batch'[j] = batch[j]
      BY <1>1, <1>3 DEF StartJob
    <2>2. limit'[j] <= now' - EXPIRY /\ batch'[j] = {}
      BY <1>1, <1>2, <2>1, TimeAssumption DEF BatchOK
    <2>3. QED
      BY <2>1, <2>2 DEF BatchOK
  <1>4. CASE ScanReports(j)
    <2>1. pc[j] = "scan" /\ UNCHANGED <<tables, rpt>> /\ pc'[j] \in {"idle", "fetch"}
      BY <1>1, <1>4 DEF ScanReports
    <2>2. CASE pc'[j] = "idle"
      <3>1. batch'[j] = batch[j] /\ batch[j] = {}
        BY <1>1, <1>2, <1>4, <2>1, <2>2 DEF ScanReports, BatchOK
      <3>2. QED
        BY <2>2, <3>1 DEF BatchOK
    <2>3. CASE pc'[j] = "fetch"
      <3>1. limit'[j] = limit[j] /\ limit[j] <= now - EXPIRY
        BY <1>1, <1>2, <1>4, <2>1, <2>3 DEF ScanReports, BatchOK
      <3>2. PICK ids \in SUBSET {r \in DOMAIN reports : reports[r].latest < limit[j]} :
              batch' = [batch EXCEPT ![j] = {[id |-> r, row |-> reports[r]] : r \in ids}]
        BY <1>1, <1>4, <2>3 DEF ScanReports
      <3>3. ASSUME NEW b \in batch'[j]
            PROVE  Read(j, b)'
        <4>1. PICK r \in ids : b = [id |-> r, row |-> reports[r]]
          BY <1>1, <3>2, <3>3
        <4>2. /\ r \in DOMAIN reports /\ reports[r].latest < limit[j]
              /\ r \in Nat /\ nextReport \in Nat /\ r < nextReport
          BY <3>2 DEF MergeInv, IndInv, TypeOK, TablesOK, Id
        <4>3. ASSUME NEW q \in Request, pc[q] = "link", rpt[q].id = r
              PROVE  reports[r].cracker = NULL
          <5>1. reports[r] = [cracker |-> NULL, ip |-> sub[q].client,
                              first |-> sub[q].when, latest |-> sub[q].when]
            BY <4>3 DEF MergeInv, MergesOK, MergeOK
          <5>2. QED
            BY <5>1
        <4>4. \A q \in Request : pc'[q] = pc[q]
          BY JobAlone, <1>4 DEF MergeInv, IndInv, JobStep
        <4>5. b.id = r /\ b.row = reports[r]
          BY <4>1
        <4>6. QED
          BY <2>1, <3>1, <4>2, <4>3, <4>4, <4>5 DEF Read
      <3>4. QED
        BY <1>2, <2>3, <3>1, <3>3 DEF BatchOK
    <2>4. QED
      BY <2>1, <2>2, <2>3
  <1>5. CASE FetchCracker(j)
    <2>1. PICK r \in batch[j] :
            /\ r.row.cracker \in DOMAIN crackers
            /\ obj' = [obj EXCEPT ![j] = [id |-> r.row.cracker, row |-> crackers[r.row.cracker]]]
            /\ rpt' = [rpt EXCEPT ![j] = r]
            /\ batch' = [batch EXCEPT ![j] = @ \ {r}]
      BY <1>5 DEF FetchCracker
    <2>2. /\ pc[j] = "fetch" /\ pc'[j] = "lock" /\ UNCHANGED limit
          /\ rpt'[j] = r /\ batch'[j] = batch[j] \ {r} /\ obj'[j].id = r.row.cracker
      BY <1>1, <1>5, <2>1 DEF FetchCracker
    <2>3. \A b \in batch[j] : Read(j, b)'
      BY <1>1, <1>2, <2>2, ReadKept DEF BatchOK
    <2>4. QED
      BY <1>2, <2>2, <2>3 DEF BatchOK
  <1>6. CASE FetchNoCracker(j) \/ FailJob(j)
    <2>1. pc'[j] \in {"dead", "idle"} /\ batch'[j] = {}
      BY <1>1, <1>6 DEF FetchNoCracker, FailJob, Die
    <2>2. QED
      BY <2>1 DEF BatchOK
  <1>7. CASE Lock(j) \/ ClearReport(j)
    <2>1. /\ (pc[j] = "lock" /\ pc'[j] = "clear") \/ (pc[j] = "clear" /\ pc'[j] = "delete")
          /\ UNCHANGED <<limit, batch, obj, rpt>>
      BY <1>1, <1>7 DEF Lock, ClearReport
    <2>2. \A b \in batch[j] : Read(j, b)'
      BY <1>1, <1>2, <2>1, ReadKept DEF BatchOK
    <2>3. Read(j, rpt[j])'
      BY <1>2, <2>1, ReadKept, JobHolds DEF BatchOK, MergeInv, IndInv
    <2>4. pc'[j] = "delete" /\ rpt[j].id \in DOMAIN reports' => reports'[rpt[j].id].cracker = NULL
      <3>1. SUFFICES ASSUME pc'[j] = "delete", rpt[j].id \in DOMAIN reports'
                     PROVE  reports'[rpt[j].id].cracker = NULL
        OBVIOUS
      <3>2. ClearReport(j)
        BY <1>1, <1>7, <3>1 DEF Lock
      <3>3. /\ reports[rpt[j].id] \in ReportRow
            /\ reports'[rpt[j].id] = [reports[rpt[j].id] EXCEPT !.cracker = NULL]
        BY <3>1, <3>2, ClearFacts
      <3>4. QED
        BY <3>3 DEF ReportRow
    <2>5. QED
      BY <1>2, <2>1, <2>2, <2>3, <2>4 DEF BatchOK
  <1>8. CASE \/ DeleteReport(j) \/ CountReporters(j) \/ WriteBackCracker(j) \/ DropCracker(j)
             \/ ReleaseHost(j)
    <2>1. /\ pc[j] \in {"delete", "count", "writeback", "drop", "release"}
          /\ pc'[j] \in {"count", "writeback", "drop", "release", "scan", "fetch"}
          /\ UNCHANGED <<limit, batch>> /\ (pc'[j] = "scan" => batch[j] = {})
      BY <1>1, <1>8 DEF DeleteReport, CountReporters, WriteBackCracker, DropCracker, ReleaseHost,
                        AfterWriteBack
    <2>2. \A b \in batch[j] : Read(j, b)'
      BY <1>1, <1>2, <2>1, ReadKept DEF BatchOK
    <2>3. QED
      BY <1>2, <2>1, <2>2 DEF BatchOK
  <1>9. QED
    BY <1>3, <1>4, <1>5, <1>6, <1>7, <1>8 DEF JobStep

\* perform_maintenance disturbs no batch.
LEMMA JobBatches ==
  ASSUME MergeInv, NEW j \in Job, JobStep(j) \/ FailJob(j)
  PROVE  BatchesOK'
  <1>1. RowsKept /\ \A i \in Job \ {j} : limit'[i] = limit[i] /\ batch'[i] = batch[i]
    BY JobRows
  <1>2. \A i \in Job \ {j} : pc'[i] = pc[i] /\ obj'[i] = obj[i] /\ rpt'[i] = rpt[i]
    BY JobAlone DEF MergeInv, IndInv, Task
  <1>3. \A i \in Job \ {j} : BatchOK(i)'
    BY <1>1, <1>2, BatchKept
  <1>4. QED
    BY <1>3, OwnBatch DEF BatchesOK

--------------------------------------------------------------------------------
(* The merging rule.                                                          *)

\* A request that merges holds the id of its cracker, which is not NULL.
LEMMA MergeHolds ==
  ASSUME IndInv, NEW q \in Request, pc[q] \in RequestCritical \ {"find", "create"}
  PROVE  obj[q].id \in Id /\ obj[q].id # NULL /\ sub[q] \in Stamp
  <1>1. obj[q].id \in Id /\ sub[q] \in Stamp
    BY RequestHolds DEF IndInv, RequestCritical
  <1>2. QED
    BY <1>1 DEF Id

\* A step that changes no report disturbs no merge of another request.
LEMMA QuietKept ==
  ASSUME MergeInv, NEW p \in Request, UNCHANGED reports,
         pc'[p] = pc[p], obj'[p] = obj[p], sub'[p] = sub[p], rpt'[p] = rpt[p]
  PROVE  MergeOK(p)'
  <1>1. MergeOK(p)
    BY DEF MergeInv, MergesOK
  <1>2. QED
    BY <1>1 DEF MergeOK, Mine, ReportsBy, ReportsOf, Latest

\* The other requests' merges, when handle_report_from_client takes a step.
LEMMA OtherMerges ==
  ASSUME MergeInv, NEW q \in Request, Accept(q) \/ RequestStep(q) \/ FailRequest(q),
         NEW p \in Request, p # q
  PROVE  MergeOK(p)'
  <1>1. pc'[p] = pc[p] /\ obj'[p] = obj[p] /\ sub'[p] = sub[p] /\ rpt'[p] = rpt[p]
    BY RequestAlone DEF MergeInv, IndInv, Task
  <1>2. MergeOK(p) /\ IndInv
    BY DEF MergeInv, MergesOK
  <1>3. pc[p] \in {"insert", "link", "touch"} => obj[p].id # NULL
    BY <1>2, MergeHolds DEF RequestCritical
  <1>4. CASE InsertReport(q)
    <2>1. nextReport \notin DOMAIN reports /\ RowsBut(nextReport)
      BY <1>4, InsertFacts
    <2>2. reports'[nextReport].cracker = NULL
      <3>1. reports'[nextReport] = [cracker |-> NULL, ip |-> sub[q].client,
                                    first |-> sub[q].when, latest |-> sub[q].when]
        BY <1>4, InsertFacts
      <3>2. QED
        BY <3>1
    <2>3. pc[p] = "link" => rpt[p].id # nextReport
      BY <1>2, <2>1 DEF MergeOK
    <2>4. QED
      BY <1>1, <1>3, <2>1, <2>2, <2>3, MergeKept
  <1>5. CASE LinkReport(q)
    <2>1. RowsBut(rpt[q].id) /\ pc[q] = "link"
      BY <1>5, LinkFacts
    <2>2. reports[rpt[q].id].cracker = NULL /\ reports'[rpt[q].id].cracker = obj[q].id
      <3>1. /\ reports[rpt[q].id] = [cracker |-> NULL, ip |-> sub[q].client,
                                     first |-> sub[q].when, latest |-> sub[q].when]
            /\ reports'[rpt[q].id] = [cracker |-> obj[q].id, ip |-> sub[q].client,
                                      first |-> sub[q].when, latest |-> sub[q].when]
        BY <1>5, LinkFacts
      <3>2. QED
        BY <3>1
    <2>3. pc[p] \in {"insert", "link", "touch"} => obj[q].id # obj[p].id
      BY <1>2, <2>1, DifferentMerges DEF RequestCritical
    <2>4. pc[p] = "link" => rpt[p].id # rpt[q].id
      BY <2>1 DEF MergeInv, MergesOK, LinksOK
    <2>5. QED
      BY <1>1, <1>3, <2>1, <2>2, <2>3, <2>4, MergeKept
  <1>6. CASE TouchReport(q)
    <2>1. RowsBut(rpt[q].id) /\ pc[q] = "touch" /\ reports[rpt[q].id].cracker = obj[q].id
      BY <1>6, TouchFacts
    <2>2. reports'[rpt[q].id].cracker = obj[q].id
      <3>1. /\ reports'[rpt[q].id] = [reports[rpt[q].id] EXCEPT !.latest = sub[q].when]
            /\ reports[rpt[q].id] \in ReportRow
        BY <1>6, TouchFacts
      <3>2. QED
        BY <2>1, <3>1 DEF ReportRow
    <2>3. pc[p] \in {"insert", "link", "touch"} => obj[q].id # obj[p].id
      BY <1>2, <2>1, DifferentMerges DEF RequestCritical
    <2>4. pc[p] = "link" => rpt[p].id # rpt[q].id
      <3>1. obj[q].id # NULL
        BY <1>2, <2>1, MergeHolds DEF RequestCritical
      <3>2. pc[p] = "link" => reports[rpt[p].id].cracker = NULL
        <4>1. pc[p] = "link" => reports[rpt[p].id] = [cracker |-> NULL, ip |-> sub[p].client,
                                     first |-> sub[p].when, latest |-> sub[p].when]
          BY <1>2 DEF MergeOK
        <4>2. QED
          BY <4>1
      <3>3. QED
        BY <2>1, <3>1, <3>2
    <2>5. QED
      BY <1>1, <1>3, <2>1, <2>2, <2>3, <2>4, MergeKept
  <1>7. CASE UNCHANGED reports
    BY <1>1, <1>7, QuietKept
  <1>8. QED
    BY <1>4, <1>5, <1>6, <1>7, RequestRows

\* The merge of the request that takes a step.
LEMMA OwnMerge ==
  ASSUME MergeInv, NEW q \in Request, Accept(q) \/ RequestStep(q) \/ FailRequest(q)
  PROVE  MergeOK(q)'
  <1> USE DEF Task
  <1>1. /\ q \in Task /\ pc \in [Task -> RequestLabel \cup JobLabel]
        /\ rpt \in [Task -> ReportObj \cup {NULL}] /\ obj \in [Task -> CrackerObj \cup {NULL}]
    BY DEF MergeInv, IndInv, TypeOK, ControlOK, MemoryOK
  <1>2. MergeOK(q) /\ IndInv
    BY DEF MergeInv, MergesOK
  <1>3. CASE InsertReport(q)
    <2> DEFINE row == [cracker |-> NULL, ip |-> sub[q].client,
                       first |-> sub[q].when, latest |-> sub[q].when]
    <2>1. /\ nextReport \notin DOMAIN reports /\ nextReport \in DOMAIN reports'
          /\ reports'[nextReport] = row /\ rpt'[q].id = nextReport /\ rpt'[q].row = reports'[nextReport]
          /\ pc[q] = "insert" /\ pc'[q] = "link" /\ UNCHANGED <<sub, obj>>
      BY <1>3, InsertFacts
    <2>2. RowsBut(nextReport)
      BY <1>3, InsertFacts
    <2>3. obj[q].id # NULL
      BY <1>2, <2>1, MergeHolds DEF RequestCritical
    <2>4. row.cracker = NULL
      OBVIOUS
    <2> HIDE DEF row
    <2>5. Mine(q)' = Mine(q) /\ \A r \in Mine(q) : reports'[r] = reports[r]
      BY <2>1, <2>2, <2>3, <2>4 DEF RowsBut, Mine, ReportsBy, ReportsOf
    <2>6. Cardinality(Mine(q)) < 3 /\ \A r \in Mine(q) : sub[q].when > reports[r].latest + DAY
      BY <1>2, <2>1 DEF MergeOK
    <2>7. rpt'[q].row = [cracker |-> NULL, ip |-> sub'[q].client,
                         first |-> sub'[q].when, latest |-> sub'[q].when]
      BY <2>1 DEF row
    <2>8. QED
      BY <2>1, <2>5, <2>6, <2>7 DEF MergeOK
  <1>4. CASE FindReports(q)
    <2> DEFINE mine == ReportsBy(obj[q].id, sub[q].client)
               when == sub[q].when
    <2>1. UNCHANGED <<reports, sub>> /\ pc[q] = "reports" /\ mine = Mine(q)
      BY <1>4 DEF FindReports, Mine
    <2>2. obj[q] \in CrackerObj /\ obj[q].row \in CrackerRow
      BY <1>2, <2>1, RequestHolds DEF RequestCritical, IndInv
    <2>3. obj'[q].id = obj[q].id
      BY <1>1, <1>4, <2>2 DEF FindReports, CrackerObj
    <2>4. Mine(q)' = mine /\ Latest(Mine(q))' = Latest(mine)
      BY <2>1, <2>3 DEF Mine, ReportsBy, ReportsOf, Latest
    <2>5. Cardinality(mine) \in Nat /\ Cardinality(mine) <= 3
      <3>1. mine \subseteq 1..(nextReport - 1) /\ nextReport \in Nat
        BY <1>2 DEF IndInv, TypeOK, TablesOK, ReportsBy, ReportsOf, Id
      <3>2. Cardinality(mine) \in Nat
        <4>1. IsFiniteSet(1..(nextReport - 1))
          BY <3>1, FS_Interval
        <4>2. IsFiniteSet(mine)
          BY <3>1, <4>1, FS_Subset
        <4>3. QED
          BY <4>2, FS_CardinalityType
      <3>3. obj[q].id \in DOMAIN crackers /\ sub[q].client \in Client
        BY <1>2, <2>1, MergeHolds DEF IndInv, StoreOK, ObjectsOK, RequestCritical, Stamp
      <3>4. QED
        BY <3>2, <3>3 DEF MergeInv, AtMostThree
    <2>6. CASE mine = {}
      <3>1. pc'[q] = "insert"
        BY <1>1, <1>4, <2>6, FS_EmptySet DEF FindReports, Full
      <3>2. Cardinality(mine) < 3
        BY <2>6, FS_EmptySet
      <3>3. QED
        BY <2>4, <2>6, <3>1, <3>2 DEF MergeOK
    <2>7. CASE mine # {} /\ ~Full(mine)
      <3>1. PICK r \in Latest(mine) :
              pc' = [pc EXCEPT ![q] = IF when > reports[r].latest + DAY THEN "insert" ELSE "save"]
        BY <1>4, <2>7 DEF FindReports
      <3>2. Cardinality(mine) < 3
        BY <2>5, <2>7 DEF Full
      <3>3. CASE when > reports[r].latest + DAY
        <4>1. pc'[q] = "insert"
          BY <1>1, <3>1, <3>3
        <4>2. ASSUME NEW s \in mine
              PROVE  when > reports[s].latest + DAY
          <5>1. /\ reports[s].latest <= reports[r].latest /\ reports[s].latest \in Int
                /\ reports[r].latest \in Int /\ when \in Int /\ DAY \in Int
            BY <1>2, <2>1, MergeHolds, TimeAssumption
            DEF Latest, IndInv, TypeOK, TablesOK, ReportRow, ReportsBy, ReportsOf, RequestCritical,
                Stamp
          <5>2. QED
            BY <3>3, <5>1
        <4>3. QED
          BY <2>1, <2>4, <3>2, <4>1, <4>2 DEF MergeOK
      <3>4. CASE ~(when > reports[r].latest + DAY)
        BY <1>1, <3>1, <3>4 DEF MergeOK
      <3>5. QED
        BY <3>3, <3>4
    <2>8. CASE Full(mine)
      <3>0. mine # {}
        <4>1. Cardinality(mine) # 0
          BY <2>8 DEF Full
        <4>2. QED
          BY <4>1, FS_EmptySet
      <3>1. PICK r \in Latest(mine) :
              /\ rpt' = [rpt EXCEPT ![q] = [id |-> r, row |-> [reports[r] EXCEPT !.latest = when]]]
              /\ pc' = [pc EXCEPT ![q] = "touch"]
        BY <1>4, <2>8, <3>0 DEF FindReports
      <3>2. /\ pc'[q] = "touch" /\ Cardinality(mine) = 3
            /\ rpt'[q] = [id |-> r, row |-> [reports[r] EXCEPT !.latest = when]]
        <4>1. Cardinality(mine) = 3
          BY <2>5, <2>8 DEF Full
        <4>2. QED
          BY <1>1, <3>1, <4>1
      <3>3. rpt'[q].id = r /\ rpt'[q].row = [reports[r] EXCEPT !.latest = when]
        BY <3>2
      <3>4. QED
        BY <2>1, <2>4, <3>1, <3>2, <3>3 DEF MergeOK
    <2>9. QED
      BY <2>6, <2>7, <2>8
  <1>5. CASE \/ Accept(q) \/ Lock(q) \/ FindCracker(q) \/ CreateCracker(q) \/ LinkReport(q)
             \/ TouchReport(q) \/ SaveCracker(q) \/ UnlockHost(q) \/ FailRequest(q)
    <2>1. pc'[q] \notin {"insert", "link", "touch"}
      BY <1>1, <1>5 DEF Accept, Lock, FindCracker, CreateCracker, LinkReport, TouchReport,
                        SaveCracker, UnlockHost, FailRequest, Finish
    <2>2. QED
      BY <2>1 DEF MergeOK
  <1>6. QED
    BY <1>3, <1>4, <1>5 DEF RequestStep

\* handle_report_from_client disturbs no merge.
LEMMA RequestMerges ==
  ASSUME MergeInv, NEW q \in Request, Accept(q) \/ RequestStep(q) \/ FailRequest(q)
  PROVE  MergesOK'
  <1>1. \A p \in Request : MergeOK(p)'
    BY OwnMerge, OtherMerges
  <1>2. LinksOK'
    <2>1. \A p \in Request \ {q} : pc'[p] = pc[p] /\ rpt'[p] = rpt[p]
      BY RequestAlone DEF MergeInv, IndInv, Task
    <2>2. \A p \in Request : pc[p] = "link" => rpt[p].id \in DOMAIN reports
      BY DEF MergeInv, MergesOK, MergeOK
    <2>3. \/ pc'[q] # "link"
          \/ rpt'[q].id \notin DOMAIN reports
      BY RequestRows, InsertFacts, LinkFacts, TouchFacts
    <2>4. LinksOK
      BY DEF MergeInv, MergesOK
    <2>5. QED
      BY <2>1, <2>2, <2>3, <2>4 DEF LinksOK
  <1>3. QED
    BY <1>1, <1>2 DEF MergesOK

\* perform_maintenance disturbs no merge.
LEMMA JobMerges ==
  ASSUME MergeInv, NEW j \in Job, JobStep(j) \/ FailJob(j)
  PROVE  MergesOK'
  <1>1. \A p \in Request : /\ pc'[p] = pc[p] /\ obj'[p] = obj[p] /\ sub'[p] = sub[p]
                           /\ rpt'[p] = rpt[p]
    BY JobAlone DEF MergeInv, IndInv, Task
  <1>2. LinksOK'
    BY <1>1 DEF MergeInv, MergesOK, LinksOK
  <1>3. ASSUME NEW p \in Request
        PROVE  MergeOK(p)'
    <2>1. pc[p] \in {"insert", "link", "touch"} => obj[p].id # NULL
      BY MergeHolds DEF MergeInv, RequestCritical
    <2>2. CASE ClearReport(j)
      <3>1. /\ RowsBut(rpt[j].id) /\ pc[j] = "clear"
            /\ rpt[j].id \in DOMAIN reports' <=> rpt[j].id \in DOMAIN reports
            /\ rpt[j].id \in DOMAIN reports => reports[rpt[j].id].cracker \in {obj[j].id, NULL}
        BY <2>2, ClearFacts
      <3>2. rpt[j].id \in DOMAIN reports' => reports'[rpt[j].id].cracker = NULL
        <4>1. rpt[j].id \in DOMAIN reports' =>
                /\ reports[rpt[j].id] \in ReportRow
                /\ reports'[rpt[j].id] = [reports[rpt[j].id] EXCEPT !.cracker = NULL]
          BY <2>2, ClearFacts
        <4>2. QED
          BY <4>1 DEF ReportRow
      <3>3. pc[p] \in {"insert", "link", "touch"} => obj[p].id # obj[j].id
        BY <3>1, DifferentCrackers DEF MergeInv, IndInv, StoreOK, RequestCritical, JobCritical
      <3>4. pc[p] = "link" => rpt[p].id # rpt[j].id
        BY <3>1, JobReads
      <3>5. QED
        BY <1>1, <2>1, <3>1, <3>2, <3>3, <3>4, MergeKept
    <2>3. CASE DeleteReport(j)
      <3>1. /\ RowsBut(rpt[j].id) /\ pc[j] = "delete" /\ rpt[j].id \notin DOMAIN reports'
            /\ rpt[j].id \in DOMAIN reports => reports[rpt[j].id].cracker = NULL
        BY <2>3, DeleteFacts
      <3>2. pc[p] = "link" => rpt[p].id # rpt[j].id
        BY <3>1, JobReads
      <3>3. QED
        BY <1>1, <2>1, <3>1, <3>2, MergeKept
    <2>4. CASE UNCHANGED reports
      BY <1>1, <2>4, QuietKept
    <2>5. QED
      BY <2>2, <2>3, <2>4, JobRows
  <1>4. QED
    BY <1>2, <1>3 DEF MergesOK

\* No cracker has four reports of a client after a step that links none.
LEMMA NoMore ==
  ASSUME MergeInv,
         \A c \in DOMAIN crackers' : c \in DOMAIN crackers \/ c = nextCracker,
         \A r \in DOMAIN reports' : reports'[r].cracker # NULL =>
           /\ r \in DOMAIN reports /\ reports'[r].cracker = reports[r].cracker
           /\ reports'[r].ip = reports[r].ip
  PROVE  AtMostThree'
  <1>1. ASSUME NEW c \in DOMAIN crackers', NEW cl \in Client
        PROVE  Cardinality(ReportsBy(c, cl)') <= 3
    <2>1. /\ nextReport \in Nat /\ nextCracker \in Nat /\ nextCracker \notin DOMAIN crackers
          /\ DOMAIN crackers \subseteq Id /\ nextCracker \in Id
          /\ DOMAIN reports \subseteq 1..(nextReport - 1)
      BY DEF MergeInv, IndInv, TypeOK, TablesOK, Id
    <2>2. c # NULL
      BY <2>1 DEF Id
    <2>3. ReportsBy(c, cl)' \subseteq ReportsBy(c, cl)
      BY <2>2 DEF ReportsBy, ReportsOf
    <2>4. IsFiniteSet(ReportsBy(c, cl))
      <3>1. IsFiniteSet(1..(nextReport - 1))
        BY <2>1, FS_Interval
      <3>2. ReportsBy(c, cl) \subseteq 1..(nextReport - 1)
        BY <2>1 DEF ReportsBy, ReportsOf
      <3>3. QED
        BY <3>1, <3>2, FS_Subset
    <2>5. /\ Cardinality(ReportsBy(c, cl)) \in Nat /\ Cardinality(ReportsBy(c, cl)') \in Nat
          /\ Cardinality(ReportsBy(c, cl)') <= Cardinality(ReportsBy(c, cl))
      BY <2>3, <2>4, FS_Subset, FS_CardinalityType
    <2>6. CASE c \in DOMAIN crackers
      BY <2>5, <2>6 DEF MergeInv, AtMostThree
    <2>7. CASE c = nextCracker
      <3>1. ReportsBy(c, cl) = {}
        BY <2>1, <2>2, <2>7 DEF MergeInv, IndInv, StoreOK, NoDanglingReport, ReportsBy, ReportsOf
      <3>2. Cardinality(ReportsBy(c, cl)) = 0
        BY <3>1, FS_EmptySet
      <3>3. QED
        BY <2>5, <3>2
    <2>8. QED
      BY <2>6, <2>7
  <1>2. QED
    BY <1>1 DEF AtMostThree

\* LinkReport adds one to at most two.
LEMMA OneMore ==
  ASSUME MergeInv, NEW q \in Request, LinkReport(q)
  PROVE  AtMostThree'
  <1> DEFINE i == rpt[q].id
  <1>1. /\ RowsBut(i) /\ i \in DOMAIN reports /\ i \in DOMAIN reports'
        /\ UNCHANGED crackers /\ pc[q] = "link"
    BY LinkFacts
  <1>2. reports[i].cracker = NULL
    <2>1. reports[i] = [cracker |-> NULL, ip |-> sub[q].client,
                        first |-> sub[q].when, latest |-> sub[q].when]
      BY LinkFacts
    <2>2. QED
      BY <2>1
  <1>3. reports'[i].cracker = obj[q].id /\ reports'[i].ip = sub[q].client
    <2>1. reports'[i] = [cracker |-> obj[q].id, ip |-> sub[q].client,
                         first |-> sub[q].when, latest |-> sub[q].when]
      BY LinkFacts
    <2>2. QED
      BY <2>1
  <1> HIDE DEF i
  <1>4. ASSUME NEW c \in DOMAIN crackers, NEW cl \in Client
        PROVE  Cardinality(ReportsBy(c, cl)') <= 3
    <2>1. nextReport \in Nat /\ DOMAIN reports \subseteq 1..(nextReport - 1)
      BY DEF MergeInv, IndInv, TypeOK, TablesOK, Id
    <2>2. IsFiniteSet(ReportsBy(c, cl))
      <3>1. IsFiniteSet(1..(nextReport - 1))
        BY <2>1, FS_Interval
      <3>2. ReportsBy(c, cl) \subseteq 1..(nextReport - 1)
        BY <2>1 DEF ReportsBy, ReportsOf
      <3>3. QED
        BY <3>1, <3>2, FS_Subset
    <2>3. c # NULL
      BY DEF MergeInv, IndInv, TypeOK, TablesOK, Id
    <2>4. CASE c = obj[q].id /\ cl = sub[q].client
      <3>1. ReportsBy(c, cl)' = ReportsBy(c, cl) \cup {i} /\ i \notin ReportsBy(c, cl)
        BY <1>1, <1>2, <1>3, <2>3, <2>4 DEF RowsBut, ReportsBy, ReportsOf
      <3>2. Cardinality(ReportsBy(c, cl)') = Cardinality(ReportsBy(c, cl)) + 1
        BY <2>2, <3>1, FS_AddElement
      <3>3. Cardinality(ReportsBy(c, cl)) < 3
        BY <1>1, <2>4 DEF MergeInv, MergesOK, MergeOK, Mine
      <3>4. Cardinality(ReportsBy(c, cl)) \in Nat
        BY <2>2, FS_CardinalityType
      <3>5. QED
        BY <3>2, <3>3, <3>4
    <2>5. CASE ~(c = obj[q].id /\ cl = sub[q].client)
      <3>1. ReportsBy(c, cl)' = ReportsBy(c, cl)
        BY <1>1, <1>2, <1>3, <2>3, <2>5 DEF RowsBut, ReportsBy, ReportsOf
      <3>2. QED
        BY <3>1 DEF MergeInv, AtMostThree
    <2>6. QED
      BY <2>4, <2>5
  <1>5. QED
    BY <1>1, <1>4 DEF AtMostThree

LEMMA RequestThree ==
  ASSUME MergeInv, NEW q \in Request, Accept(q) \/ RequestStep(q) \/ FailRequest(q)
  PROVE  AtMostThree'
  <1>1. CASE LinkReport(q)
    BY <1>1, OneMore
  <1>2. CASE TouchReport(q)
    <2>1. UNCHANGED crackers /\ RowsBut(rpt[q].id) /\ rpt[q].id \in DOMAIN reports
      BY <1>2, TouchFacts
    <2>2. /\ reports'[rpt[q].id].cracker = reports[rpt[q].id].cracker
          /\ reports'[rpt[q].id].ip = reports[rpt[q].id].ip
      <3>1. /\ reports'[rpt[q].id] = [reports[rpt[q].id] EXCEPT !.latest = sub[q].when]
            /\ reports[rpt[q].id] \in ReportRow
        BY <1>2, TouchFacts
      <3>2. QED
        BY <3>1 DEF ReportRow
    <2>3. QED
      BY <2>1, <2>2, NoMore DEF RowsBut
  <1>3. CASE InsertReport(q)
    <2>1. UNCHANGED crackers /\ RowsBut(nextReport)
      BY <1>3, InsertFacts
    <2>2. reports'[nextReport].cracker = NULL
      <3>1. reports'[nextReport] = [cracker |-> NULL, ip |-> sub[q].client,
                                    first |-> sub[q].when, latest |-> sub[q].when]
        BY <1>3, InsertFacts
      <3>2. QED
        BY <3>1
    <2>3. QED
      BY <2>1, <2>2, NoMore DEF RowsBut
  <1>4. CASE UNCHANGED reports /\ ~LinkReport(q) /\ ~TouchReport(q) /\ ~InsertReport(q)
    <2>1. \A c \in DOMAIN crackers' : c \in DOMAIN crackers \/ c = nextCracker
      BY <1>4 DEF Accept, RequestStep, Lock, FindCracker, CreateCracker, FindReports, SaveCracker,
                  UnlockHost, FailRequest, InsertRow, UpdateRow
    <2>2. QED
      BY <1>4, <2>1, NoMore
  <1>5. QED
    BY <1>1, <1>2, <1>3, <1>4, RequestRows

LEMMA JobThree ==
  ASSUME MergeInv, NEW j \in Job, JobStep(j) \/ FailJob(j)
  PROVE  AtMostThree'
  <1>1. DOMAIN crackers' \subseteq DOMAIN crackers
    BY DEF JobStep, StartJob, ScanReports, FetchCracker, FetchNoCracker, Lock, ClearReport,
           DeleteReport, CountReporters, WriteBackCracker, DropCracker, ReleaseHost, FailJob,
           UpdateRow, DeleteRow, Restrict
  <1>2. CASE ClearReport(j)
    <2>1. /\ RowsBut(rpt[j].id)
          /\ rpt[j].id \in DOMAIN reports' <=> rpt[j].id \in DOMAIN reports
      BY <1>2, ClearFacts
    <2>2. rpt[j].id \in DOMAIN reports => reports'[rpt[j].id].cracker = NULL
      <3>1. rpt[j].id \in DOMAIN reports =>
              /\ reports'[rpt[j].id] = [reports[rpt[j].id] EXCEPT !.cracker = NULL]
              /\ reports[rpt[j].id] \in ReportRow
        BY <1>2, ClearFacts
      <3>2. QED
        BY <3>1 DEF ReportRow
    <2>3. QED
      BY <1>1, <2>1, <2>2, NoMore DEF RowsBut
  <1>3. CASE DeleteReport(j)
    <2>1. RowsBut(rpt[j].id) /\ rpt[j].id \notin DOMAIN reports'
      BY <1>3, DeleteFacts
    <2>2. QED
      BY <1>1, <2>1, NoMore DEF RowsBut
  <1>4. CASE UNCHANGED reports
    BY <1>1, <1>4, NoMore
  <1>5. QED
    BY <1>2, <1>3, <1>4, JobRows

--------------------------------------------------------------------------------
(* The theorems about the merging rule and expiry.                            *)

LEMMA MergeInit == Init => MergeInv
  <1> SUFFICES ASSUME Init PROVE MergeInv
    OBVIOUS
  <1>1. IndInv
    BY IndInit
  <1>2. BatchesOK
    BY DEF Init, BatchesOK, BatchOK, Task
  <1>3. MergesOK
    BY DEF Init, MergesOK, MergeOK, LinksOK, Task
  <1>4. AtMostThree
    BY DEF Init, AtMostThree
  <1>5. QED
    BY <1>1, <1>2, <1>3, <1>4 DEF MergeInv

\* Every step keeps the merges and the batches.
LEMMA MergeStep ==
  ASSUME MergeInv, [Next]_vars
  PROVE  MergeInv'
  <1>1. IndInv'
    BY IndStep DEF MergeInv
  <1>2. ASSUME NEW q \in Request, Accept(q) \/ RequestStep(q) \/ FailRequest(q)
        PROVE  BatchesOK' /\ MergesOK' /\ AtMostThree'
    BY <1>2, RequestBatches, RequestMerges, RequestThree
  <1>3. ASSUME NEW j \in Job, JobStep(j) \/ FailJob(j)
        PROVE  BatchesOK' /\ MergesOK' /\ AtMostThree'
    BY <1>3, JobBatches, JobMerges, JobThree
  <1>4. CASE Restart
    <2>1. /\ UNCHANGED <<crackers, reports>>
          /\ \A t \in Task : pc'[t] = "idle"
          /\ \A j \in Job : batch'[j] = {}
      BY <1>4 DEF Restart
    <2>2. BatchesOK'
      BY <2>1 DEF BatchesOK, BatchOK, Task
    <2>3. MergesOK'
      BY <2>1 DEF MergesOK, MergeOK, LinksOK, Task
    <2>4. AtMostThree'
      BY <2>1, NoMore
    <2>5. QED
      BY <1>1, <2>2, <2>3, <2>4 DEF MergeInv
  <1>5. CASE Tick \/ UNCHANGED vars
    <2>1. UNCHANGED <<tables, pc, locals>> /\ now' \in {now, now + 1}
      BY <1>5 DEF Tick, vars
    <2>2. now \in Nat /\ nextReport \in Nat
      BY DEF MergeInv, IndInv, TypeOK, ControlOK, TablesOK, Id
    <2>3. BatchesOK'
      <3>1. RowsKept
        BY <2>1, <2>2 DEF RowsKept
      <3>2. QED
        BY <2>1, <3>1, BatchKept DEF BatchesOK
    <2>4. MergesOK'
      <3>1. \A p \in Request : MergeOK(p)'
        BY <2>1, QuietKept
      <3>2. LinksOK'
        BY <2>1 DEF MergeInv, MergesOK, LinksOK
      <3>3. QED
        BY <3>1, <3>2 DEF MergesOK
    <2>5. AtMostThree'
      BY <2>1, NoMore
    <2>6. QED
      BY <1>1, <2>3, <2>4, <2>5 DEF MergeInv
  <1>6. QED
    BY <1>1, <1>2, <1>3, <1>4, <1>5 DEF MergeInv, Next, Running

\* MergeInv is an invariant: the SELECTs of handle_report_from_client and of
\* perform_maintenance are still true when they are acted upon.
THEOREM MergeInvariant == Spec => []MergeInv
  BY MergeInit, MergeStep, PTL DEF Spec

\* A client never has more than three reports on a cracker (add_report_to_cracker).
THEOREM MergesAtMostThree == Spec => []AtMostThree
  <1>1. MergeInv => AtMostThree
    BY DEF MergeInv
  <1>2. QED
    BY <1>1, MergeInvariant, PTL

\* When a report gets a row of its own it is more than a day after the rows it is
\* compared with, although these were read three operations earlier.
THEOREM RowsAreSpaced == Spec => Spaced
  <1> DEFINE Apart ==
        \A s \in DOMAIN reports', r \in DOMAIN reports :
          /\ s \in DOMAIN reports => reports[s].cracker = NULL
          /\ reports'[s].cracker # NULL
          /\ reports[r].cracker = reports'[s].cracker
          /\ reports[r].ip = reports'[s].ip
          => reports'[s].first > reports[r].latest + DAY
  <1>1. ASSUME MergeInv, [Next]_vars PROVE [Apart]_vars
    <2>1. SUFFICES ASSUME NEW s \in DOMAIN reports', NEW r \in DOMAIN reports,
                          s \in DOMAIN reports => reports[s].cracker = NULL,
                          reports'[s].cracker # NULL,
                          reports[r].cracker = reports'[s].cracker,
                          reports[r].ip = reports'[s].ip
                   PROVE  reports'[s].first > reports[r].latest + DAY
      OBVIOUS
    <2>2. ~UNCHANGED reports
      BY <2>1
    <2>3. PICK t \in Task : \/ t \in Request /\ (Accept(t) \/ RequestStep(t) \/ FailRequest(t))
                            \/ t \in Job /\ (JobStep(t) \/ FailJob(t))
      BY <1>1, <2>2 DEF Next, Running, Restart, Tick, vars, Task
    <2>4. CASE t \in Request /\ (Accept(t) \/ RequestStep(t) \/ FailRequest(t))
      <3>1. CASE InsertReport(t)
        <4>1. RowsBut(nextReport)
          BY <1>1, <2>4, <3>1, InsertFacts
        <4>2. reports'[nextReport].cracker = NULL
          <5>1. reports'[nextReport] = [cracker |-> NULL, ip |-> sub[t].client,
                                        first |-> sub[t].when, latest |-> sub[t].when]
            BY <1>1, <2>4, <3>1, InsertFacts
          <5>2. QED
            BY <5>1
        <4>3. QED
          BY <2>1, <4>1, <4>2 DEF RowsBut
      <3>2. CASE LinkReport(t)
        <4>1. RowsBut(rpt[t].id) /\ pc[t] = "link"
          BY <1>1, <2>4, <3>2, LinkFacts
        <4>2. s = rpt[t].id
          BY <2>1, <4>1 DEF RowsBut
        <4>3. /\ reports'[s].cracker = obj[t].id /\ reports'[s].ip = sub[t].client
              /\ reports'[s].first = sub[t].when
          <5>1. reports'[s] = [cracker |-> obj[t].id, ip |-> sub[t].client,
                               first |-> sub[t].when, latest |-> sub[t].when]
            BY <1>1, <2>4, <3>2, <4>2, LinkFacts
          <5>2. QED
            BY <5>1
        <4>4. r \in Mine(t)
          BY <2>1, <4>3 DEF Mine, ReportsBy, ReportsOf
        <4>5. QED
          BY <1>1, <2>4, <4>1, <4>3, <4>4 DEF MergeInv, MergesOK, MergeOK
      <3>3. CASE TouchReport(t)
        <4>1. RowsBut(rpt[t].id) /\ rpt[t].id \in DOMAIN reports
          BY <1>1, <2>4, <3>3, TouchFacts
        <4>2. reports[rpt[t].id].cracker # NULL
          <5>1. reports[rpt[t].id].cracker = obj[t].id /\ pc[t] = "touch"
            BY <1>1, <2>4, <3>3, TouchFacts
          <5>2. obj[t].id # NULL
            BY <1>1, <2>4, <5>1, MergeHolds DEF MergeInv, RequestCritical
          <5>3. QED
            BY <5>1, <5>2
        <4>3. QED
          BY <2>1, <4>1, <4>2 DEF RowsBut
      <3>4. QED
        BY <1>1, <2>2, <2>4, <3>1, <3>2, <3>3, RequestRows
    <2>5. CASE t \in Job /\ (JobStep(t) \/ FailJob(t))
      <3>1. CASE ClearReport(t)
        <4>1. /\ RowsBut(rpt[t].id)
              /\ rpt[t].id \in DOMAIN reports' <=> rpt[t].id \in DOMAIN reports
          BY <1>1, <2>5, <3>1, ClearFacts
        <4>2. rpt[t].id \in DOMAIN reports => reports'[rpt[t].id].cracker = NULL
          <5>1. rpt[t].id \in DOMAIN reports =>
                  /\ reports'[rpt[t].id] = [reports[rpt[t].id] EXCEPT !.cracker = NULL]
                  /\ reports[rpt[t].id] \in ReportRow
            BY <1>1, <2>5, <3>1, ClearFacts
          <5>2. QED
            BY <5>1 DEF ReportRow
        <4>3. QED
          BY <2>1, <4>1, <4>2 DEF RowsBut
      <3>2. CASE DeleteReport(t)
        <4>1. RowsBut(rpt[t].id) /\ rpt[t].id \notin DOMAIN reports'
          BY <1>1, <2>5, <3>2, DeleteFacts
        <4>2. QED
          BY <2>1, <4>1 DEF RowsBut
      <3>3. QED
        BY <1>1, <2>2, <2>5, <3>1, <3>2, JobRows
    <2>6. QED
      BY <2>3, <2>4, <2>5
  <1>2. QED
    BY <1>1, MergeInvariant, PTL DEF Spaced, Spec

\* perform_maintenance deletes only what had expired when it read it, a refresh apart.
THEOREM DeletesOnlyOld == Spec => OnlyOldReportsDeleted
  <1> DEFINE Expired ==
        \A r \in DOMAIN reports \ DOMAIN reports' :
          \E j \in Job :
            /\ pc[j] = "delete" /\ rpt[j].id = r /\ rpt[j].row.latest < now - EXPIRY
            /\ [rpt[j].row EXCEPT !.latest = reports[r].latest, !.cracker = NULL] = reports[r]
  <1>1. ASSUME MergeInv, [Next]_vars PROVE [Expired]_vars
    <2>1. SUFFICES ASSUME NEW r \in DOMAIN reports \ DOMAIN reports'
                   PROVE  \E j \in Job :
                     /\ pc[j] = "delete" /\ rpt[j].id = r /\ rpt[j].row.latest < now - EXPIRY
                     /\ [rpt[j].row EXCEPT !.latest = reports[r].latest, !.cracker = NULL]
                          = reports[r]
      OBVIOUS
    <2>2. ~UNCHANGED reports
      BY <2>1
    <2>3. PICK t \in Task : \/ t \in Request /\ (Accept(t) \/ RequestStep(t) \/ FailRequest(t))
                            \/ t \in Job /\ (JobStep(t) \/ FailJob(t))
      BY <1>1, <2>2 DEF Next, Running, Restart, Tick, vars, Task
    <2>4. t \in Job /\ DeleteReport(t)
      <3>1. CASE t \in Request
        <4>1. CASE InsertReport(t)
          BY <1>1, <2>1, <3>1, <4>1, InsertFacts DEF RowsBut
        <4>2. CASE LinkReport(t)
          BY <1>1, <2>1, <3>1, <4>2, LinkFacts DEF RowsBut
        <4>3. CASE TouchReport(t)
          BY <1>1, <2>1, <3>1, <4>3, TouchFacts DEF RowsBut
        <4>4. QED
          BY <1>1, <2>2, <2>3, <3>1, <4>1, <4>2, <4>3, RequestRows
      <3>2. CASE t \in Job
        <4>1. CASE ClearReport(t)
          BY <1>1, <2>1, <3>2, <4>1, ClearFacts DEF RowsBut
        <4>2. QED
          BY <1>1, <2>2, <2>3, <3>2, <4>1, JobRows
      <3>3. QED
        BY <3>1, <3>2 DEF Task
    <2>5. pc[t] = "delete" /\ rpt[t].id = r
      BY <1>1, <2>1, <2>4, DeleteFacts DEF RowsBut
    <2>6. /\ BatchOK(t) /\ rpt[t] \in ReportObj /\ reports[r] \in ReportRow
          /\ now \in Nat /\ limit[t] \in Int
      BY <1>1, <2>1, <2>4, <2>5, JobHolds DEF MergeInv, BatchesOK, IndInv, TypeOK, TablesOK,
         ControlOK, MemoryOK
    <2>7. /\ rpt[t].row \in ReportRow /\ rpt[t].row.latest < limit[t] /\ limit[t] <= now - EXPIRY
          /\ reports[r].first = rpt[t].row.first /\ reports[r].ip = rpt[t].row.ip
          /\ reports[r].cracker = NULL
      BY <2>1, <2>5, <2>6 DEF BatchOK, Read, ReportObj
    <2>8. rpt[t].row.latest < now - EXPIRY
      BY <2>6, <2>7, TimeAssumption DEF ReportRow
    <2>9. [rpt[t].row EXCEPT !.latest = reports[r].latest, !.cracker = NULL] = reports[r]
      BY <2>6, <2>7 DEF ReportRow
    <2>10. QED
      BY <2>4, <2>5, <2>8, <2>9
  <1>2. QED
    BY <1>1, MergeInvariant, PTL DEF OnlyOldReportsDeleted, Spec

--------------------------------------------------------------------------------
(* The tables implement ReportLedger.                                         *)

\* A cracker that a report refers to keeps its row and its address in every step; a new
\* row gets a new id.
CrackersKept ==
  /\ \A c \in DOMAIN crackers : ReportsOf(c) # {} =>
       c \in DOMAIN crackers' /\ crackers'[c].ip = crackers[c].ip
  /\ \A c \in DOMAIN crackers' : c \in DOMAIN crackers \/ ReportsOf(c) = {}

LEMMA RequestCrackers ==
  ASSUME IndInv, NEW q \in Request, Accept(q) \/ RequestStep(q) \/ FailRequest(q)
  PROVE  CrackersKept
  <1>1. CASE CreateCracker(q)
    <2>1. nextCracker \notin DOMAIN crackers /\ nextCracker # NULL
      BY DEF IndInv, TypeOK, TablesOK, Id
    <2>2. ReportsOf(nextCracker) = {}
      BY <2>1 DEF IndInv, StoreOK, NoDanglingReport, ReportsOf
    <2> DEFINE row == obj[q].row
    <2>3. crackers' = InsertRow(crackers, nextCracker, row)
      BY <1>1 DEF CreateCracker
    <2> HIDE DEF row
    <2>4. QED
      BY <2>1, <2>2, <2>3 DEF InsertRow, CrackersKept
  <1>2. CASE SaveCracker(q)
    <2> DEFINE row == [obj[q].row EXCEPT !.total = @ + 1, !.latest = sub[q].when,
                         !.resil = sub[q].when - obj[q].row.first]
               c == obj[q].id
    <2>1. crackers' = UpdateRow(crackers, c, row) /\ pc[q] = "save"
      BY <1>2 DEF SaveCracker
    <2>2. obj[q].row \in CrackerRow /\ row.ip = obj[q].row.ip
      BY <2>1, RequestHolds DEF RequestCritical, IndInv, CrackerRow
    <2>3. crackers[c].ip = obj[q].row.ip
      BY <2>1 DEF IndInv, LocalsOK, StoreOK, ObjectsOK, RequestCritical, Task
    <2>4. row.ip = crackers[c].ip
      BY <2>2, <2>3
    <2> HIDE DEF row, c
    <2>5. QED
      BY <2>1, <2>4 DEF UpdateRow, CrackersKept
  <1>3. CASE UNCHANGED crackers
    BY <1>3 DEF CrackersKept
  <1>4. QED
    BY <1>1, <1>2, <1>3 DEF Accept, RequestStep, Lock, FindCracker, FindReports, InsertReport,
                            LinkReport, TouchReport, UnlockHost, FailRequest

LEMMA JobCrackers ==
  ASSUME IndInv, NEW j \in Job, JobStep(j) \/ FailJob(j)
  PROVE  CrackersKept
  <1>1. CASE WriteBackCracker(j)
    <2> DEFINE c == obj[j].id
               row == obj[j].row
    <2>1. crackers' = UpdateRow(crackers, c, row) /\ pc[j] = "writeback"
      BY <1>1 DEF WriteBackCracker
    <2>2. c \in DOMAIN crackers => row.ip = crackers[c].ip
      BY <2>1 DEF IndInv, LocalsOK, StoreOK, ObjectsOK, JobCritical, Task
    <2> HIDE DEF row, c
    <2>3. QED
      BY <2>1, <2>2 DEF UpdateRow, CrackersKept
  <1>2. CASE DropCracker(j)
    <2> DEFINE c == obj[j].id
    <2>1. crackers' = DeleteRow(crackers, c) /\ pc[j] = "drop"
      BY <1>2 DEF DropCracker
    <2>2. ReportsOf(c) = {}
      BY <2>1 DEF IndInv, StoreOK, DropsOK
    <2> HIDE DEF c
    <2>3. DOMAIN crackers' = DOMAIN crackers \ {c} /\ \A d \in DOMAIN crackers' : crackers'[d] = crackers[d]
      BY <2>1 DEF DeleteRow, Restrict
    <2>4. QED
      BY <2>2, <2>3 DEF CrackersKept
  <1>3. CASE UNCHANGED crackers
    BY <1>3 DEF CrackersKept
  <1>4. QED
    BY <1>1, <1>2, <1>3 DEF JobStep, StartJob, ScanReports, FetchCracker, FetchNoCracker, Lock,
       ClearReport, DeleteReport, CountReporters, ReleaseHost, FailJob

\* The entry of a report.
Entry(r) == [host |-> crackers[reports[r].cracker].ip, client |-> reports[r].ip,
             first |-> reports[r].first, latest |-> reports[r].latest]

LEMMA EntryFacts ==
  /\ DOMAIN Entries = {r \in DOMAIN reports : reports[r].cracker \in DOMAIN crackers}
  /\ \A r \in DOMAIN Entries : Entries[r] = Entry(r)
  /\ Entries = [r \in DOMAIN Entries |-> Entry(r)]
  BY DEF Entries, Entry

\* The entry of a report whose row does not change.
LEMMA EntryKept ==
  ASSUME CrackersKept, NEW r \in DOMAIN reports, r \in DOMAIN reports', reports'[r] = reports[r]
  PROVE  /\ r \in DOMAIN Entries' <=> r \in DOMAIN Entries
         /\ r \in DOMAIN Entries => Entries'[r] = Entries[r]
  <1> DEFINE c == reports[r].cracker
  <1>1. ReportsOf(c) # {}
    BY DEF ReportsOf
  <1>2. c \in DOMAIN crackers' <=> c \in DOMAIN crackers
    BY <1>1 DEF CrackersKept
  <1>3. c \in DOMAIN crackers => crackers'[c].ip = crackers[c].ip
    BY <1>1 DEF CrackersKept
  <1>4. r \in DOMAIN Entries' <=> r \in DOMAIN Entries
    BY <1>2, EntryFacts DEF Entries
  <1>5. c \in DOMAIN crackers => Entry(r)' = Entry(r)
    BY <1>3 DEF Entry
  <1>6. r \in DOMAIN Entries => c \in DOMAIN crackers
    BY DEF Entries
  <1>7. r \in DOMAIN Entries => Entries[r] = Entry(r) /\ Entries'[r] = Entry(r)'
    BY <1>4 DEF Entries, Entry
  <1>8. QED
    BY <1>4, <1>5, <1>6, <1>7

LEMMA EntriesSame ==
  ASSUME CrackersKept, UNCHANGED reports
  PROVE  Entries' = Entries
  <1>1. DOMAIN Entries' \subseteq DOMAIN reports /\ DOMAIN Entries \subseteq DOMAIN reports
    BY DEF Entries
  <1>2. DOMAIN Entries' = DOMAIN Entries /\ \A r \in DOMAIN Entries : Entries'[r] = Entries[r]
    BY <1>1, EntryKept
  <1>3. Entries = [r \in DOMAIN Entries |-> Entries[r]]
    BY DEF Entries
  <1>4. Entries' = [r \in DOMAIN Entries' |-> Entries'[r]]
    BY DEF Entries
  <1>5. QED
    BY <1>2, <1>3, <1>4

\* The entries a request is merged with in the ledger are its reports in the tables.
LEMMA MineIsEntries ==
  ASSUME IndInv, NEW q \in Request, pc[q] \in RequestCritical \ {"find", "create"}
  PROVE  Ledger!Entries(HostOf(q), sub[q].client) = Mine(q)
  <1>1. obj[q].id \in DOMAIN crackers /\ crackers[obj[q].id].ip = HostOf(q)
    BY DEF IndInv, LocalsOK, StoreOK, ObjectsOK, Task
  <1>2. \A c \in DOMAIN crackers : crackers[c].ip = HostOf(q) => c = obj[q].id
    BY <1>1 DEF IndInv, StoreOK, CreateIsFresh
  <1>3. Ledger!Entries(HostOf(q), sub[q].client)
          = {e \in DOMAIN Entries : Entries[e].host = HostOf(q) /\ Entries[e].client = sub[q].client}
    BY DEF Ledger!Entries
  <1>4. \A r \in DOMAIN Entries : /\ r \in DOMAIN reports
                                  /\ reports[r].cracker \in DOMAIN crackers
                                  /\ Entries[r].host = crackers[reports[r].cracker].ip
                                  /\ Entries[r].client = reports[r].ip
    BY DEF Entries
  <1>5. \A r \in Mine(q) : r \in DOMAIN Entries
    BY <1>1 DEF Mine, ReportsBy, ReportsOf, Entries
  <1>6. \A r : r \in Mine(q) <=> /\ r \in DOMAIN reports /\ reports[r].cracker = obj[q].id
                                 /\ reports[r].ip = sub[q].client
    BY DEF Mine, ReportsBy, ReportsOf
  <1>7. \A r \in Mine(q) : r \in Ledger!Entries(HostOf(q), sub[q].client)
    BY <1>1, <1>3, <1>4, <1>5, <1>6
  <1>8. \A r \in Ledger!Entries(HostOf(q), sub[q].client) : r \in Mine(q)
    BY <1>2, <1>3, <1>4, <1>6
  <1>9. QED
    BY <1>7, <1>8

\* A request that merges waits in the ledger for the host at the head of its list.
LEMMA MergeWaits ==
  ASSUME IndInv, NEW q \in Request, pc[q] \notin {"idle", "save", "unlock"}
  PROVE  Waiting[q] = [client |-> sub[q].client, when |-> sub[q].when, hosts |-> todo[q]]
  <1>1. Unmerged(q) = todo[q]
    BY DEF Unmerged
  <1>2. Continues(todo[q])
    BY DEF IndInv, LocalsOK
  <1>3. QED
    BY <1>1, <1>2 DEF Waiting

\* A request whose hosts left to be merged do not change waits as before.
LEMMA WaitingKept ==
  ASSUME NEW p \in Request, Unmerged(p)' = Unmerged(p), sub'[p] = sub[p],
         pc'[p] = "idle" <=> pc[p] = "idle"
  PROVE  Waiting'[p] = Waiting[p]
  BY DEF Waiting, Continues

\* What a request waits for when its head is merged.
LEMMA MergedWaits ==
  ASSUME IndInv, NEW q \in Request, pc[q] \notin {"idle", "save", "unlock"}, pc'[q] = "save",
         UNCHANGED <<todo, sub>>
  PROVE  Waiting'[q] = Ledger!Pending(sub[q].client, sub[q].when, Tail(todo[q]))
  <1>1. Unmerged(q)' = Tail(todo[q])
    BY DEF Unmerged
  <1>2. Waiting'[q] = IF pc'[q] = "idle" \/ ~Continues(Unmerged(q)') THEN NULL
                      ELSE [client |-> sub'[q].client, when |-> sub'[q].when,
                            hosts |-> Unmerged(q)']
    BY DEF Waiting, Continues
  <1>3. Waiting'[q] = IF Continues(Tail(todo[q]))
                      THEN [client |-> sub[q].client, when |-> sub[q].when, hosts |-> Tail(todo[q])]
                      ELSE NULL
    BY <1>1, <1>2
  <1>4. QED
    BY <1>3 DEF Ledger!Pending, Ledger!Continues, Continues

\* A merge is a Record of the ledger.
LEMMA RecordStep ==
  ASSUME IndInv, NEW q \in Request, pc[q] \notin {"idle", "save", "unlock"}, pc'[q] = "save",
         UNCHANGED <<todo, sub, now>>,
         \A p \in Request \ {q} : pc'[p] = pc[p],
         \/ Ledger!Add(HostOf(q), sub[q].client, sub[q].when)
         \/ Ledger!Ignore(HostOf(q), sub[q].client, sub[q].when)
         \/ Ledger!Move(HostOf(q), sub[q].client, sub[q].when)
  PROVE  Ledger!Record(q)
  <1> DEFINE w == [client |-> sub[q].client, when |-> sub[q].when, hosts |-> todo[q]]
  <1>1. Waiting[q] = w
    BY MergeWaits
  <1>2. w # NULL
    <2>1. todo[q] \in Seq(Host \cup {BadHost}) /\ sub[q] \in Stamp
      BY RequestHolds DEF IndInv
    <2>2. w \in Service
      BY <2>1 DEF Service, Stamp
    <2>3. QED
      BY <2>2, ServiceAssumption
  <1>3. w.client = sub[q].client /\ w.when = sub[q].when /\ w.hosts = todo[q]
    OBVIOUS
  <1>4. Head(w.hosts) = HostOf(q)
    BY <1>3 DEF HostOf
  <1>5. \A p \in Request \ {q} : Waiting'[p] = Waiting[p]
    <2>1. ASSUME NEW p \in Request \ {q} PROVE Unmerged(p)' = Unmerged(p)
      BY DEF Unmerged
    <2>2. QED
      BY <2>1, WaitingKept
  <1>6. Waiting'[q] = Ledger!Pending(w.client, w.when, Tail(w.hosts))
    BY <1>3, MergedWaits
  <1> HIDE DEF w
  <1>7. Waiting' = [Waiting EXCEPT ![q] = Ledger!Pending(w.client, w.when, Tail(w.hosts))]
    <2>1. Waiting = [p \in Request |-> Waiting[p]] /\ Waiting' = [p \in Request |-> Waiting'[p]]
      BY DEF Waiting
    <2>2. QED
      BY <1>5, <1>6, <2>1
  <1>8. QED
    BY <1>1, <1>2, <1>3, <1>4, <1>7 DEF Ledger!Record

\* The ledger's copies of library operators are those of the tables.
LEMMA SameCardinality == \A S : Ledger!Cardinality(S) = Cardinality(S)
  BY DEF Ledger!Cardinality, Cardinality

LEMMA SameRestrict == \A f, S : Ledger!Restrict(f, S) = Restrict(f, S)
  BY DEF Ledger!Restrict, Restrict

\* report.cracker.set is an Add.
LEMMA LinkAdds ==
  ASSUME MergeInv, NEW q \in Request, LinkReport(q)
  PROVE  Ledger!Add(HostOf(q), sub[q].client, sub[q].when)
  <1>0. PICK i, c : i = rpt[q].id /\ c = obj[q].id
    OBVIOUS
  <1> DEFINE entry == [host |-> HostOf(q), client |-> sub[q].client,
                      first |-> sub[q].when, latest |-> sub[q].when]
  <1>1. /\ RowsBut(i) /\ i \in DOMAIN reports /\ i \in DOMAIN reports'
        /\ UNCHANGED <<crackers, todo, sub, obj>> /\ pc[q] = "link"
    BY <1>0, LinkFacts
  <1>2. /\ reports[i].cracker = NULL
        /\ reports'[i].cracker = c /\ reports'[i].ip = sub[q].client
        /\ reports'[i].first = sub[q].when /\ reports'[i].latest = sub[q].when
    <2>1. /\ reports[i] = [cracker |-> NULL, ip |-> sub[q].client,
                           first |-> sub[q].when, latest |-> sub[q].when]
          /\ reports'[i] = [cracker |-> c, ip |-> sub[q].client,
                            first |-> sub[q].when, latest |-> sub[q].when]
      BY <1>0, LinkFacts
    <2>2. QED
      BY <2>1
  <1>3. c \in DOMAIN crackers /\ crackers[c].ip = HostOf(q) /\ NULL \notin DOMAIN crackers
    BY <1>0, <1>1 DEF MergeInv, IndInv, LocalsOK, StoreOK, ObjectsOK, TypeOK, TablesOK, Id,
                RequestCritical, Task
  <1>4. IndInv /\ CrackersKept
    BY <1>1 DEF MergeInv, CrackersKept
  <1>5. i \notin DOMAIN Entries /\ i \in DOMAIN Entries'
    BY <1>1, <1>2, <1>3 DEF Entries
  <1>6. Entries'[i] = entry
    <2>1. Entries'[i] = Entry(i)'
      BY <1>5 DEF Entries, Entry
    <2>2. Entry(i)' = [host |-> crackers'[c].ip, client |-> sub[q].client,
                       first |-> sub[q].when, latest |-> sub[q].when]
      BY <1>2 DEF Entry
    <2>3. QED
      BY <1>1, <1>3, <2>1, <2>2
  <1> HIDE DEF entry
  <1>7. DOMAIN Entries' = DOMAIN Entries \cup {i} /\ \A r \in DOMAIN Entries : Entries'[r] = Entries[r]
    <2>1. DOMAIN Entries \subseteq DOMAIN reports /\ DOMAIN Entries' \subseteq DOMAIN reports'
      BY DEF Entries
    <2>2. \A r \in DOMAIN reports' \ {i} :
            /\ r \in DOMAIN reports
            /\ r \in DOMAIN Entries' <=> r \in DOMAIN Entries
            /\ r \in DOMAIN Entries => Entries'[r] = Entries[r]
      BY <1>1, <1>4, EntryKept DEF RowsBut
    <2>3. \A r \in DOMAIN reports \ {i} : r \in DOMAIN reports'
      BY <1>1 DEF RowsBut
    <2>4. QED
      BY <1>5, <2>1, <2>2, <2>3
  <1>8. Entries' = [d \in DOMAIN Entries \cup {i} |-> IF d = i THEN entry ELSE Entries[d]]
    <2>1. Entries' = [d \in DOMAIN Entries' |-> Entries'[d]]
      BY DEF Entries
    <2>2. QED
      BY <1>5, <1>6, <1>7, <2>1
  <1>9. Ledger!Entries(HostOf(q), sub[q].client) = Mine(q)
    BY <1>1, <1>4, MineIsEntries DEF RequestCritical
  <1>10. /\ Cardinality(Mine(q)) < 3
         /\ \A e \in Mine(q) : sub[q].when > Entries[e].latest + DAY
    <2>1. \A e \in Mine(q) : Entries[e].latest = reports[e].latest
      BY <1>0, <1>3 DEF Mine, ReportsBy, ReportsOf, Entries
    <2>2. /\ Cardinality(Mine(q)) < 3
          /\ \A e \in Mine(q) : sub[q].when > reports[e].latest + DAY
      BY <1>1 DEF MergeInv, MergesOK, MergeOK
    <2>3. QED
      BY <2>1, <2>2
  <1>11. \E e \in DOMAIN Entries' \ DOMAIN Entries :
           Entries' = [d \in DOMAIN Entries \cup {e} |-> IF d = e THEN entry ELSE Entries[d]]
    BY <1>5, <1>8
  <1>12. QED
    BY <1>9, <1>10, <1>11, SameCardinality DEF Ledger!Add, entry

\* latest_report.save() is a Move.
LEMMA TouchMoves ==
  ASSUME MergeInv, NEW q \in Request, TouchReport(q)
  PROVE  Ledger!Move(HostOf(q), sub[q].client, sub[q].when)
  <1>0. PICK i : i = rpt[q].id
    OBVIOUS
  <1> DEFINE when == sub[q].when
  <1>1. /\ RowsBut(i) /\ i \in DOMAIN reports /\ i \in DOMAIN reports'
        /\ i \in Latest(Mine(q)) /\ reports[i].cracker = obj[q].id
        /\ UNCHANGED <<crackers, todo, sub, obj>> /\ pc[q] = "touch"
    BY <1>0, TouchFacts
  <1>2. /\ reports'[i].cracker = reports[i].cracker /\ reports'[i].ip = reports[i].ip
        /\ reports'[i].first = reports[i].first /\ reports'[i].latest = when
    <2>1. reports'[i] = [reports[i] EXCEPT !.latest = when] /\ reports[i] \in ReportRow
      BY <1>0, TouchFacts
    <2>2. QED
      BY <2>1 DEF ReportRow
  <1>3. obj[q].id \in DOMAIN crackers
    BY <1>1 DEF MergeInv, IndInv, StoreOK, ObjectsOK, RequestCritical
  <1>4. IndInv /\ CrackersKept
    BY <1>1 DEF MergeInv, CrackersKept
  <1>5. Ledger!Entries(HostOf(q), sub[q].client) = Mine(q) /\ Cardinality(Mine(q)) = 3
    <2>1. Cardinality(Mine(q)) = 3
      BY <1>1 DEF MergeInv, MergesOK, MergeOK
    <2>2. QED
      BY <1>1, <1>4, <2>1, MineIsEntries DEF RequestCritical
  <1> HIDE DEF when
  <1>6. i \in DOMAIN Entries /\ i \in DOMAIN Entries'
    BY <1>1, <1>2, <1>3 DEF Entries
  <1>7. Entries'[i] = [Entries[i] EXCEPT !.latest = when]
    <2>1. Entries[i] = Entry(i) /\ Entries'[i] = Entry(i)'
      BY <1>6 DEF Entries, Entry
    <2>2. Entry(i)' = [Entry(i) EXCEPT !.latest = when]
      BY <1>1, <1>2 DEF Entry
    <2>3. QED
      BY <2>1, <2>2
  <1>8. DOMAIN Entries' = DOMAIN Entries /\ \A r \in DOMAIN Entries \ {i} : Entries'[r] = Entries[r]
    <2>1. DOMAIN Entries \subseteq DOMAIN reports /\ DOMAIN Entries' \subseteq DOMAIN reports'
      BY DEF Entries
    <2>2. \A r \in DOMAIN reports' \ {i} :
            /\ r \in DOMAIN reports
            /\ r \in DOMAIN Entries' <=> r \in DOMAIN Entries
            /\ r \in DOMAIN Entries => Entries'[r] = Entries[r]
      BY <1>1, <1>4, EntryKept DEF RowsBut
    <2>3. \A r \in DOMAIN reports \ {i} : r \in DOMAIN reports'
      BY <1>1 DEF RowsBut
    <2>4. QED
      BY <1>6, <2>1, <2>2, <2>3
  <1>9. Entries' = [Entries EXCEPT ![i].latest = when]
    <2>1. /\ Entries = [d \in DOMAIN Entries |-> Entries[d]]
          /\ Entries' = [d \in DOMAIN Entries' |-> Entries'[d]]
      BY DEF Entries
    <2> DEFINE e == [Entries[i] EXCEPT !.latest = when]
    <2>2. [Entries EXCEPT ![i].latest = when] = [Entries EXCEPT ![i] = e]
      OBVIOUS
    <2>3. Entries'[i] = e
      BY <1>7
    <2> HIDE DEF e
    <2>4. Entries' = [Entries EXCEPT ![i] = e]
      BY <1>6, <1>8, <2>1, <2>3
    <2>5. QED
      BY <2>2, <2>4
  <1>10. i \in Mine(q) /\ \A d \in Mine(q) : Entries[d].latest <= Entries[i].latest
    <2>1. i \in Mine(q) /\ \A d \in Mine(q) : reports[d].latest <= reports[i].latest
      BY <1>1 DEF Latest
    <2>2. \A d \in Mine(q) : Entries[d].latest = reports[d].latest
      BY <1>3 DEF Mine, ReportsBy, ReportsOf, Entries
    <2>3. QED
      BY <2>1, <2>2
  <1>11. QED
    BY <1>5, <1>9, <1>10, SameCardinality DEF Ledger!Move, when

\* The SELECT that finds a report of the same day is an Ignore.
LEMMA FindIgnores ==
  ASSUME MergeInv, NEW q \in Request, FindReports(q), pc'[q] = "save"
  PROVE  Ledger!Ignore(HostOf(q), sub[q].client, sub[q].when)
  <1> DEFINE mine == ReportsBy(obj[q].id, sub[q].client)
             when == sub[q].when
  <1>1. /\ UNCHANGED <<reports, crackers, todo, sub>> /\ pc[q] = "reports" /\ mine = Mine(q)
        /\ IndInv /\ q \in Task /\ DOMAIN pc = Task
    BY DEF FindReports, Mine, MergeInv, IndInv, TypeOK, ControlOK, Task
  <1>2. mine # {} /\ ~Full(mine)
    BY <1>1 DEF FindReports
  <1>3. PICK r \in Latest(mine) :
          pc' = [pc EXCEPT ![q] = IF when > reports[r].latest + DAY THEN "insert" ELSE "save"]
    BY <1>2 DEF FindReports
  <1>4. r \in mine /\ ~(when > reports[r].latest + DAY)
    BY <1>1, <1>3 DEF Latest
  <1>5. /\ when \in Int /\ reports[r].latest \in Int /\ DAY \in Int
        /\ obj[q].id \in DOMAIN crackers
    BY <1>1, <1>4, MergeHolds, TimeAssumption
    DEF IndInv, TypeOK, TablesOK, ReportRow, ReportsBy, ReportsOf, RequestCritical, Stamp, StoreOK,
        ObjectsOK
  <1>6. Cardinality(mine) \in Nat
    <2>1. mine \subseteq 1..(nextReport - 1) /\ nextReport \in Nat
      BY <1>1 DEF IndInv, TypeOK, TablesOK, ReportsBy, ReportsOf, Id
    <2>2. IsFiniteSet(1..(nextReport - 1))
      BY <2>1, FS_Interval
    <2>3. IsFiniteSet(mine)
      BY <2>1, <2>2, FS_Subset
    <2>4. QED
      BY <2>3, FS_CardinalityType
  <1>7. Cardinality(mine) < 3
    BY <1>2, <1>6 DEF Full
  <1>8. Entries[r].latest = reports[r].latest
    BY <1>4, <1>5 DEF ReportsBy, ReportsOf, Entries
  <1>9. Ledger!Entries(HostOf(q), sub[q].client) = mine
    BY <1>1, MineIsEntries DEF RequestCritical
  <1>10. Entries' = Entries
    BY <1>1, EntriesSame DEF CrackersKept
  <1>11. \E e \in mine : when <= Entries[e].latest + DAY
    BY <1>4, <1>5, <1>8
  <1> HIDE DEF mine
  <1>12. QED
    BY <1>7, <1>9, <1>10, <1>11, SameCardinality DEF Ledger!Ignore

\* Steps of a request that merge nothing.
LEMMA RequestStutters ==
  ASSUME MergeInv, NEW q \in Request,
         \/ Lock(q) \/ FindCracker(q) \/ CreateCracker(q) \/ InsertReport(q) \/ SaveCracker(q)
         \/ UnlockHost(q) \/ (FindReports(q) /\ pc'[q] # "save")
  PROVE  UNCHANGED <<now, Entries, Waiting>>
  <1> USE DEF Task
  <1>1. RequestStep(q) /\ IndInv
    BY DEF RequestStep, MergeInv
  <1>2. /\ \A p \in Request \ {q} : pc'[p] = pc[p] /\ todo'[p] = todo[p] /\ sub'[p] = sub[p]
        /\ CrackersKept
    BY <1>1, RequestAlone, RequestCrackers DEF IndInv
  <1>3. /\ q \in Task /\ pc \in [Task -> RequestLabel \cup JobLabel]
        /\ DOMAIN todo = Request /\ DOMAIN sub = Request
        /\ pc[q] # "idle" => Continues(todo[q])
    BY <1>1 DEF IndInv, TypeOK, ControlOK, MemoryOK, LocalsOK
  <1>4. UNCHANGED now
    BY DEF Lock, FindCracker, CreateCracker, FindReports, InsertReport, SaveCracker, UnlockHost
  <1>5. Entries' = Entries
    <2>1. CASE InsertReport(q)
      <3>1. /\ RowsBut(nextReport) /\ nextReport \notin DOMAIN reports /\ UNCHANGED crackers
            /\ nextReport \in DOMAIN reports'
        BY <2>1, InsertFacts
      <3>2. reports'[nextReport].cracker = NULL
        <4>1. reports'[nextReport] = [cracker |-> NULL, ip |-> sub[q].client,
                                      first |-> sub[q].when, latest |-> sub[q].when]
          BY <2>1, InsertFacts
        <4>2. QED
          BY <4>1
      <3>3. NULL \notin DOMAIN crackers
        BY <1>1 DEF IndInv, TypeOK, TablesOK, Id
      <3>4. nextReport \notin DOMAIN Entries'
        BY <3>1, <3>2, <3>3 DEF Entries
      <3>5. DOMAIN Entries' = DOMAIN Entries /\ \A r \in DOMAIN Entries : Entries'[r] = Entries[r]
        <4>1. /\ DOMAIN Entries \subseteq DOMAIN reports
              /\ DOMAIN Entries' \subseteq DOMAIN reports' \ {nextReport}
          BY <3>4 DEF Entries
        <4>2. \A r \in DOMAIN reports :
                /\ r \in DOMAIN reports'
                /\ r \in DOMAIN Entries' <=> r \in DOMAIN Entries
                /\ r \in DOMAIN Entries => Entries'[r] = Entries[r]
          BY <1>2, <3>1, EntryKept DEF RowsBut
        <4>3. \A r \in DOMAIN reports' \ {nextReport} : r \in DOMAIN reports
          BY <3>1 DEF RowsBut
        <4>4. QED
          BY <4>1, <4>2, <4>3
      <3>6. /\ Entries = [r \in DOMAIN Entries |-> Entries[r]]
            /\ Entries' = [r \in DOMAIN Entries' |-> Entries'[r]]
        BY DEF Entries
      <3>7. QED
        BY <3>5, <3>6
    <2>2. CASE ~InsertReport(q)
      <3>1. UNCHANGED reports
        BY <2>2 DEF Lock, FindCracker, CreateCracker, FindReports, SaveCracker, UnlockHost
      <3>2. QED
        BY <1>2, <3>1, EntriesSame
    <2>3. QED
      BY <2>1, <2>2
  <1>6. Waiting'[q] = Waiting[q]
    <2>1. CASE Lock(q) \/ FindCracker(q) \/ CreateCracker(q) \/ InsertReport(q)
               \/ (FindReports(q) /\ pc'[q] # "save")
      <3>1. /\ UNCHANGED <<todo, sub>> /\ pc[q] \notin {"idle", "save", "unlock"}
            /\ pc'[q] \notin {"idle", "save", "unlock"}
        BY <1>3, <2>1 DEF Lock, FindCracker, CreateCracker, FindReports, InsertReport
      <3>2. Unmerged(q)' = Unmerged(q)
        BY <3>1 DEF Unmerged
      <3>3. QED
        BY <3>1, <3>2, WaitingKept
    <2>2. CASE SaveCracker(q)
      <3>1. UNCHANGED <<todo, sub>> /\ pc[q] = "save" /\ pc'[q] = "unlock"
        BY <1>3, <2>2 DEF SaveCracker
      <3>2. Unmerged(q)' = Unmerged(q)
        BY <3>1 DEF Unmerged
      <3>3. QED
        BY <3>1, <3>2, WaitingKept
    <2>3. CASE UnlockHost(q)
      <3>1. pc[q] = "unlock" /\ Unmerged(q) = Tail(todo[q])
        BY <2>3 DEF UnlockHost, Unmerged
      <3>2. CASE Continues(Tail(todo[q]))
        <4>1. todo'[q] = Tail(todo[q]) /\ pc'[q] = "lock" /\ sub'[q] = sub[q]
          BY <1>3, <2>3, <3>2 DEF UnlockHost
        <4>2. Unmerged(q)' = Unmerged(q)
          BY <3>1, <4>1 DEF Unmerged
        <4>3. QED
          BY <3>1, <4>1, <4>2, WaitingKept
      <3>3. CASE ~Continues(Tail(todo[q]))
        <4>1. pc'[q] = "idle"
          BY <1>3, <2>3, <3>3 DEF UnlockHost, Finish
        <4>2. QED
          BY <3>1, <3>3, <4>1 DEF Waiting
      <3>4. QED
        BY <3>2, <3>3
    <2>4. QED
      BY <2>1, <2>2, <2>3
  <1>7. \A p \in Request \ {q} : Waiting'[p] = Waiting[p]
    <2>1. \A p \in Request \ {q} : Unmerged(p)' = Unmerged(p)
      BY <1>2 DEF Unmerged
    <2>2. QED
      BY <1>2, <2>1, WaitingKept
  <1>8. Waiting' = Waiting
    <2>1. Waiting = [p \in Request |-> Waiting[p]] /\ Waiting' = [p \in Request |-> Waiting'[p]]
      BY DEF Waiting
    <2>2. QED
      BY <1>6, <1>7, <2>1
  <1>9. QED
    BY <1>4, <1>5, <1>8

\* A report arrives: Receive.
LEMMA AcceptReceives ==
  ASSUME MergeInv, NEW q \in Request, Accept(q)
  PROVE  Ledger!Receive(q)
  <1> USE DEF Task
  <1>1. IndInv /\ UNCHANGED <<now, reports, crackers>> /\ pc[q] = "idle"
    BY DEF MergeInv, Accept
  <1>2. /\ \A p \in Request \ {q} : pc'[p] = pc[p] /\ todo'[p] = todo[p] /\ sub'[p] = sub[p]
        /\ q \in Task /\ pc \in [Task -> RequestLabel \cup JobLabel]
        /\ DOMAIN todo = Request /\ DOMAIN sub = Request
    BY <1>1, RequestAlone DEF IndInv, TypeOK, ControlOK, MemoryOK
  <1>3. Entries' = Entries
    BY <1>1, EntriesSame DEF CrackersKept
  <1>4. Waiting[q] = NULL
    BY <1>1 DEF Waiting
  <1>5. PICK hosts \in HostLists, client \in Client, delay \in 0..MaxDelay :
          /\ Continues(hosts)
          /\ todo' = [todo EXCEPT ![q] = hosts]
          /\ sub' = [sub EXCEPT ![q] = [client |-> client, when |-> now - delay]]
    BY DEF Accept
  <1>6. pc'[q] = "lock" /\ todo'[q] = hosts /\ sub'[q] = [client |-> client, when |-> now - delay]
    BY <1>2, <1>5 DEF Accept
  <1>7. Waiting'[q] = Ledger!Pending(client, now - delay, hosts)
    <2>1. Unmerged(q)' = hosts
      BY <1>6 DEF Unmerged
    <2>2. Waiting'[q] = IF pc'[q] = "idle" \/ ~Continues(Unmerged(q)') THEN NULL
                        ELSE [client |-> sub'[q].client, when |-> sub'[q].when,
                              hosts |-> Unmerged(q)']
      BY DEF Waiting, Continues
    <2>3. sub'[q].client = client /\ sub'[q].when = now - delay
      BY <1>6
    <2>4. Waiting'[q] = [client |-> client, when |-> now - delay, hosts |-> hosts]
      BY <1>5, <1>6, <2>1, <2>2, <2>3
    <2>5. QED
      BY <1>5, <2>4 DEF Ledger!Pending, Ledger!Continues, Continues
  <1>8. \A p \in Request \ {q} : Waiting'[p] = Waiting[p]
    <2>1. \A p \in Request \ {q} : Unmerged(p)' = Unmerged(p)
      BY <1>2 DEF Unmerged
    <2>2. QED
      BY <1>2, <2>1, WaitingKept
  <1>9. Waiting' = [Waiting EXCEPT ![q] = Ledger!Pending(client, now - delay, hosts)]
    <2>1. Waiting = [p \in Request |-> Waiting[p]] /\ Waiting' = [p \in Request |-> Waiting'[p]]
      BY DEF Waiting
    <2>2. QED
      BY <1>7, <1>8, <2>1
  <1>10. QED
    BY <1>1, <1>3, <1>4, <1>5, <1>9 DEF Ledger!Receive

\* A request fails: GiveUp.
LEMMA FailGivesUp ==
  ASSUME MergeInv, NEW q \in Request, FailRequest(q)
  PROVE  Ledger!GiveUp({q})
  <1> USE DEF Task
  <1>1. IndInv /\ UNCHANGED <<now, reports, crackers>>
    BY DEF MergeInv, FailRequest
  <1>2. /\ \A p \in Request \ {q} : pc'[p] = pc[p] /\ todo'[p] = todo[p] /\ sub'[p] = sub[p]
        /\ q \in Task /\ pc \in [Task -> RequestLabel \cup JobLabel]
    BY <1>1, RequestAlone DEF IndInv, TypeOK, ControlOK
  <1>3. Entries' = Entries
    BY <1>1, EntriesSame DEF CrackersKept
  <1>4. pc'[q] = "idle"
    BY <1>2 DEF FailRequest, Finish
  <1>5. Waiting'[q] = NULL
    BY <1>4 DEF Waiting
  <1>6. \A p \in Request \ {q} : Waiting'[p] = Waiting[p]
    <2>1. \A p \in Request \ {q} : Unmerged(p)' = Unmerged(p)
      BY <1>2 DEF Unmerged
    <2>2. QED
      BY <1>2, <2>1, WaitingKept
  <1>7. Waiting' = [p \in Request |-> IF p \in {q} THEN NULL ELSE Waiting[p]]
    <2>1. Waiting' = [p \in Request |-> Waiting'[p]]
      BY DEF Waiting
    <2>2. QED
      BY <1>5, <1>6, <2>1
  <1>8. QED
    BY <1>1, <1>3, <1>7 DEF Ledger!GiveUp

\* A job's step is an Expire or nothing to the ledger.
LEMMA JobExpires ==
  ASSUME MergeInv, NEW j \in Job, JobStep(j) \/ FailJob(j)
  PROVE  \/ UNCHANGED <<now, Entries, Waiting>>
         \/ \E e \in DOMAIN Entries : Ledger!Expire(e)
  <1>1. IndInv /\ CrackersKept /\ UNCHANGED now
    BY JobCrackers, JobRows DEF MergeInv
  <1>2. Waiting' = Waiting
    <2>1. \A p \in Request : pc'[p] = pc[p] /\ todo'[p] = todo[p] /\ sub'[p] = sub[p]
      BY <1>1, JobAlone DEF IndInv, Task
    <2>2. \A p \in Request : Unmerged(p)' = Unmerged(p)
      BY <2>1 DEF Unmerged
    <2>3. \A p \in Request : Waiting'[p] = Waiting[p]
      BY <2>1, <2>2, WaitingKept
    <2>4. Waiting = [p \in Request |-> Waiting[p]] /\ Waiting' = [p \in Request |-> Waiting'[p]]
      BY DEF Waiting
    <2>5. QED
      BY <2>3, <2>4
  <1>3. CASE UNCHANGED reports
    BY <1>1, <1>2, <1>3, EntriesSame
  <1>4. CASE ClearReport(j) \/ DeleteReport(j)
    <2>1. PICK i : i = rpt[j].id
      OBVIOUS
    <2>2. RowsBut(i)
      BY <1>4, <2>1, ClearFacts, DeleteFacts
    <2>3. NULL \notin DOMAIN crackers' /\ NULL \notin DOMAIN crackers
      <3>1. UNCHANGED crackers
        BY <1>4, ClearFacts, DeleteFacts
      <3>2. QED
        BY <1>1, <3>1 DEF IndInv, TypeOK, TablesOK, Id
    <2>4. i \notin DOMAIN Entries'
      <3>1. i \in DOMAIN reports' => reports'[i].cracker = NULL
        <4>1. CASE ClearReport(j)
          <5>1. i \in DOMAIN reports' =>
                  /\ reports'[i] = [reports[i] EXCEPT !.cracker = NULL] /\ reports[i] \in ReportRow
            BY <2>1, <4>1, ClearFacts
          <5>2. QED
            BY <5>1 DEF ReportRow
        <4>2. CASE DeleteReport(j)
          BY <2>1, <4>2, DeleteFacts
        <4>3. QED
          BY <1>4, <4>1, <4>2
      <3>2. QED
        BY <2>3, <3>1 DEF Entries
    <2>5. /\ DOMAIN Entries' = DOMAIN Entries \ {i}
          /\ \A r \in DOMAIN Entries' : Entries'[r] = Entries[r]
      <3>1. DOMAIN Entries \subseteq DOMAIN reports /\ DOMAIN Entries' \subseteq DOMAIN reports'
        BY DEF Entries
      <3>2. \A r \in DOMAIN reports \ {i} :
              /\ r \in DOMAIN reports'
              /\ r \in DOMAIN Entries' <=> r \in DOMAIN Entries
              /\ r \in DOMAIN Entries => Entries'[r] = Entries[r]
        BY <1>1, <2>2, EntryKept DEF RowsBut
      <3>3. \A r \in DOMAIN reports' \ {i} : r \in DOMAIN reports
        BY <2>2 DEF RowsBut
      <3>4. QED
        BY <2>4, <3>1, <3>2, <3>3
    <2>6. /\ Entries = [r \in DOMAIN Entries |-> Entries[r]]
          /\ Entries' = [r \in DOMAIN Entries' |-> Entries'[r]]
      BY DEF Entries
    <2>7. Entries' = Ledger!Restrict(Entries, DOMAIN Entries \ {i})
      BY <2>5, <2>6, SameRestrict DEF Restrict
    <2>8. CASE i \in DOMAIN Entries
      BY <1>1, <1>2, <2>7, <2>8 DEF Ledger!Expire
    <2>9. CASE i \notin DOMAIN Entries
      <3>1. DOMAIN Entries' = DOMAIN Entries
        BY <2>5, <2>9
      <3>2. Entries' = Entries
        BY <2>5, <2>6, <3>1
      <3>3. QED
        BY <1>1, <1>2, <3>2
    <2>10. QED
      BY <2>8, <2>9
  <1>5. QED
    BY <1>3, <1>4, JobRows

\* Every step of the tables is a step of the ledger or a stutter.
LEMMA LedgerStep ==
  ASSUME MergeInv, [Next]_vars
  PROVE  [Ledger!Next]_<<now, Entries, Waiting>>
  <1>1. IndInv
    BY DEF MergeInv
  <1>2. ASSUME NEW q \in Request, Accept(q) \/ RequestStep(q) \/ FailRequest(q)
        PROVE  Ledger!Next \/ UNCHANGED <<now, Entries, Waiting>>
    <2>1. CASE Accept(q)
      BY <2>1, AcceptReceives DEF Ledger!Next
    <2>2. CASE FailRequest(q)
      <3>1. {q} \in SUBSET Request
        OBVIOUS
      <3>2. QED
        BY <2>2, <3>1, FailGivesUp DEF Ledger!Next
    <2>3. CASE LinkReport(q) \/ TouchReport(q) \/ (FindReports(q) /\ pc'[q] = "save")
      <3>1. /\ pc[q] \notin {"idle", "save", "unlock"} /\ pc'[q] = "save"
            /\ UNCHANGED <<todo, sub, now>>
        BY <2>3, LinkFacts, TouchFacts DEF FindReports
      <3>2. \A p \in Request \ {q} : pc'[p] = pc[p]
        BY <1>1, <1>2, RequestAlone DEF IndInv, Task
      <3>3. Ledger!Record(q)
        BY <1>1, <2>3, <3>1, <3>2, LinkAdds, TouchMoves, FindIgnores, RecordStep
      <3>4. QED
        BY <3>3 DEF Ledger!Next
    <2>4. CASE \/ Lock(q) \/ FindCracker(q) \/ CreateCracker(q) \/ InsertReport(q)
               \/ SaveCracker(q) \/ UnlockHost(q) \/ (FindReports(q) /\ pc'[q] # "save")
      BY <2>4, RequestStutters
    <2>5. QED
      BY <1>2, <2>1, <2>2, <2>3, <2>4 DEF RequestStep
  <1>3. ASSUME NEW j \in Job, JobStep(j) \/ FailJob(j)
        PROVE  Ledger!Next \/ UNCHANGED <<now, Entries, Waiting>>
    BY <1>3, JobExpires DEF Ledger!Next
  <1>4. CASE Restart
    <2>1. UNCHANGED <<now, reports, crackers>> /\ \A q \in Request : pc'[q] = "idle"
      BY <1>4 DEF Restart, Task
    <2>2. Entries' = Entries
      BY <2>1, EntriesSame DEF CrackersKept
    <2>3. Waiting' = [q \in Request |-> IF q \in Request THEN NULL ELSE Waiting[q]]
      BY <2>1 DEF Waiting
    <2>4. Ledger!GiveUp(Request)
      BY <2>1, <2>2, <2>3 DEF Ledger!GiveUp
    <2>5. QED
      BY <2>4 DEF Ledger!Next
  <1>5. CASE Tick \/ UNCHANGED vars
    <2>1. UNCHANGED <<reports, crackers, pc, todo, sub>> /\ (now' = now + 1 \/ now' = now)
      BY <1>5 DEF Tick, vars
    <2>2. Entries' = Entries
      BY <2>1, EntriesSame DEF CrackersKept
    <2>3. Waiting' = Waiting
      BY <2>1 DEF Waiting, Unmerged, Continues
    <2>4. QED
      BY <2>1, <2>2, <2>3 DEF Ledger!Next, Ledger!Tick
  <1>6. QED
    BY <1>2, <1>3, <1>4, <1>5 DEF Next, Running

LEMMA LedgerInit == Init => Ledger!Init
  <1> SUFFICES ASSUME Init PROVE Ledger!Init
    OBVIOUS
  <1>1. DOMAIN Entries = {} /\ now = 0
    BY DEF Init, Entries
  <1>2. Entries = <<>>
    BY <1>1 DEF Entries
  <1>3. Waiting = [q \in Request |-> NULL]
    BY DEF Init, Waiting, Task
  <1>4. QED
    BY <1>1, <1>2, <1>3 DEF Ledger!Init

\* The tables, with their locks, tasks and failures, implement the ledger: whatever the
\* interleaving, a report is merged in one step by the merging rule.
THEOREM TablesImplementLedger == Spec => ImplementsLedger
  <1>1. Init => Ledger!Init
    BY LedgerInit
  <1>2. MergeInv /\ [Next]_vars => [Ledger!Next]_<<now, Entries, Waiting>>
    BY LedgerStep
  <1>3. QED
    BY <1>1, <1>2, MergeInvariant, PTL DEF ImplementsLedger, Ledger!Spec, Spec

--------------------------------------------------------------------------------
(* The number of reporters.                                                   *)

Reporters(c) == {reports[r].ip : r \in ReportsOf(c)}
Exact(c) == crackers[c].current = Cardinality(Reporters(c)) /\ crackers[c].current > 0

\* What a request knows of the number of reporters while it has the host locked.
RequestCounts(q) ==
  /\ pc[q] = "find" => \A c \in DOMAIN crackers : crackers[c].ip = HostOf(q) => Exact(c)
  /\ pc[q] = "create" => obj[q].row.current = 0
  /\ pc[q] = "reports" => obj[q].row.current = Cardinality(Reporters(obj[q].id))
  /\ pc[q] \in {"insert", "link"} =>
       obj[q].row.current = Cardinality(Reporters(obj[q].id) \cup {sub[q].client})
  /\ pc[q] \in {"touch", "save"} =>
       obj[q].row.current = Cardinality(Reporters(obj[q].id)) /\ Reporters(obj[q].id) # {}
  /\ pc[q] = "unlock" => Exact(obj[q].id)

\* A job may have locked the host for a cracker that was deleted meanwhile; then the host
\* can have another one.
JobCounts(j) ==
  /\ pc[j] \in JobCritical =>
       \A c \in DOMAIN crackers \ {obj[j].id} : crackers[c].ip = HostOf(j) => Exact(c)
  /\ pc[j] = "writeback" => obj[j].row.current = Cardinality(Reporters(obj[j].id))
  /\ pc[j] = "release" /\ obj[j].id \in DOMAIN crackers => Exact(obj[j].id)

FreeExact == \A c \in DOMAIN crackers : crackers[c].ip \notin busy => Exact(c)

CountsOK == faults = 0 =>
  /\ \A q \in Request : RequestCounts(q)
  /\ \A j \in Job : JobCounts(j)
  /\ FreeExact

LEMMA ReportersFinite ==
  ASSUME TypeOK, NEW c
  PROVE  /\ IsFiniteSet(Reporters(c)) /\ Cardinality(Reporters(c)) \in Nat
         /\ Cardinality(Reporters(c)) = 0 <=> Reporters(c) = {}
  <1>1. IsFiniteSet(Reporters(c)) /\ Cardinality(Reporters(c)) \in Nat
    BY CountType DEF Reporters
  <1>2. QED
    BY <1>1, FS_EmptySet

\* A change of a row of cracker c0, or of none, leaves the reporters of others alone.
LEMMA ReportersKept ==
  ASSUME NEW i, NEW c0, RowsBut(i),
         i \in DOMAIN reports => reports[i].cracker \in {c0, NULL},
         i \in DOMAIN reports' => reports'[i].cracker \in {c0, NULL},
         NEW c, c # c0, c # NULL
  PROVE  Reporters(c)' = Reporters(c)
  <1>1. ReportsOf(c)' = ReportsOf(c) /\ \A r \in ReportsOf(c) : reports'[r] = reports[r]
    BY DEF RowsBut, ReportsOf
  <1>2. QED
    BY <1>1 DEF Reporters

\* A task changes the rows and the reports of one cracker only, that of its host.
Own(t, c0) ==
  /\ c0 = nextCracker \/ (c0 \in DOMAIN crackers /\ crackers[c0].ip = HostOf(t))
  /\ c0 \in DOMAIN crackers' => crackers'[c0].ip = HostOf(t)
  /\ \A c \in DOMAIN crackers \cup DOMAIN crackers' : c # c0 =>
       c \in DOMAIN crackers /\ c \in DOMAIN crackers' /\ crackers'[c] = crackers[c]
  /\ \A c : c # c0 /\ c # NULL => Reporters(c)' = Reporters(c)

LEMMA RequestOwn ==
  ASSUME MergeInv, NEW q \in Request, Accept(q) \/ RequestStep(q) \/ FailRequest(q)
  PROVE  \/ UNCHANGED <<crackers, reports>>
         \/ InCritical(q) /\ UNCHANGED busy /\ \E c0 : Own(q, c0)
  <1>1. IndInv /\ NULL \notin DOMAIN crackers /\ nextCracker # NULL
    BY DEF MergeInv, IndInv, TypeOK, TablesOK, Id
  <1>2. ASSUME pc[q] \in RequestCritical \ {"find", "create"}
        PROVE  obj[q].id \in DOMAIN crackers /\ crackers[obj[q].id].ip = HostOf(q)
    BY <1>1, <1>2 DEF IndInv, LocalsOK, StoreOK, ObjectsOK, Task
  <1>3. CASE CreateCracker(q)
    <2>1. UNCHANGED <<busy, reports>> /\ pc[q] = "create" /\ nextCracker \notin DOMAIN crackers
      BY <1>1, <1>3 DEF CreateCracker, IndInv, TypeOK, TablesOK, Id
    <2> DEFINE row == obj[q].row
    <2>2. crackers' = InsertRow(crackers, nextCracker, row) /\ row.ip = HostOf(q)
      BY <1>1, <1>3, <2>1 DEF CreateCracker, IndInv, LocalsOK, RequestCritical
    <2> HIDE DEF row
    <2>3. Own(q, nextCracker)
      <3>1. crackers'[nextCracker].ip = HostOf(q)
        BY <2>2 DEF InsertRow
      <3>2. \A c \in DOMAIN crackers \cup DOMAIN crackers' : c # nextCracker =>
              c \in DOMAIN crackers /\ c \in DOMAIN crackers' /\ crackers'[c] = crackers[c]
        BY <2>2 DEF InsertRow
      <3>3. \A c : Reporters(c)' = Reporters(c)
        BY <2>1 DEF Reporters, ReportsOf
      <3>4. QED
        BY <3>1, <3>2, <3>3 DEF Own
    <2>4. QED
      BY <2>1, <2>3 DEF InCritical, RequestCritical
  <1>4. CASE SaveCracker(q)
    <2>0. PICK c0 : c0 = obj[q].id
      OBVIOUS
    <2> DEFINE row == [obj[q].row EXCEPT !.total = @ + 1, !.latest = sub[q].when,
                         !.resil = sub[q].when - obj[q].row.first]
    <2>1. UNCHANGED <<busy, reports>> /\ pc[q] = "save" /\ crackers' = UpdateRow(crackers, c0, row)
      BY <1>4, <2>0 DEF SaveCracker
    <2>2. row.ip = HostOf(q)
      <3>1. obj[q].row \in CrackerRow /\ obj[q].row.ip = HostOf(q)
        BY <1>1, <2>1, RequestHolds DEF IndInv, RequestCritical
      <3>2. QED
        BY <3>1 DEF CrackerRow
    <2> HIDE DEF row
    <2>3. c0 \in DOMAIN crackers /\ crackers[c0].ip = HostOf(q)
      BY <1>2, <2>0, <2>1 DEF RequestCritical
    <2>4. /\ crackers'[c0].ip = HostOf(q) /\ DOMAIN crackers' = DOMAIN crackers
          /\ \A c \in DOMAIN crackers : c # c0 => crackers'[c] = crackers[c]
      BY <2>1, <2>2, <2>3 DEF UpdateRow
    <2>5. \A c : Reporters(c)' = Reporters(c)
      BY <2>1 DEF Reporters, ReportsOf
    <2>6. Own(q, c0)
      BY <2>3, <2>4, <2>5 DEF Own
    <2>7. QED
      BY <2>1, <2>6 DEF InCritical, RequestCritical
  <1>5. CASE InsertReport(q) \/ LinkReport(q) \/ TouchReport(q)
    <2>0. PICK c0 : c0 = obj[q].id
      OBVIOUS
    <2>1. UNCHANGED <<busy, crackers>> /\ pc[q] \in {"insert", "link", "touch"}
      BY <1>5 DEF InsertReport, LinkReport, TouchReport
    <2>2. c0 \in DOMAIN crackers /\ crackers[c0].ip = HostOf(q)
      BY <1>2, <2>0, <2>1 DEF RequestCritical
    <2>3. PICK i : /\ RowsBut(i)
                   /\ i \in DOMAIN reports => reports[i].cracker \in {c0, NULL}
                   /\ i \in DOMAIN reports' => reports'[i].cracker \in {c0, NULL}
      <3>1. CASE InsertReport(q)
        <4>1. RowsBut(nextReport) /\ nextReport \notin DOMAIN reports
          BY <3>1, InsertFacts
        <4>2. reports'[nextReport].cracker = NULL
          <5>1. reports'[nextReport] = [cracker |-> NULL, ip |-> sub[q].client,
                                        first |-> sub[q].when, latest |-> sub[q].when]
            BY <3>1, InsertFacts
          <5>2. QED
            BY <5>1
        <4>3. QED
          BY <4>1, <4>2
      <3>2. CASE LinkReport(q)
        <4>1. RowsBut(rpt[q].id)
          BY <3>2, LinkFacts
        <4>2. reports[rpt[q].id].cracker = NULL /\ reports'[rpt[q].id].cracker = c0
          <5>1. /\ reports[rpt[q].id] = [cracker |-> NULL, ip |-> sub[q].client,
                                         first |-> sub[q].when, latest |-> sub[q].when]
                /\ reports'[rpt[q].id] = [cracker |-> c0, ip |-> sub[q].client,
                                          first |-> sub[q].when, latest |-> sub[q].when]
            BY <2>0, <3>2, LinkFacts
          <5>2. QED
            BY <5>1
        <4>3. QED
          BY <4>1, <4>2
      <3>3. CASE TouchReport(q)
        <4>1. RowsBut(rpt[q].id) /\ reports[rpt[q].id].cracker = c0
          BY <2>0, <3>3, TouchFacts
        <4>2. reports'[rpt[q].id].cracker = c0
          <5>1. /\ reports'[rpt[q].id] = [reports[rpt[q].id] EXCEPT !.latest = sub[q].when]
                /\ reports[rpt[q].id] \in ReportRow
            BY <3>3, TouchFacts
          <5>2. QED
            BY <4>1, <5>1 DEF ReportRow
        <4>3. QED
          BY <4>1, <4>2
      <3>4. QED
        BY <1>5, <3>1, <3>2, <3>3
    <2>4. \A c : c # c0 /\ c # NULL => Reporters(c)' = Reporters(c)
      BY <2>3, ReportersKept
    <2>5. Own(q, c0)
      BY <2>1, <2>2, <2>4 DEF Own
    <2>6. QED
      BY <2>1, <2>5 DEF InCritical, RequestCritical
  <1>6. CASE UNCHANGED <<crackers, reports>>
    BY <1>6
  <1>7. QED
    BY <1>3, <1>4, <1>5, <1>6 DEF Accept, RequestStep, Lock, FindCracker, FindReports, UnlockHost,
                                  FailRequest

LEMMA JobOwn ==
  ASSUME MergeInv, NEW j \in Job, JobStep(j) \/ FailJob(j)
  PROVE  \/ UNCHANGED <<crackers, reports>>
         \/ /\ InCritical(j) /\ UNCHANGED busy /\ DOMAIN crackers' \subseteq DOMAIN crackers
            /\ \E c0 \in {obj[j].id, nextCracker} : Own(j, c0)
  <1>1. IndInv /\ NULL \notin DOMAIN crackers /\ nextCracker \notin DOMAIN crackers
    BY DEF MergeInv, IndInv, TypeOK, TablesOK, Id
  <1>2. PICK c : c = obj[j].id
    OBVIOUS
  <1>3. ASSUME pc[j] \in JobCritical
        PROVE  /\ c # NULL /\ obj[j].row.ip = HostOf(j)
               /\ c \in DOMAIN crackers => crackers[c].ip = HostOf(j)
               /\ c \notin DOMAIN crackers => ReportsOf(c) = {}
    BY <1>1, <1>2, <1>3 DEF IndInv, LocalsOK, StoreOK, ObjectsOK, NoDanglingReport, ReportsOf, HostOf,
                            Task
  <1>4. CASE WriteBackCracker(j) \/ DropCracker(j)
    <2> DEFINE row == obj[j].row
    <2>1. /\ UNCHANGED <<busy, reports>> /\ pc[j] \in JobCritical
          /\ crackers' = UpdateRow(crackers, c, row) \/ crackers' = DeleteRow(crackers, c)
      BY <1>2, <1>4 DEF WriteBackCracker, DropCracker, JobCritical
    <2>2. row.ip = HostOf(j)
      BY <1>3, <2>1
    <2> HIDE DEF row
    <2>3. /\ DOMAIN crackers' \subseteq DOMAIN crackers
          /\ \A d \in DOMAIN crackers : d # c => d \in DOMAIN crackers' /\ crackers'[d] = crackers[d]
          /\ c \in DOMAIN crackers' => crackers'[c].ip = HostOf(j)
      BY <2>1, <2>2 DEF UpdateRow, DeleteRow, Restrict
    <2>4. \A d : Reporters(d)' = Reporters(d)
      BY <2>1 DEF Reporters, ReportsOf
    <2>5. CASE c \in DOMAIN crackers
      <3>1. Own(j, c)
        BY <1>3, <2>1, <2>3, <2>4, <2>5 DEF Own
      <3>2. QED
        BY <1>2, <2>1, <2>3, <3>1 DEF InCritical
    <2>6. CASE c \notin DOMAIN crackers
      <3>1. Own(j, nextCracker)
        BY <1>1, <2>3, <2>4, <2>6 DEF Own
      <3>2. QED
        BY <2>1, <2>3, <3>1 DEF InCritical
    <2>7. QED
      BY <2>5, <2>6
  <1>5. CASE ClearReport(j) \/ DeleteReport(j)
    <2>0. PICK i : i = rpt[j].id
      OBVIOUS
    <2>1. UNCHANGED <<busy, crackers>> /\ pc[j] \in JobCritical
      BY <1>5 DEF ClearReport, DeleteReport, JobCritical
    <2>2. /\ RowsBut(i)
          /\ i \in DOMAIN reports => reports[i].cracker \in {c, NULL}
          /\ i \in DOMAIN reports' => reports'[i].cracker = NULL
      <3>1. CASE ClearReport(j)
        <4>1. /\ RowsBut(i) /\ (i \in DOMAIN reports' <=> i \in DOMAIN reports)
              /\ i \in DOMAIN reports => reports[i].cracker \in {c, NULL}
          BY <1>2, <2>0, <3>1, ClearFacts
        <4>2. i \in DOMAIN reports =>
                reports'[i] = [reports[i] EXCEPT !.cracker = NULL] /\ reports[i] \in ReportRow
          BY <2>0, <3>1, ClearFacts
        <4>3. i \in DOMAIN reports' => reports'[i].cracker = NULL
          BY <4>1, <4>2 DEF ReportRow
        <4>4. QED
          BY <4>1, <4>3
      <3>2. CASE DeleteReport(j)
        BY <2>0, <3>2, DeleteFacts
      <3>3. QED
        BY <1>5, <3>1, <3>2
    <2>3. CASE c \in DOMAIN crackers
      <3>1. \A d : d # c /\ d # NULL => Reporters(d)' = Reporters(d)
        BY <2>2, ReportersKept
      <3>2. Own(j, c)
        BY <1>3, <2>1, <2>3, <3>1 DEF Own
      <3>3. QED
        BY <1>2, <2>1, <3>2 DEF InCritical
    <2>4. CASE c \notin DOMAIN crackers
      <3>1. i \in DOMAIN reports => reports[i].cracker = NULL
        BY <1>3, <2>1, <2>2, <2>4 DEF ReportsOf
      <3>2. \A d : d # nextCracker /\ d # NULL => Reporters(d)' = Reporters(d)
        BY <2>2, <3>1, ReportersKept
      <3>3. Own(j, nextCracker)
        BY <1>1, <2>1, <3>2 DEF Own
      <3>4. QED
        BY <2>1, <3>3 DEF InCritical
    <2>5. QED
      BY <2>3, <2>4
  <1>6. CASE UNCHANGED <<crackers, reports>>
    BY <1>6
  <1>7. QED
    BY <1>4, <1>5, <1>6 DEF JobStep, StartJob, ScanReports, FetchCracker, FetchNoCracker, Lock,
       CountReporters, ReleaseHost, FailJob

\* The number of reporters of another cracker is as exact as before.
LEMMA ExactKept ==
  ASSUME MergeInv, NEW t, NEW c0, Own(t, c0), NEW c, c # c0, c \in DOMAIN crackers \cup DOMAIN crackers'
  PROVE  /\ c \in DOMAIN crackers /\ c \in DOMAIN crackers' /\ crackers'[c] = crackers[c]
         /\ c # NULL /\ Reporters(c)' = Reporters(c) /\ (Exact(c)' <=> Exact(c))
  <1>1. c \in DOMAIN crackers /\ c \in DOMAIN crackers' /\ crackers'[c] = crackers[c]
    BY DEF Own
  <1>2. c # NULL
    BY <1>1 DEF MergeInv, IndInv, TypeOK, TablesOK, Id
  <1>3. Reporters(c)' = Reporters(c)
    BY <1>2 DEF Own
  <1>4. QED
    BY <1>1, <1>2, <1>3 DEF Exact

\* What a task in a host's critical section holds is not the cracker of another host.
LEMMA OwnIsOwn ==
  ASSUME MergeInv, NEW t \in Task, NEW u \in Task, u # t, InCritical(t), InCritical(u),
         NEW c0, Own(t, c0)
  PROVE  /\ HostOf(u) # HostOf(t)
         /\ obj[u] # NULL /\ obj[u].id # NULL /\ obj[u].row.ip = HostOf(u) => obj[u].id # c0
  <1>1. HostOf(u) # HostOf(t)
    BY DEF MergeInv, IndInv, LocksOK, MutualExclusion
  <1>2. obj[u] # NULL /\ obj[u].id # NULL =>
          /\ obj[u].id < nextCracker
          /\ obj[u].id \in DOMAIN crackers => crackers[obj[u].id].ip = obj[u].row.ip
    BY DEF MergeInv, IndInv, StoreOK, ObjectsOK
  <1>3. nextCracker \in Nat
    BY DEF MergeInv, IndInv, TypeOK, TablesOK, Id
  <1>4. QED
    BY <1>1, <1>2, <1>3 DEF Own

LEMMA RequestCountKept ==
  ASSUME MergeInv, NEW t \in Task, NEW u \in Request, u # t, RequestCounts(u),
         pc'[u] = pc[u], obj'[u] = obj[u], sub'[u] = sub[u], todo'[u] = todo[u],
         \/ UNCHANGED <<crackers, reports>>
         \/ InCritical(t) /\ \E c0 : Own(t, c0)
  PROVE  RequestCounts(u)'
  <1>1. HostOf(u)' = HostOf(u) /\ u \in Task
    BY DEF HostOf, Task
  <1>2. CASE UNCHANGED <<crackers, reports>>
    <2>1. \A c : (Exact(c)' <=> Exact(c)) /\ Reporters(c)' = Reporters(c)
      BY <1>2 DEF Exact, Reporters, ReportsOf
    <2>2. QED
      BY <1>1, <1>2, <2>1 DEF RequestCounts
  <1>3. CASE pc[u] \notin RequestCritical
    BY <1>3 DEF RequestCounts, RequestCritical
  <1>4. CASE InCritical(t) /\ pc[u] \in RequestCritical /\ \E c0 : Own(t, c0)
    <2>1. PICK c0 : Own(t, c0)
      BY <1>4
    <2>2. InCritical(u)
      BY <1>4 DEF InCritical
    <2>3. HostOf(u) # HostOf(t)
      BY <1>1, <1>4, <2>1, <2>2, OwnIsOwn
    <2>4. ASSUME pc[u] = "find", NEW c \in DOMAIN crackers', crackers'[c].ip = HostOf(u)
          PROVE  Exact(c)'
      <3>1. c # c0
        BY <2>1, <2>3, <2>4 DEF Own
      <3>2. c \in DOMAIN crackers /\ crackers[c].ip = HostOf(u) /\ (Exact(c)' <=> Exact(c))
        BY <2>1, <2>4, <3>1, ExactKept
      <3>3. QED
        BY <2>4, <3>2 DEF RequestCounts
    <2>5. ASSUME pc[u] \in RequestCritical \ {"find", "create"}
          PROVE  /\ Reporters(obj[u].id)' = Reporters(obj[u].id)
                 /\ Exact(obj[u].id)' <=> Exact(obj[u].id)
      <3>0. PICK c : c = obj[u].id
        OBVIOUS
      <3>1. c \in DOMAIN crackers /\ obj[u] # NULL /\ c # NULL /\ obj[u].row.ip = HostOf(u)
        BY <2>5, <3>0 DEF MergeInv, IndInv, LocalsOK, StoreOK, ObjectsOK
      <3>2. c # c0
        BY <1>1, <1>4, <2>1, <2>2, <3>0, <3>1, OwnIsOwn
      <3>3. Reporters(c)' = Reporters(c) /\ (Exact(c)' <=> Exact(c))
        BY <2>1, <3>1, <3>2, ExactKept
      <3>4. QED
        BY <3>0, <3>3 DEF Reporters, Exact, ReportsOf
    <2>6. QED
      BY <1>1, <2>4, <2>5 DEF RequestCounts, RequestCritical
  <1>5. QED
    BY <1>2, <1>3, <1>4

LEMMA JobCountKept ==
  ASSUME MergeInv, NEW t \in Task, NEW u \in Job, u # t, JobCounts(u),
         pc'[u] = pc[u], obj'[u] = obj[u],
         \/ UNCHANGED <<crackers, reports>>
         \/ InCritical(t) /\ \E c0 : Own(t, c0)
  PROVE  JobCounts(u)'
  <1>1. HostOf(u)' = HostOf(u) /\ u \in Task
    BY DEF HostOf, Task
  <1>2. CASE UNCHANGED <<crackers, reports>>
    <2>1. \A c : (Exact(c)' <=> Exact(c)) /\ Reporters(c)' = Reporters(c)
      BY <1>2 DEF Exact, Reporters, ReportsOf
    <2>2. QED
      BY <1>1, <1>2, <2>1 DEF JobCounts
  <1>3. CASE pc[u] \notin JobCritical
    BY <1>3 DEF JobCounts, JobCritical
  <1>4. CASE InCritical(t) /\ pc[u] \in JobCritical /\ \E c0 : Own(t, c0)
    <2>1. PICK c0 : Own(t, c0)
      BY <1>4
    <2>2. InCritical(u)
      BY <1>4 DEF InCritical
    <2>3. PICK d : d = obj[u].id
      OBVIOUS
    <2>4. d # NULL /\ obj[u] # NULL /\ obj[u].row.ip = HostOf(u)
      BY <1>4, <2>3 DEF MergeInv, IndInv, LocalsOK, HostOf
    <2>5. HostOf(u) # HostOf(t) /\ d # c0
      BY <1>1, <1>4, <2>1, <2>2, <2>3, <2>4, OwnIsOwn
    <2>6. ASSUME NEW c \in DOMAIN crackers' \ {d}, crackers'[c].ip = HostOf(u)
          PROVE  Exact(c)'
      <3>1. c # c0
        BY <2>1, <2>5, <2>6 DEF Own
      <3>2. c \in DOMAIN crackers /\ crackers[c].ip = HostOf(u) /\ (Exact(c)' <=> Exact(c))
        BY <2>1, <2>6, <3>1, ExactKept
      <3>3. QED
        BY <1>4, <2>3, <2>6, <3>2 DEF JobCounts
    <2>7. Reporters(d)' = Reporters(d)
      BY <2>1, <2>4, <2>5 DEF Own
    <2>8. d \in DOMAIN crackers' => d \in DOMAIN crackers /\ (Exact(d)' <=> Exact(d))
      BY <2>1, <2>5, ExactKept
    <2>9. /\ pc'[u] \in JobCritical =>
               \A c \in DOMAIN crackers' \ {obj'[u].id} : crackers'[c].ip = HostOf(u)' => Exact(c)'
          /\ pc'[u] = "writeback" => obj'[u].row.current = Cardinality(Reporters(d)')
          /\ pc'[u] = "release" /\ d \in DOMAIN crackers' => Exact(d)'
      BY <1>1, <2>3, <2>6, <2>7, <2>8 DEF JobCounts
    <2>10. Reporters(d)' = Reporters(obj[u].id)' /\ (Exact(d)' <=> Exact(obj[u].id)')
      BY <2>3 DEF Reporters, Exact, ReportsOf
    <2>11. QED
      BY <2>3, <2>9, <2>10 DEF JobCounts
  <1>5. QED
    BY <1>2, <1>3, <1>4

LEMMA FreeKept ==
  ASSUME MergeInv, NEW t \in Task, FreeExact, busy \subseteq busy',
         \/ UNCHANGED <<crackers, reports>>
         \/ InCritical(t) /\ UNCHANGED busy /\ \E c0 : Own(t, c0)
  PROVE  FreeExact'
  <1>1. CASE UNCHANGED <<crackers, reports>>
    BY <1>1 DEF FreeExact, Exact, Reporters, ReportsOf
  <1>2. CASE InCritical(t) /\ UNCHANGED busy /\ \E c0 : Own(t, c0)
    <2>1. PICK c0 : Own(t, c0)
      BY <1>2
    <2>2. HostOf(t) \in busy
      BY <1>2 DEF MergeInv, IndInv, LocksOK, LocksAreHeld
    <2>3. ASSUME NEW c \in DOMAIN crackers', crackers'[c].ip \notin busy
          PROVE  Exact(c)'
      <3>1. c # c0
        BY <2>1, <2>2, <2>3 DEF Own
      <3>2. c \in DOMAIN crackers /\ crackers'[c] = crackers[c] /\ (Exact(c)' <=> Exact(c))
        BY <2>1, <2>3, <3>1, ExactKept
      <3>3. QED
        BY <2>3, <3>2 DEF FreeExact
    <2>4. QED
      BY <1>2, <2>3 DEF FreeExact
  <1>3. QED
    BY <1>1, <1>2

\* The request that takes a step keeps count.
LEMMA RequestCountStep ==
  ASSUME MergeInv, NEW q \in Request, Accept(q) \/ RequestStep(q), RequestCounts(q), FreeExact
  PROVE  RequestCounts(q)'
  <1> USE DEF Task
  <1>1. /\ IndInv /\ q \in Task /\ pc \in [Task -> RequestLabel \cup JobLabel]
        /\ obj \in [Task -> CrackerObj \cup {NULL}]
    BY DEF MergeInv, IndInv, TypeOK, ControlOK, MemoryOK
  <1>2. ASSUME pc[q] \in RequestCritical \ {"find"}
        PROVE  obj[q] \in CrackerObj /\ obj[q].row \in CrackerRow
    BY <1>1, <1>2, RequestHolds DEF IndInv, RequestCritical
  <1>3. PICK d : d = obj[q].id
    OBVIOUS
  <1>4. CASE Accept(q) \/ UnlockHost(q)
    <2>1. pc'[q] \in {"lock", "idle"}
      BY <1>1, <1>4 DEF Accept, UnlockHost, Finish
    <2>2. QED
      BY <2>1 DEF RequestCounts
  <1>5. CASE Lock(q)
    <2>1. pc'[q] = "find" /\ UNCHANGED <<crackers, reports, todo>> /\ HostOf(q) \notin busy
      BY <1>1, <1>5 DEF Lock
    <2>2. \A c : Exact(c)' <=> Exact(c)
      BY <2>1 DEF Exact, Reporters, ReportsOf
    <2>3. HostOf(q)' = HostOf(q)
      BY <2>1 DEF HostOf
    <2>4. QED
      BY <2>1, <2>2, <2>3 DEF RequestCounts, FreeExact
  <1>6. CASE FindCracker(q)
    <2>1. UNCHANGED <<crackers, reports, todo>> /\ pc[q] = "find"
      BY <1>6 DEF FindCracker
    <2>2. CASE \E c \in DOMAIN crackers :
                 /\ crackers[c].ip = HostOf(q)
                 /\ obj' = [obj EXCEPT ![q] = [id |-> c, row |-> crackers[c]]]
                 /\ pc' = [pc EXCEPT ![q] = "reports"]
      <3>1. PICK c \in DOMAIN crackers :
              /\ crackers[c].ip = HostOf(q)
              /\ obj' = [obj EXCEPT ![q] = [id |-> c, row |-> crackers[c]]]
              /\ pc' = [pc EXCEPT ![q] = "reports"]
        BY <2>2
      <3>2. pc'[q] = "reports" /\ obj'[q].id = c /\ obj'[q].row = crackers[c]
        BY <1>1, <3>1
      <3>3. crackers[c].current = Cardinality(Reporters(c))
        BY <2>1, <3>1 DEF RequestCounts, Exact
      <3>4. Reporters(obj[q].id)' = Reporters(c)
        BY <2>1, <3>2 DEF Reporters, ReportsOf
      <3>5. QED
        BY <3>2, <3>3, <3>4 DEF RequestCounts
    <2>3. CASE /\ obj' = [obj EXCEPT ![q] =
                     [id |-> NULL,
                      row |-> [ip |-> HostOf(q), first |-> sub[q].when,
                               latest |-> sub[q].when, resil |-> 0,
                               total |-> 0, current |-> 0]]]
               /\ pc' = [pc EXCEPT ![q] = "create"]
      <3>1. pc'[q] = "create" /\ obj'[q].row.current = 0
        BY <1>1, <2>3
      <3>2. QED
        BY <3>1 DEF RequestCounts
    <2>4. QED
      BY <1>6, <2>2, <2>3 DEF FindCracker
  <1>7. CASE CreateCracker(q)
    <2>1. UNCHANGED reports /\ pc[q] = "create" /\ pc'[q] = "reports"
      BY <1>1, <1>7 DEF CreateCracker
    <2>2. obj'[q] = [obj[q] EXCEPT !.id = nextCracker]
      BY <1>1, <1>7 DEF CreateCracker
    <2>3. obj'[q].id = nextCracker /\ obj'[q].row = obj[q].row
      BY <1>2, <2>1, <2>2 DEF CrackerObj, RequestCritical
    <2>4. obj[q].row.current = 0
      BY <2>1 DEF RequestCounts
    <2>5. nextCracker # NULL /\ nextCracker \notin DOMAIN crackers
      BY <1>1 DEF IndInv, TypeOK, TablesOK, Id
    <2>6. ReportsOf(nextCracker) = {}
      BY <1>1, <2>5 DEF IndInv, StoreOK, NoDanglingReport, ReportsOf
    <2>7. Reporters(obj[q].id)' = {}
      BY <2>1, <2>3, <2>6 DEF Reporters, ReportsOf
    <2>8. QED
      BY <2>1, <2>3, <2>4, <2>7, FS_EmptySet DEF RequestCounts
  <1>8. CASE FindReports(q)
    <2> DEFINE mine == ReportsBy(obj[q].id, sub[q].client)
               n == obj[q].row.current
    <2>1. /\ UNCHANGED <<reports, sub>> /\ pc[q] = "reports"
          /\ n = Cardinality(Reporters(d)) /\ n \in Nat
      BY <1>1, <1>2, <1>3, <1>8 DEF FindReports, RequestCounts, CrackerRow, RequestCritical
    <2>2. sub[q].client \in Reporters(d) <=> mine # {}
      BY <1>3 DEF Reporters, ReportsBy, ReportsOf
    <2>3. ASSUME obj'[q].id = obj[q].id PROVE Reporters(obj[q].id)' = Reporters(d)
      BY <1>3, <2>1, <2>3 DEF Reporters, ReportsOf
    <2>4. CASE mine = {}
      <3>1. /\ pc' = [pc EXCEPT ![q] = "insert"]
            /\ obj' = [obj EXCEPT ![q].row.current = @ + 1]
        BY <1>8, <2>4, FS_EmptySet DEF FindReports, Full
      <3>2. pc'[q] = "insert"
        BY <1>1, <3>1
      <3>3. obj'[q].id = obj[q].id /\ obj'[q].row.current = n + 1
        BY <1>1, <1>2, <2>1, <3>1 DEF CrackerObj, CrackerRow, RequestCritical
      <3>4. Cardinality(Reporters(d) \cup {sub[q].client}) = Cardinality(Reporters(d)) + 1
        <4>1. IsFiniteSet(Reporters(d))
          BY <1>1, ReportersFinite DEF IndInv
        <4>2. sub[q].client \notin Reporters(d)
          BY <2>2, <2>4
        <4>3. QED
          BY <4>1, <4>2, FS_AddElement
      <3>5. obj'[q].row.current = Cardinality(Reporters(obj[q].id)' \cup {sub'[q].client})
        BY <2>1, <2>3, <3>3, <3>4
      <3>6. QED
        BY <3>2, <3>5 DEF RequestCounts
    <2>5. CASE mine # {}
      <3>1. UNCHANGED obj
        BY <1>8, <2>5 DEF FindReports
      <3>2. pc'[q] \in {"insert", "save", "touch"}
        BY <1>1, <1>8 DEF FindReports
      <3>3. Reporters(obj[q].id)' = Reporters(d) /\ sub[q].client \in Reporters(d)
        BY <2>2, <2>3, <2>5, <3>1
      <3>4. Reporters(d) \cup {sub[q].client} = Reporters(d)
        BY <3>3
      <3>5. QED
        BY <2>1, <3>1, <3>2, <3>3, <3>4 DEF RequestCounts
    <2>6. QED
      BY <2>4, <2>5
  <1>9. CASE InsertReport(q)
    <2>1. /\ RowsBut(nextReport) /\ nextReport \notin DOMAIN reports
          /\ pc[q] = "insert" /\ pc'[q] = "link" /\ UNCHANGED <<sub, obj>>
      BY <1>9, InsertFacts
    <2>2. reports'[nextReport].cracker = NULL
      <3>1. reports'[nextReport] = [cracker |-> NULL, ip |-> sub[q].client,
                                    first |-> sub[q].when, latest |-> sub[q].when]
        BY <1>9, InsertFacts
      <3>2. QED
        BY <3>1
    <2>3. d # NULL
      BY <1>1, <1>3, <2>1, MergeHolds DEF RequestCritical
    <2>4. PICK e : e # d
      BY <2>3
    <2>5. Reporters(d)' = Reporters(d)
      BY <2>1, <2>2, <2>3, <2>4, ReportersKept
    <2>6. Reporters(obj[q].id)' = Reporters(d)'
      BY <1>3, <2>1 DEF Reporters, ReportsOf
    <2>7. QED
      BY <1>3, <2>1, <2>5, <2>6 DEF RequestCounts
  <1>10. CASE LinkReport(q)
    <2>0. PICK i : i = rpt[q].id
      OBVIOUS
    <2>1. /\ RowsBut(i) /\ i \in DOMAIN reports /\ i \in DOMAIN reports'
          /\ pc[q] = "link" /\ pc'[q] = "save" /\ UNCHANGED <<sub, obj>>
      BY <1>10, <2>0, LinkFacts
    <2>2. /\ reports[i].cracker = NULL
          /\ reports'[i].cracker = d /\ reports'[i].ip = sub[q].client
      <3>1. /\ reports[i] = [cracker |-> NULL, ip |-> sub[q].client,
                             first |-> sub[q].when, latest |-> sub[q].when]
            /\ reports'[i] = [cracker |-> d, ip |-> sub[q].client,
                              first |-> sub[q].when, latest |-> sub[q].when]
        BY <1>3, <1>10, <2>0, LinkFacts
      <3>2. QED
        BY <3>1
    <2>3. d # NULL
      BY <1>1, <1>3, <2>1, MergeHolds DEF RequestCritical
    <2>4. ReportsOf(d)' = ReportsOf(d) \cup {i} /\ \A r \in ReportsOf(d) : reports'[r] = reports[r]
      BY <2>1, <2>2, <2>3 DEF RowsBut, ReportsOf
    <2>5. Reporters(d)' = Reporters(d) \cup {sub[q].client}
      BY <2>2, <2>4 DEF Reporters
    <2>6. Reporters(obj[q].id)' = Reporters(d)'
      BY <1>3, <2>1 DEF Reporters, ReportsOf
    <2>7. obj[q].row.current = Cardinality(Reporters(d) \cup {sub[q].client})
      BY <1>3, <2>1 DEF RequestCounts
    <2>8. QED
      BY <2>1, <2>5, <2>6, <2>7 DEF RequestCounts
  <1>11. CASE TouchReport(q)
    <2>0. PICK i : i = rpt[q].id
      OBVIOUS
    <2>1. /\ RowsBut(i) /\ i \in DOMAIN reports /\ i \in DOMAIN reports'
          /\ pc[q] = "touch" /\ pc'[q] = "save" /\ UNCHANGED <<sub, obj>>
      BY <1>11, <2>0, TouchFacts
    <2>2. reports'[i].cracker = reports[i].cracker /\ reports'[i].ip = reports[i].ip
      <3>1. /\ reports'[i] = [reports[i] EXCEPT !.latest = sub[q].when]
            /\ reports[i] \in ReportRow
        BY <1>11, <2>0, TouchFacts
      <3>2. QED
        BY <3>1 DEF ReportRow
    <2>3. ReportsOf(d)' = ReportsOf(d) /\ \A r \in ReportsOf(d) : reports'[r].ip = reports[r].ip
      BY <2>1, <2>2 DEF RowsBut, ReportsOf
    <2>4. Reporters(d)' = Reporters(d)
      BY <2>3 DEF Reporters
    <2>5. Reporters(obj[q].id)' = Reporters(d)'
      BY <1>3, <2>1 DEF Reporters, ReportsOf
    <2>6. QED
      BY <1>3, <2>1, <2>4, <2>5 DEF RequestCounts
  <1>12. CASE SaveCracker(q)
    <2> DEFINE row == [obj[q].row EXCEPT !.total = @ + 1, !.latest = sub[q].when,
                         !.resil = sub[q].when - obj[q].row.first]
               o == [obj[q] EXCEPT !.row = row]
    <2>1. /\ UNCHANGED reports /\ pc[q] = "save" /\ pc'[q] = "unlock"
          /\ crackers' = UpdateRow(crackers, d, row) /\ obj' = [obj EXCEPT ![q] = o]
      BY <1>1, <1>3, <1>12 DEF SaveCracker
    <2>2. obj[q] \in CrackerObj /\ obj[q].row \in CrackerRow
      BY <1>2, <2>1 DEF RequestCritical
    <2>3. row.current = obj[q].row.current
      BY <2>2 DEF CrackerRow
    <2> HIDE DEF row
    <2>4. o.id = d
      BY <1>3, <2>2 DEF CrackerObj
    <2> HIDE DEF o
    <2>5. obj'[q].id = d
      BY <1>1, <2>1, <2>4
    <2>6. d \in DOMAIN crackers
      BY <1>1, <1>3, <2>1 DEF IndInv, StoreOK, ObjectsOK, RequestCritical
    <2>7. crackers'[d] = row
      BY <2>1, <2>6 DEF UpdateRow
    <2>8. row.current = Cardinality(Reporters(d)) /\ Reporters(d) # {}
      BY <1>3, <2>1, <2>3 DEF RequestCounts
    <2>9. row.current > 0
      BY <1>1, <2>8, ReportersFinite DEF IndInv
    <2>10. Reporters(d)' = Reporters(d)
      BY <2>1 DEF Reporters, ReportsOf
    <2>11. Exact(d)'
      BY <2>7, <2>8, <2>9, <2>10 DEF Exact
    <2>12. Exact(obj[q].id)' <=> Exact(d)'
      BY <2>5 DEF Exact, Reporters, ReportsOf
    <2>13. QED
      BY <2>1, <2>11, <2>12 DEF RequestCounts
  <1>13. QED
    BY <1>4, <1>5, <1>6, <1>7, <1>8, <1>9, <1>10, <1>11, <1>12 DEF RequestStep

\* The job that takes a step keeps count.
LEMMA JobCountStep ==
  ASSUME MergeInv, NEW j \in Job, JobStep(j), JobCounts(j), FreeExact
  PROVE  JobCounts(j)'
  <1> USE DEF Task
  <1>1. /\ IndInv /\ j \in Task /\ j \notin Request /\ pc \in [Task -> RequestLabel \cup JobLabel]
        /\ obj \in [Task -> CrackerObj \cup {NULL}]
    BY DEF MergeInv, IndInv, TypeOK, ControlOK, MemoryOK
  <1>2. PICK d : d = obj[j].id
    OBVIOUS
  <1>3. CASE StartJob(j) \/ ScanReports(j) \/ FetchCracker(j) \/ FetchNoCracker(j) \/ ReleaseHost(j)
    <2>1. pc'[j] \notin JobCritical
      BY <1>1, <1>3 DEF StartJob, ScanReports, FetchCracker, FetchNoCracker, Die, ReleaseHost,
                        JobCritical
    <2>2. QED
      BY <2>1 DEF JobCounts, JobCritical
  <1>4. CASE Lock(j)
    <2>1. pc'[j] = "clear" /\ UNCHANGED <<crackers, reports, obj>> /\ HostOf(j) \notin busy
      BY <1>1, <1>4 DEF Lock
    <2>2. \A c : Exact(c)' <=> Exact(c)
      BY <2>1 DEF Exact, Reporters, ReportsOf
    <2>3. HostOf(j)' = HostOf(j)
      BY <1>1, <2>1 DEF HostOf
    <2>4. QED
      BY <2>1, <2>2, <2>3 DEF JobCounts, FreeExact
  <1>5. CASE \/ ClearReport(j) \/ DeleteReport(j) \/ CountReporters(j) \/ WriteBackCracker(j)
             \/ DropCracker(j)
    <2>1. pc[j] \in JobCritical
      BY <1>5 DEF ClearReport, DeleteReport, CountReporters, WriteBackCracker, DropCracker,
                  JobCritical
    <2>2. obj[j] \in CrackerObj /\ obj[j].row \in CrackerRow
      BY <1>1, <2>1, JobHolds DEF IndInv
    <2>3. obj'[j].id = d /\ obj'[j].row.ip = obj[j].row.ip
      <3>1. CASE CountReporters(j)
        <4> DEFINE n == Cardinality({reports[r].ip : r \in ReportsOf(obj[j].id)})
        <4>1. obj' = [obj EXCEPT ![j].row.current = n]
          BY <3>1 DEF CountReporters
        <4> HIDE DEF n
        <4>2. QED
          BY <1>1, <1>2, <2>2, <4>1 DEF CrackerObj, CrackerRow
      <3>2. CASE UNCHANGED obj
        BY <1>2, <3>2
      <3>3. QED
        BY <1>5, <3>1, <3>2 DEF ClearReport, DeleteReport, WriteBackCracker, DropCracker
    <2>4. HostOf(j)' = HostOf(j)
      BY <1>1, <2>3 DEF HostOf
    <2>5. ASSUME NEW c \in DOMAIN crackers' \ {d}, crackers'[c].ip = HostOf(j)
          PROVE  Exact(c)'
      <3>1. CASE UNCHANGED <<crackers, reports>>
        <4>1. Exact(c)
          BY <1>2, <2>1, <2>5, <3>1 DEF JobCounts
        <4>2. QED
          BY <3>1, <4>1 DEF Exact, Reporters, ReportsOf
      <3>2. CASE ~UNCHANGED <<crackers, reports>>
        <4>1. PICK c0 \in {d, nextCracker} : Own(j, c0)
          BY <1>2, <1>5, <3>2, JobOwn DEF JobStep
        <4>2. DOMAIN crackers' \subseteq DOMAIN crackers
          BY <1>5, <3>2, JobOwn DEF JobStep
        <4>3. c # c0
          BY <1>1, <2>5, <4>1, <4>2 DEF IndInv, TypeOK, TablesOK, Id
        <4>4. c \in DOMAIN crackers /\ crackers'[c] = crackers[c] /\ (Exact(c)' <=> Exact(c))
          BY <2>5, <4>1, <4>3, ExactKept
        <4>5. QED
          BY <1>2, <2>1, <2>5, <4>4 DEF JobCounts
      <3>3. QED
        BY <3>1, <3>2
    <2>6. pc'[j] = "writeback" => obj'[j].row.current = Cardinality(Reporters(obj[j].id)')
      <3>1. SUFFICES ASSUME pc'[j] = "writeback"
                     PROVE  obj'[j].row.current = Cardinality(Reporters(obj[j].id)')
        OBVIOUS
      <3>2. CountReporters(j)
        BY <1>1, <1>5, <3>1 DEF ClearReport, DeleteReport, WriteBackCracker, DropCracker,
                                AfterWriteBack
      <3> DEFINE n == Cardinality({reports[r].ip : r \in ReportsOf(obj[j].id)})
      <3>3. obj' = [obj EXCEPT ![j].row.current = n] /\ UNCHANGED reports
        BY <3>2 DEF CountReporters
      <3>4. n = Cardinality(Reporters(d))
        BY <1>2 DEF Reporters
      <3> HIDE DEF n
      <3>5. obj'[j].row.current = n
        BY <1>1, <2>2, <3>3 DEF CrackerObj, CrackerRow
      <3>6. Reporters(obj[j].id)' = Reporters(d)
        BY <2>3, <3>3 DEF Reporters, ReportsOf
      <3>7. QED
        BY <3>4, <3>5, <3>6
    <2>7. pc'[j] = "release" /\ d \in DOMAIN crackers' => Exact(d)'
      <3>1. SUFFICES ASSUME pc'[j] = "release", d \in DOMAIN crackers'
                     PROVE  Exact(d)'
        OBVIOUS
      <3>2. ~DropCracker(j)
        BY <1>2, <3>1 DEF DropCracker, DeleteRow, Restrict
      <3>3. WriteBackCracker(j)
        BY <1>1, <1>5, <3>1, <3>2 DEF ClearReport, DeleteReport, CountReporters
      <3> DEFINE row == obj[j].row
      <3>4. /\ UNCHANGED reports /\ pc[j] = "writeback"
            /\ crackers' = UpdateRow(crackers, d, row)
            /\ pc'[j] = AfterWriteBack(row.current)
        BY <1>1, <1>2, <3>3 DEF WriteBackCracker
      <3>5. row.current = Cardinality(Reporters(d)) /\ row.current \in Nat
        BY <1>2, <2>2, <3>4 DEF JobCounts, CrackerRow
      <3>6. row.current # 0
        BY <3>1, <3>4 DEF AfterWriteBack
      <3> HIDE DEF row
      <3>7. crackers'[d] = row
        BY <3>1, <3>4 DEF UpdateRow
      <3>8. Reporters(d)' = Reporters(d)
        BY <3>4 DEF Reporters, ReportsOf
      <3>9. row.current > 0
        BY <3>5, <3>6
      <3>10. QED
        BY <3>5, <3>7, <3>8, <3>9 DEF Exact
    <2>8. Exact(obj[j].id)' <=> Exact(d)'
      BY <2>3 DEF Exact, Reporters, ReportsOf
    <2>9. QED
      BY <2>3, <2>4, <2>5, <2>6, <2>7, <2>8 DEF JobCounts
  <1>6. QED
    BY <1>3, <1>4, <1>5 DEF JobStep

\* The crackers of the hosts nobody works on: a lock is taken, or given back by a task
\* that leaves its host's cracker exact.
LEMMA RequestFree ==
  ASSUME MergeInv, NEW q \in Request, Accept(q) \/ RequestStep(q), RequestCounts(q), FreeExact
  PROVE  FreeExact'
  <1>1. CASE UnlockHost(q)
    <2>1. /\ UNCHANGED <<crackers, reports>> /\ busy' = busy \ {HostOf(q)} /\ pc[q] = "unlock"
      BY <1>1 DEF UnlockHost
    <2>2. PICK d : d = obj[q].id
      OBVIOUS
    <2>3. /\ d \in DOMAIN crackers /\ obj[q] # NULL /\ d # NULL /\ obj[q].row.ip = HostOf(q)
      BY <2>1, <2>2 DEF MergeInv, IndInv, LocalsOK, StoreOK, ObjectsOK, RequestCritical
    <2>4. crackers[d].ip = HostOf(q)
      BY <2>2, <2>3 DEF MergeInv, IndInv, StoreOK, ObjectsOK, Task
    <2>5. \A c \in DOMAIN crackers : crackers[c].ip = HostOf(q) => c = d
      BY <2>3, <2>4 DEF MergeInv, IndInv, StoreOK, CreateIsFresh
    <2>6. Exact(d)
      BY <2>1, <2>2 DEF RequestCounts
    <2>7. \A c \in DOMAIN crackers : crackers[c].ip \notin busy' => Exact(c)
      BY <2>1, <2>5, <2>6 DEF FreeExact
    <2>8. \A c : Exact(c)' <=> Exact(c)
      BY <2>1 DEF Exact, Reporters, ReportsOf
    <2>9. QED
      BY <2>1, <2>7, <2>8 DEF FreeExact
  <1>2. CASE ~UnlockHost(q)
    <2>1. busy \subseteq busy'
      BY <1>2 DEF Accept, RequestStep, Lock, FindCracker, CreateCracker, FindReports, InsertReport,
                  LinkReport, TouchReport, SaveCracker
    <2>2. QED
      BY <2>1, RequestOwn, FreeKept DEF Task
  <1>3. QED
    BY <1>1, <1>2

LEMMA JobFree ==
  ASSUME MergeInv, NEW j \in Job, JobStep(j), JobCounts(j), FreeExact
  PROVE  FreeExact'
  <1>1. CASE ReleaseHost(j)
    <2>1. /\ UNCHANGED <<crackers, reports>> /\ busy' = busy \ {HostOf(j)} /\ pc[j] = "release"
      BY <1>1 DEF ReleaseHost
    <2>2. \A c \in DOMAIN crackers : crackers[c].ip = HostOf(j) => Exact(c)
      BY <2>1 DEF JobCounts, JobCritical
    <2>3. \A c \in DOMAIN crackers : crackers[c].ip \notin busy' => Exact(c)
      BY <2>1, <2>2 DEF FreeExact
    <2>4. \A c : Exact(c)' <=> Exact(c)
      BY <2>1 DEF Exact, Reporters, ReportsOf
    <2>5. QED
      BY <2>1, <2>3, <2>4 DEF FreeExact
  <1>2. CASE ~ReleaseHost(j)
    <2>1. busy \subseteq busy'
      BY <1>2 DEF JobStep, StartJob, ScanReports, FetchCracker, FetchNoCracker, Lock, ClearReport,
                  DeleteReport, CountReporters, WriteBackCracker, DropCracker
    <2>2. QED
      BY <2>1, JobOwn, FreeKept DEF Task
  <1>3. QED
    BY <1>1, <1>2

\* Without failures so far: a failure leaves a row half-updated and ends the count.
LEMMA RequestCountsOn ==
  ASSUME MergeInv, NEW q \in Request, Accept(q) \/ RequestStep(q),
         \A p \in Request : RequestCounts(p), \A j \in Job : JobCounts(j), FreeExact
  PROVE  (\A p \in Request : RequestCounts(p)') /\ (\A j \in Job : JobCounts(j)') /\ FreeExact'
  <1>1. /\ \A u \in Task \ {q} : pc'[u] = pc[u] /\ obj'[u] = obj[u]
        /\ \A u \in Request \ {q} : todo'[u] = todo[u] /\ sub'[u] = sub[u]
    BY RequestAlone DEF MergeInv, IndInv
  <1>2. q \in Task /\ q \notin Job /\ Request \subseteq Task /\ Job \subseteq Task
    BY DEF Task
  <1>3. UNCHANGED <<crackers, reports>> \/ (InCritical(q) /\ \E c0 : Own(q, c0))
    BY RequestOwn
  <1>4. \A p \in Request \ {q} : RequestCounts(p)'
    BY <1>1, <1>2, <1>3, RequestCountKept
  <1>5. \A j \in Job : JobCounts(j)'
    BY <1>1, <1>2, <1>3, JobCountKept
  <1>6. RequestCounts(q)' /\ FreeExact'
    BY RequestCountStep, RequestFree
  <1>7. QED
    BY <1>4, <1>5, <1>6

LEMMA JobCountsOn ==
  ASSUME MergeInv, NEW j \in Job, JobStep(j),
         \A q \in Request : RequestCounts(q), \A i \in Job : JobCounts(i), FreeExact
  PROVE  (\A q \in Request : RequestCounts(q)') /\ (\A i \in Job : JobCounts(i)') /\ FreeExact'
  <1>1. /\ \A u \in Task \ {j} : pc'[u] = pc[u] /\ obj'[u] = obj[u]
        /\ UNCHANGED <<todo, sub>>
    BY JobAlone DEF MergeInv, IndInv
  <1>2. j \in Task /\ j \notin Request /\ Request \subseteq Task /\ Job \subseteq Task
    BY DEF Task
  <1>3. UNCHANGED <<crackers, reports>> \/ (InCritical(j) /\ \E c0 : Own(j, c0))
    BY JobOwn
  <1>4. \A q \in Request : RequestCounts(q)'
    BY <1>1, <1>2, <1>3, RequestCountKept
  <1>5. \A i \in Job \ {j} : JobCounts(i)'
    BY <1>1, <1>2, <1>3, JobCountKept
  <1>6. JobCounts(j)' /\ FreeExact'
    BY JobCountStep, JobFree
  <1>7. QED
    BY <1>4, <1>5, <1>6

LEMMA CountInit == Init => CountsOK
  <1> SUFFICES ASSUME Init PROVE CountsOK
    OBVIOUS
  <1>1. DOMAIN crackers = {} /\ \A t \in Task : pc[t] = "idle"
    BY DEF Init
  <1>2. QED
    BY <1>1 DEF CountsOK, RequestCounts, JobCounts, FreeExact, JobCritical, Task

LEMMA CountStep ==
  ASSUME MergeInv, CountsOK, [Next]_vars
  PROVE  CountsOK'
  <1>1. faults \in Nat
    BY DEF MergeInv, IndInv, TypeOK, ControlOK
  <1>2. CASE Restart \/ (\E q \in Request : FailRequest(q)) \/ (\E j \in Job : FailJob(j))
    <2>1. faults' = faults + 1
      BY <1>2 DEF Restart, FailRequest, FailJob
    <2>2. faults' # 0
      BY <1>1, <2>1
    <2>3. QED
      BY <2>2 DEF CountsOK
  <1>3. ASSUME NEW q \in Request, Accept(q) \/ RequestStep(q)
        PROVE  CountsOK'
    <2>1. UNCHANGED faults
      BY <1>3 DEF Accept, RequestStep, Lock, FindCracker, CreateCracker, FindReports, InsertReport,
                  LinkReport, TouchReport, SaveCracker, UnlockHost
    <2>2. QED
      BY <1>3, <2>1, RequestCountsOn DEF CountsOK
  <1>4. ASSUME NEW j \in Job, JobStep(j)
        PROVE  CountsOK'
    <2>1. UNCHANGED faults
      BY <1>4 DEF JobStep, StartJob, ScanReports, FetchCracker, FetchNoCracker, Lock, ClearReport,
                  DeleteReport, CountReporters, WriteBackCracker, DropCracker, ReleaseHost
    <2>2. QED
      BY <1>4, <2>1, JobCountsOn DEF CountsOK
  <1>5. CASE Tick \/ UNCHANGED vars
    <2>1. UNCHANGED <<tables, busy, pc, locals, faults>>
      BY <1>5 DEF Tick, vars
    <2>2. \A c : (Exact(c)' <=> Exact(c)) /\ Reporters(c)' = Reporters(c)
      BY <2>1 DEF Exact, Reporters, ReportsOf
    <2>3. \A t : HostOf(t)' = HostOf(t)
      BY <2>1 DEF HostOf
    <2>4. (\A q \in Request : RequestCounts(q)' <=> RequestCounts(q))
      BY <2>1, <2>2, <2>3 DEF RequestCounts
    <2>5. (\A j \in Job : JobCounts(j)' <=> JobCounts(j))
      BY <2>1, <2>2, <2>3 DEF JobCounts
    <2>6. FreeExact' <=> FreeExact
      BY <2>1, <2>2 DEF FreeExact
    <2>7. QED
      BY <2>1, <2>4, <2>5, <2>6 DEF CountsOK
  <1>6. QED
    BY <1>2, <1>3, <1>4, <1>5 DEF Next, Running

\* The counters and what they count go together in every reachable state.
LEMMA StoreCounts == Spec => [](MergeInv /\ CountsOK)
  BY CountInit, CountStep, MergeInvariant, PTL DEF Spec

\* While nobody works on a host and nothing failed, current_reports of its cracker is the
\* number of clients with a report on it, whatever requests and maintenance jobs did to it
\* (add_report_to_cracker counts up, perform_maintenance counts again).
THEOREM ReportersAreCounted == Spec => []CurrentIsExact
  <1>1. CountsOK => CurrentIsExact
    BY DEF CountsOK, FreeExact, Exact, Reporters, CurrentIsExact
  <1>2. QED
    BY <1>1, StoreCounts, PTL

--------------------------------------------------------------------------------
(* A single job survives.                                                     *)

\* A report without a cracker is in the hands of the task that gives it one or deletes it.
InHand(r) ==
  \/ \E q \in Request : pc[q] = "link" /\ rpt[q].id = r
  \/ \E j \in Job : pc[j] = "delete" /\ rpt[j].id = r

StampsRecent == \A q \in Request : pc[q] # "idle" => now - sub[q].when < EXPIRY
NullsInHand == \A r \in DOMAIN reports : reports[r].cracker = NULL => InHand(r)

\* The reports of a batch are in the table with the cracker they were read with, each once.
Intact(j) ==
  /\ pc[j] # "dead"
  /\ \A b \in batch[j] :
       /\ b.id \in DOMAIN reports /\ b.row.cracker # NULL
       /\ reports[b.id].cracker = b.row.cracker
  /\ \A a, b \in batch[j] : a.id = b.id => a = b
  /\ pc[j] \in {"lock", "clear", "delete"} => \A b \in batch[j] : b.id # rpt[j].id

SurvivalOK == faults = 0 => StampsRecent /\ NullsInHand /\ \A j \in Job : Intact(j)

\* handle_report_from_client takes no cracker away, and leaves no report without one that
\* it does not hold.
LEMMA RequestLinks ==
  ASSUME MergeInv, NEW q \in Request, Accept(q) \/ RequestStep(q)
  PROVE  /\ \A r \in DOMAIN reports : reports[r].cracker # NULL =>
              r \in DOMAIN reports' /\ reports'[r].cracker = reports[r].cracker
         /\ \A r \in DOMAIN reports' : reports'[r].cracker = NULL =>
              \/ pc'[q] = "link" /\ rpt'[q].id = r
              \/ /\ r \in DOMAIN reports /\ reports[r].cracker = NULL
                 /\ ~(pc[q] = "link" /\ rpt[q].id = r)
  <1>1. CASE InsertReport(q)
    <2>1. /\ RowsBut(nextReport) /\ nextReport \notin DOMAIN reports
          /\ pc[q] = "insert" /\ pc'[q] = "link" /\ rpt'[q].id = nextReport
      BY <1>1, InsertFacts
    <2>2. QED
      BY <2>1 DEF RowsBut
  <1>2. CASE LinkReport(q)
    <2>0. PICK i : i = rpt[q].id
      OBVIOUS
    <2>1. RowsBut(i) /\ obj[q].id \in Id /\ pc[q] = "link"
      BY <1>2, <2>0, LinkFacts
    <2>2. reports[i].cracker = NULL /\ reports'[i].cracker = obj[q].id
      <3>1. /\ reports[i] = [cracker |-> NULL, ip |-> sub[q].client,
                             first |-> sub[q].when, latest |-> sub[q].when]
            /\ reports'[i] = [cracker |-> obj[q].id, ip |-> sub[q].client,
                              first |-> sub[q].when, latest |-> sub[q].when]
        BY <1>2, <2>0, LinkFacts
      <3>2. QED
        BY <3>1
    <2>3. obj[q].id # NULL
      BY <2>1 DEF Id
    <2>4. QED
      BY <2>0, <2>1, <2>2, <2>3 DEF RowsBut
  <1>3. CASE TouchReport(q)
    <2>0. PICK i : i = rpt[q].id
      OBVIOUS
    <2>1. /\ RowsBut(i) /\ i \in DOMAIN reports /\ i \in DOMAIN reports' /\ pc[q] = "touch"
          /\ reports[i] \in ReportRow
          /\ reports'[i] = [reports[i] EXCEPT !.latest = sub[q].when]
      BY <1>3, <2>0, TouchFacts
    <2>2. reports'[i].cracker = reports[i].cracker
      BY <2>1 DEF ReportRow
    <2>3. QED
      BY <2>1, <2>2 DEF RowsBut
  <1>4. CASE UNCHANGED reports /\ pc[q] # "link"
    BY <1>4
  <1>5. QED
    BY <1>1, <1>2, <1>3, <1>4 DEF Accept, RequestStep, Lock, FindCracker, CreateCracker,
       FindReports, SaveCracker, UnlockHost

\* A request's stamp is recent while it is served: Accept and Tick see to it.
LEMMA StampsStep ==
  ASSUME MergeInv, NEW q \in Request, Accept(q) \/ RequestStep(q), StampsRecent
  PROVE  StampsRecent'
  <1>1. /\ \A p \in Request \ {q} : pc'[p] = pc[p] /\ sub'[p] = sub[p]
        /\ UNCHANGED now
    BY RequestAlone, RequestRows DEF MergeInv, IndInv, Task
  <1>2. /\ now \in Nat /\ sub \in [Request -> Stamp \cup {NULL}] /\ q \in Task
        /\ pc \in [Task -> RequestLabel \cup JobLabel]
    BY DEF MergeInv, IndInv, TypeOK, ControlOK, MemoryOK, Task
  <1>3. pc'[q] # "idle" => now - sub'[q].when < EXPIRY
    <2>1. CASE Accept(q)
      <3>1. PICK client \in Client, delay \in 0..MaxDelay :
              sub' = [sub EXCEPT ![q] = [client |-> client, when |-> now - delay]]
        BY <2>1 DEF Accept
      <3>2. sub'[q] = [client |-> client, when |-> now - delay]
        BY <1>2, <3>1
      <3>3. sub'[q].when = now - delay
        BY <3>2
      <3>4. QED
        BY <1>2, <3>3, TimeAssumption
    <2>2. CASE RequestStep(q)
      <3>1. pc[q] # "idle" /\ (UNCHANGED sub \/ pc'[q] = "idle")
        BY <1>2, <2>2 DEF RequestStep, Lock, FindCracker, CreateCracker, FindReports, InsertReport,
           LinkReport, TouchReport, SaveCracker, UnlockHost, Finish
      <3>2. QED
        BY <3>1 DEF StampsRecent
    <2>3. QED
      BY <2>1, <2>2
  <1>4. QED
    BY <1>1, <1>3 DEF StampsRecent

LEMMA RequestSurvival ==
  ASSUME MergeInv, NEW q \in Request, Accept(q) \/ RequestStep(q),
         NullsInHand, \A j \in Job : Intact(j)
  PROVE  NullsInHand' /\ \A j \in Job : Intact(j)'
  <1>1. /\ \A u \in Task \ {q} : pc'[u] = pc[u] /\ rpt'[u] = rpt[u]
        /\ UNCHANGED batch /\ q \notin Job /\ Job \subseteq Task /\ Request \subseteq Task
    BY RequestAlone DEF MergeInv, IndInv, Task
  <1>2. ASSUME NEW r \in DOMAIN reports', reports'[r].cracker = NULL
        PROVE  InHand(r)'
    <2>1. CASE pc'[q] = "link" /\ rpt'[q].id = r
      BY <2>1 DEF InHand
    <2>2. CASE /\ r \in DOMAIN reports /\ reports[r].cracker = NULL
               /\ ~(pc[q] = "link" /\ rpt[q].id = r)
      <3>1. InHand(r)
        BY <2>2 DEF NullsInHand
      <3>2. QED
        BY <1>1, <2>2, <3>1 DEF InHand
    <2>3. QED
      BY <1>2, <2>1, <2>2, RequestLinks
  <1>3. ASSUME NEW j \in Job
        PROVE  Intact(j)'
    <2>1. \A b \in batch[j] : b.id \in DOMAIN reports' /\ reports'[b.id].cracker = b.row.cracker
      BY RequestLinks DEF Intact
    <2>2. pc'[j] = pc[j] /\ rpt'[j] = rpt[j] /\ batch'[j] = batch[j]
      BY <1>1
    <2>3. QED
      BY <2>1, <2>2 DEF Intact
  <1>4. QED
    BY <1>2, <1>3 DEF NullsInHand

\* perform_maintenance is the only one to take a report's cracker away or to delete it.
LEMMA JobNulls ==
  ASSUME MergeInv, NEW j \in Job, JobStep(j), NullsInHand, \A i \in Job : i = j
  PROVE  NullsInHand'
  <1>1. /\ \A q \in Request : pc'[q] = pc[q] /\ rpt'[q] = rpt[q]
        /\ j \in Task /\ pc \in [Task -> RequestLabel \cup JobLabel]
    BY JobAlone DEF MergeInv, IndInv, TypeOK, ControlOK, Task
  <1>2. CASE ClearReport(j)
    <2>0. PICK i : i = rpt[j].id
      OBVIOUS
    <2>1. /\ RowsBut(i) /\ (i \in DOMAIN reports' <=> i \in DOMAIN reports)
          /\ pc[j] = "clear" /\ pc'[j] = "delete" /\ rpt'[j].id = i
      BY <1>2, <2>0, ClearFacts
    <2>2. ASSUME NEW r \in DOMAIN reports', reports'[r].cracker = NULL
          PROVE  InHand(r)'
      <3>1. CASE r = i
        BY <2>1, <3>1 DEF InHand
      <3>2. CASE r # i
        <4>1. InHand(r)
          BY <2>1, <2>2, <3>2 DEF RowsBut, NullsInHand
        <4>2. PICK q \in Request : pc[q] = "link" /\ rpt[q].id = r
          BY <2>1, <4>1 DEF InHand
        <4>3. QED
          BY <1>1, <4>2 DEF InHand
      <3>3. QED
        BY <3>1, <3>2
    <2>3. QED
      BY <2>2 DEF NullsInHand
  <1>3. CASE DeleteReport(j)
    <2>0. PICK i : i = rpt[j].id
      OBVIOUS
    <2>1. RowsBut(i) /\ i \notin DOMAIN reports' /\ pc[j] = "delete"
      BY <1>3, <2>0, DeleteFacts
    <2>2. ASSUME NEW r \in DOMAIN reports', reports'[r].cracker = NULL
          PROVE  InHand(r)'
      <3>1. InHand(r) /\ r # i
        BY <2>1, <2>2 DEF RowsBut, NullsInHand
      <3>2. PICK q \in Request : pc[q] = "link" /\ rpt[q].id = r
        BY <2>0, <3>1 DEF InHand
      <3>3. QED
        BY <1>1, <3>2 DEF InHand
    <2>3. QED
      BY <2>2 DEF NullsInHand
  <1>4. CASE ~ClearReport(j) /\ ~DeleteReport(j)
    <2>1. UNCHANGED reports /\ pc[j] # "delete"
      BY <1>4 DEF JobStep, StartJob, ScanReports, FetchCracker, FetchNoCracker, Lock,
                  CountReporters, WriteBackCracker, DropCracker, ReleaseHost
    <2>2. ASSUME NEW r \in DOMAIN reports', reports'[r].cracker = NULL
          PROVE  InHand(r)'
      <3>1. InHand(r)
        BY <2>1, <2>2 DEF NullsInHand
      <3>2. PICK q \in Request : pc[q] = "link" /\ rpt[q].id = r
        BY <2>1, <3>1 DEF InHand
      <3>3. QED
        BY <1>1, <3>2 DEF InHand
    <2>3. QED
      BY <2>2 DEF NullsInHand
  <1>5. QED
    BY <1>2, <1>3, <1>4

\* The report of an expired row is not about to be linked, so it has a cracker.
LEMMA OldIsLinked ==
  ASSUME MergeInv, NEW j \in Job, pc[j] = "scan", StampsRecent, NullsInHand, \A i \in Job : i = j,
         NEW r \in DOMAIN reports, reports[r].latest < limit[j]
  PROVE  reports[r].cracker # NULL
  <1>1. SUFFICES ASSUME reports[r].cracker = NULL
                 PROVE  FALSE
    OBVIOUS
  <1>2. PICK q \in Request : pc[q] = "link" /\ rpt[q].id = r
    BY <1>1 DEF NullsInHand, InHand
  <1>3. reports[r].latest = sub[q].when
    <2>1. reports[r] = [cracker |-> NULL, ip |-> sub[q].client,
                        first |-> sub[q].when, latest |-> sub[q].when]
      BY <1>2 DEF MergeInv, MergesOK, MergeOK
    <2>2. QED
      BY <2>1
  <1>4. now - sub[q].when < EXPIRY /\ limit[j] <= now - EXPIRY
    BY <1>2 DEF StampsRecent, MergeInv, BatchesOK, BatchOK
  <1>5. sub[q].when \in Int /\ limit[j] \in Int /\ now \in Nat /\ EXPIRY \in Nat
    <2>1. sub[q] \in Stamp
      BY <1>2, MergeHolds DEF MergeInv, RequestCritical
    <2>2. limit[j] \in Int /\ now \in Nat
      BY DEF MergeInv, IndInv, TypeOK, ControlOK, MemoryOK
    <2>3. QED
      BY <2>1, <2>2, TimeAssumption DEF Stamp
  <1>6. QED
    BY <1>3, <1>4, <1>5

LEMMA JobIntact ==
  ASSUME MergeInv, NEW j \in Job, JobStep(j), StampsRecent, NullsInHand, Intact(j),
         \A i \in Job : i = j
  PROVE  Intact(j)'
  <1>1. /\ j \in Task /\ pc \in [Task -> RequestLabel \cup JobLabel]
        /\ rpt \in [Task -> ReportObj \cup {NULL}] /\ batch \in [Job -> SUBSET ReportObj]
        /\ BatchOK(j)
    BY DEF MergeInv, IndInv, TypeOK, ControlOK, MemoryOK, BatchesOK, Task
  <1>2. CASE StartJob(j)
    <2>1. UNCHANGED <<reports, batch>> /\ pc'[j] = "scan"
      BY <1>1, <1>2 DEF StartJob
    <2>2. QED
      BY <2>1 DEF Intact
  <1>3. CASE ScanReports(j)
    <2>1. pc[j] = "scan" /\ UNCHANGED reports /\ pc'[j] \in {"idle", "fetch"}
      BY <1>1, <1>3 DEF ScanReports
    <2>2. CASE UNCHANGED batch
      BY <2>1, <2>2 DEF Intact
    <2>3. CASE ~UNCHANGED batch
      <3>1. PICK ids \in SUBSET {r \in DOMAIN reports : reports[r].latest < limit[j]} :
              batch' = [batch EXCEPT ![j] = {[id |-> r, row |-> reports[r]] : r \in ids}]
        BY <1>3, <2>3 DEF ScanReports
      <3>2. batch'[j] = {[id |-> r, row |-> reports[r]] : r \in ids}
        BY <1>1, <3>1
      <3>3. ASSUME NEW b \in batch'[j]
            PROVE  /\ b.id \in ids /\ b = [id |-> b.id, row |-> reports[b.id]]
                   /\ b.row = reports[b.id]
        <4>1. PICK r \in ids : b = [id |-> r, row |-> reports[r]]
          BY <3>2, <3>3
        <4>2. b.id = r /\ b.row = reports[r]
          BY <4>1
        <4>3. QED
          BY <4>1, <4>2
      <3>4. \A r \in ids : r \in DOMAIN reports /\ reports[r].cracker # NULL
        BY <2>1, OldIsLinked
      <3>5. \A b \in batch'[j] : b.id \in DOMAIN reports /\ b.row.cracker # NULL
                                 /\ reports[b.id].cracker = b.row.cracker
        BY <3>3, <3>4
      <3>6. \A a, b \in batch'[j] : a.id = b.id => a = b
        BY <3>3
      <3>7. QED
        BY <2>1, <3>5, <3>6 DEF Intact
    <2>4. QED
      BY <2>2, <2>3
  <1>4. CASE FetchCracker(j)
    <2>1. PICK r \in batch[j] : /\ rpt' = [rpt EXCEPT ![j] = r]
                                /\ batch' = [batch EXCEPT ![j] = @ \ {r}]
      BY <1>4 DEF FetchCracker
    <2>2. pc'[j] = "lock" /\ rpt'[j] = r /\ batch'[j] = batch[j] \ {r} /\ UNCHANGED reports
      BY <1>1, <1>4, <2>1 DEF FetchCracker
    <2>3. QED
      BY <2>2 DEF Intact
  <1>5. CASE FetchNoCracker(j)
    <2>1. PICK b \in batch[j] : b.row.cracker \notin DOMAIN crackers
      BY <1>5 DEF FetchNoCracker
    <2>2. /\ b.id \in DOMAIN reports /\ b.row.cracker # NULL
          /\ reports[b.id].cracker = b.row.cracker
      BY <2>1 DEF Intact
    <2>3. FALSE
      BY <2>1, <2>2 DEF MergeInv, IndInv, StoreOK, NoDanglingReport
    <2>4. QED
      BY <2>3
  <1>6. CASE Lock(j)
    <2>1. UNCHANGED <<reports, batch, rpt>> /\ pc[j] = "lock" /\ pc'[j] = "clear"
      BY <1>1, <1>6, TaskAssumption DEF Lock
    <2>2. QED
      BY <2>1 DEF Intact
  <1>7. CASE ClearReport(j) \/ DeleteReport(j)
    <2>0. PICK i : i = rpt[j].id
      OBVIOUS
    <2>1. /\ RowsBut(i) /\ UNCHANGED batch /\ pc[j] \in {"clear", "delete"}
          /\ (pc'[j] = "delete" /\ rpt'[j].id = i) \/ pc'[j] = "count"
      BY <1>7, <2>0, ClearFacts, DeleteFacts
    <2>2. \A b \in batch[j] : b.id # i
      BY <2>0, <2>1 DEF Intact
    <2>3. \A b \in batch[j] : b.id \in DOMAIN reports' /\ reports'[b.id].cracker = b.row.cracker
      BY <2>1, <2>2 DEF Intact, RowsBut
    <2>4. QED
      BY <2>1, <2>2, <2>3 DEF Intact
  <1>8. CASE CountReporters(j) \/ WriteBackCracker(j) \/ DropCracker(j) \/ ReleaseHost(j)
    <2>1. /\ UNCHANGED <<reports, batch>>
          /\ pc'[j] \in {"writeback", "drop", "release", "scan", "fetch"}
      BY <1>1, <1>8 DEF CountReporters, WriteBackCracker, DropCracker, ReleaseHost, AfterWriteBack
    <2>2. QED
      BY <2>1 DEF Intact
  <1>9. QED
    BY <1>2, <1>3, <1>4, <1>5, <1>6, <1>7, <1>8 DEF JobStep

LEMMA SurvivalInit == Init => SurvivalOK
  <1> SUFFICES ASSUME Init PROVE SurvivalOK
    OBVIOUS
  <1>1. /\ DOMAIN reports = {} /\ \A t \in Task : pc[t] = "idle"
        /\ \A j \in Job : batch[j] = {}
    BY DEF Init
  <1>2. QED
    BY <1>1 DEF SurvivalOK, StampsRecent, NullsInHand, Intact, Task

LEMMA SurvivalStep ==
  ASSUME \A i, j \in Job : i = j, MergeInv, SurvivalOK, [Next]_vars
  PROVE  SurvivalOK'
  <1>1. faults \in Nat
    BY DEF MergeInv, IndInv, TypeOK, ControlOK
  <1>2. CASE Restart \/ (\E q \in Request : FailRequest(q)) \/ (\E j \in Job : FailJob(j))
    <2>1. faults' = faults + 1
      BY <1>2 DEF Restart, FailRequest, FailJob
    <2>2. faults' # 0
      BY <1>1, <2>1
    <2>3. QED
      BY <2>2 DEF SurvivalOK
  <1>3. ASSUME NEW q \in Request, Accept(q) \/ RequestStep(q)
        PROVE  SurvivalOK'
    <2>1. UNCHANGED faults
      BY <1>3 DEF Accept, RequestStep, Lock, FindCracker, CreateCracker, FindReports, InsertReport,
                  LinkReport, TouchReport, SaveCracker, UnlockHost
    <2>2. QED
      BY <1>3, <2>1, StampsStep, RequestSurvival DEF SurvivalOK
  <1>4. ASSUME NEW j \in Job, JobStep(j)
        PROVE  SurvivalOK'
    <2>1. UNCHANGED faults
      BY <1>4 DEF JobStep, StartJob, ScanReports, FetchCracker, FetchNoCracker, Lock, ClearReport,
                  DeleteReport, CountReporters, WriteBackCracker, DropCracker, ReleaseHost
    <2>2. /\ \A q \in Request : pc'[q] = pc[q]
          /\ UNCHANGED <<sub, now>>
      BY <1>4, JobAlone, JobRows DEF MergeInv, IndInv, Task
    <2>3. \A i \in Job : i = j
      OBVIOUS
    <2>4. ASSUME StampsRecent, NullsInHand, Intact(j)
          PROVE  StampsRecent' /\ NullsInHand' /\ Intact(j)'
      <3>1. StampsRecent'
        BY <2>2, <2>4 DEF StampsRecent
      <3>2. NullsInHand' /\ Intact(j)'
        BY <1>4, <2>3, <2>4, JobNulls, JobIntact
      <3>3. QED
        BY <3>1, <3>2
    <2>5. QED
      BY <2>1, <2>3, <2>4 DEF SurvivalOK
  <1>5. CASE Tick \/ UNCHANGED vars
    <2>1. UNCHANGED <<tables, pc, locals, faults>>
      BY <1>5 DEF Tick, vars
    <2>2. StampsRecent => StampsRecent'
      <3>1. CASE Tick
        <4>1. /\ now' = now + 1 /\ UNCHANGED <<pc, sub>>
              /\ \A q \in Request : pc[q] # "idle" => now + 1 - sub[q].when < EXPIRY
          BY <3>1 DEF Tick
        <4>2. ASSUME NEW q \in Request, pc'[q] # "idle"
              PROVE  now' - sub'[q].when < EXPIRY
          <5>1. pc[q] # "idle" /\ now' = now + 1 /\ sub'[q] = sub[q]
            BY <4>1, <4>2
          <5>2. now + 1 - sub[q].when < EXPIRY
            BY <4>1, <5>1
          <5>3. sub[q] \in Stamp /\ now \in Nat
            BY <5>1, RequestHolds DEF MergeInv, IndInv, TypeOK, ControlOK
          <5>4. sub[q].when \in Int /\ sub'[q].when = sub[q].when
            BY <5>1, <5>3 DEF Stamp
          <5>5. QED
            BY <5>1, <5>2, <5>3, <5>4, TimeAssumption
        <4>3. QED
          BY <4>2, Zenon DEF StampsRecent
      <3>2. CASE UNCHANGED vars
        <4>1. UNCHANGED now
          BY <3>2 DEF vars
        <4>2. QED
          BY <2>1, <4>1 DEF StampsRecent
      <3>3. QED
        BY <1>5, <3>1, <3>2
    <2>3. NullsInHand => NullsInHand'
      BY <2>1 DEF NullsInHand, InHand
    <2>4. (\A j \in Job : Intact(j)) => \A j \in Job : Intact(j)'
      BY <2>1 DEF Intact
    <2>5. QED
      BY <2>1, <2>2, <2>3, <2>4 DEF SurvivalOK
  <1>6. QED
    BY <1>2, <1>3, <1>4, <1>5 DEF Next, Running

\* A single maintenance job never fails by itself: the cracker of each report of its batch
\* is there when report.cracker.get() asks for it.  (Two jobs, the scheduled one and that of
\* xmlrpc_maintenance, can take each other's crackers away.)
THEOREM OneJobSurvives ==
  ASSUME \A i, j \in Job : i = j
  PROVE  Spec => []JobSurvives
  <1>1. MergeInv /\ SurvivalOK /\ [Next]_vars => SurvivalOK'
    BY SurvivalStep
  <1>2. SurvivalOK => JobSurvives
    BY DEF SurvivalOK, Intact, JobSurvives
  <1>3. QED
    BY <1>1, <1>2, SurvivalInit, MergeInvariant, PTL DEF Spec

--------------------------------------------------------------------------------
(* No report is lost from total_reports while there is no maintenance.        *)

\* What a request knows of the number of reports.
TotalKnown(q) ==
  /\ pc[q] = "idle" => todo[q] = <<>>
  /\ pc[q] = "create" => obj[q].row.total = 0
  /\ pc[q] \in {"reports", "insert", "link", "touch", "save"} =>
       obj[q].row.total = crackers[obj[q].id].total

TotalsOK == faults = 0 =>
  /\ \A q \in Request : TotalKnown(q)
  /\ IsFiniteSet(Counted) /\ IsFiniteSet(ToCount)
  /\ Cardinality(Counted) + Cardinality(ToCount) = accepted

\* As many pairs as elements.
LEMMA PairsOf ==
  ASSUME NEW q, NEW S, IsFiniteSet(S)
  PROVE  IsFiniteSet({q} \X S) /\ Cardinality({q} \X S) = Cardinality(S)
  <1> DEFINE f == [s \in S |-> <<q, s>>]
  <1>1. f \in Bijection(S, {q} \X S)
    <2>1. f \in [S -> {q} \X S]
      OBVIOUS
    <2>2. \A s, t \in S : f[s] = f[t] => s = t
      OBVIOUS
    <2>3. \A p \in {q} \X S : \E s \in S : f[s] = p
      OBVIOUS
    <2> HIDE DEF f
    <2>4. QED
      BY <2>1, <2>2, <2>3 DEF Bijection, Injection, Surjection, IsInjective
  <1>2. ExistsBijection(S, {q} \X S)
    BY <1>1 DEF ExistsBijection
  <1>3. QED
    BY <1>2, FS_Bijection

\* The reported hosts of a list are its legal head and those of its tail.
LEMMA ReportedTail ==
  ASSUME NEW hosts \in Seq(Host \cup {BadHost}), Continues(hosts)
  PROVE  /\ IsFiniteSet(ReportedAt(Tail(hosts)))
         /\ Cardinality(ReportedAt(hosts)) = Cardinality(ReportedAt(Tail(hosts))) + 1
  <1> DEFINE rest == Tail(hosts)
             S == ReportedAt(rest)
             T == ReportedAt(hosts) \ {1}
             f == [i \in S |-> i + 1]
  <1>1. /\ Len(hosts) \in Nat \ {0} /\ rest \in Seq(Host \cup {BadHost})
        /\ hosts[1] # BadHost /\ Len(rest) = Len(hosts) - 1
        /\ \A i \in 1..Len(rest) : rest[i] = hosts[i + 1]
    BY DEF Continues
  <1>2. /\ \A i : i \in S <=> i \in 1..Len(rest) /\ \A k \in 1..i : rest[k] # BadHost
        /\ \A i : i \in T <=> i \in 2..Len(hosts) /\ \A k \in 1..i : hosts[k] # BadHost
    BY <1>1 DEF ReportedAt
  <1>3. 1 \in ReportedAt(hosts)
    BY <1>1 DEF ReportedAt
  <1>4. IsFiniteSet(S) /\ IsFiniteSet(ReportedAt(hosts))
    BY <1>1, ReportedType
  <1> HIDE DEF rest, S, T
  <1>5. \A i \in S : i \in Nat /\ i + 1 \in T
    <2>1. SUFFICES ASSUME NEW i \in S PROVE i \in Nat /\ i + 1 \in T
      OBVIOUS
    <2>2. i \in 1..Len(rest) /\ \A k \in 1..i : rest[k] # BadHost
      BY <1>2
    <2>3. ASSUME NEW k \in 1..(i + 1) PROVE hosts[k] # BadHost
      <3>1. CASE k = 1
        BY <1>1, <3>1
      <3>2. CASE k # 1
        <4>1. k - 1 \in 1..i /\ k - 1 \in 1..Len(rest) /\ (k - 1) + 1 = k
          BY <1>1, <2>2, <3>2
        <4>2. hosts[k] = rest[k - 1]
          BY <1>1, <4>1
        <4>3. QED
          BY <2>2, <4>1, <4>2
      <3>3. QED
        BY <3>1, <3>2
    <2>4. QED
      BY <1>1, <1>2, <2>2, <2>3
  <1>6. \A j \in T : j - 1 \in S /\ (j - 1) + 1 = j
    <2>1. SUFFICES ASSUME NEW j \in T PROVE j - 1 \in S /\ (j - 1) + 1 = j
      OBVIOUS
    <2>2. j \in 2..Len(hosts) /\ \A k \in 1..j : hosts[k] # BadHost
      BY <1>2
    <2>3. ASSUME NEW k \in 1..(j - 1) PROVE rest[k] # BadHost
      <3>1. k \in 1..Len(rest) /\ k + 1 \in 1..j
        BY <1>1, <2>2
      <3>2. QED
        BY <1>1, <2>2, <3>1
    <2>4. QED
      BY <1>1, <1>2, <2>2, <2>3
  <1>7. f \in Bijection(S, T)
    <2>1. f \in [S -> T]
      BY <1>5
    <2>2. \A i, k \in S : f[i] = f[k] => i = k
      BY <1>5
    <2>3. \A j \in T : \E i \in S : f[i] = j
      BY <1>6
    <2> HIDE DEF f
    <2>4. QED
      BY <2>1, <2>2, <2>3 DEF Bijection, Injection, Surjection, IsInjective
  <1>8. Cardinality(T) = Cardinality(S)
    <2>1. ExistsBijection(S, T)
      BY <1>7 DEF ExistsBijection
    <2>2. QED
      BY <1>4, <2>1, FS_Bijection
  <1>9. Cardinality(T) = Cardinality(ReportedAt(hosts)) - 1
    BY <1>3, <1>4, FS_RemoveElement DEF T
  <1>10. Cardinality(ReportedAt(hosts)) \in Nat
    BY <1>4, FS_CardinalityType
  <1>11. QED
    BY <1>4, <1>8, <1>9, <1>10 DEF S, rest

\* One request changes what is to be counted by what it changes of its own.
LEMMA ToCountChanges ==
  ASSUME NEW q \in Request, IsFiniteSet(ToCount),
         \A p \in Request \ {q} : Uncounted(p)' = Uncounted(p),
         IsFiniteSet(ReportedAt(Uncounted(q))), IsFiniteSet(ReportedAt(Uncounted(q)'))
  PROVE  /\ IsFiniteSet(ToCount')
         /\ Cardinality(ToCount') = Cardinality(ToCount) - Cardinality(ReportedAt(Uncounted(q)))
                                    + Cardinality(ReportedAt(Uncounted(q)'))
  <1> DEFINE Rest == UNION {{p} \X ReportedAt(Uncounted(p)) : p \in Request \ {q}}
             A == {q} \X ReportedAt(Uncounted(q))
             B == {q} \X ReportedAt(Uncounted(q)')
  <1>1. ToCount = Rest \cup A
    BY DEF ToCount
  <1>2. ToCount' = Rest \cup B
    <2>1. \A p \in Request \ {q} : ReportedAt(Uncounted(p))' = ReportedAt(Uncounted(p))
      BY DEF ReportedAt
    <2>2. ReportedAt(Uncounted(q))' = ReportedAt(Uncounted(q)')
      BY DEF ReportedAt
    <2>3. QED
      BY <2>1, <2>2 DEF ToCount
  <1>3. Rest \cap A = {} /\ Rest \cap B = {}
    OBVIOUS
  <1>4. /\ IsFiniteSet(A) /\ Cardinality(A) = Cardinality(ReportedAt(Uncounted(q)))
        /\ IsFiniteSet(B) /\ Cardinality(B) = Cardinality(ReportedAt(Uncounted(q)'))
    BY PairsOf
  <1> HIDE DEF Rest, A, B
  <1>5. IsFiniteSet(Rest)
    BY <1>1, FS_Subset
  <1>6. Cardinality(ToCount) = Cardinality(Rest) + Cardinality(A) - 0
    <2>1. Cardinality(Rest \cup A) = Cardinality(Rest) + Cardinality(A) - Cardinality(Rest \cap A)
      BY <1>4, <1>5, FS_Union
    <2>2. QED
      BY <1>1, <1>3, <2>1, FS_EmptySet
  <1>7. IsFiniteSet(ToCount') /\ Cardinality(ToCount') = Cardinality(Rest) + Cardinality(B) - 0
    <2>1. /\ IsFiniteSet(Rest \cup B)
          /\ Cardinality(Rest \cup B) = Cardinality(Rest) + Cardinality(B) - Cardinality(Rest \cap B)
      BY <1>4, <1>5, FS_Union
    <2>2. QED
      BY <1>2, <1>3, <2>1, FS_EmptySet
  <1>8. /\ Cardinality(Rest) \in Nat /\ Cardinality(A) \in Nat /\ Cardinality(B) \in Nat
    BY <1>4, <1>5, FS_CardinalityType
  <1>9. QED
    BY <1>4, <1>6, <1>7, <1>8

\* What another request knows stays true.
LEMMA TotalKept ==
  ASSUME MergeInv, NEW q \in Request, NEW u \in Request, u # q, TotalKnown(u),
         pc'[u] = pc[u], obj'[u] = obj[u], todo'[u] = todo[u],
         \/ UNCHANGED <<crackers, reports>>
         \/ InCritical(q) /\ \E c0 : Own(q, c0)
  PROVE  TotalKnown(u)'
  <1>1. CASE UNCHANGED <<crackers, reports>>
    BY <1>1 DEF TotalKnown
  <1>2. CASE pc[u] \notin {"reports", "insert", "link", "touch", "save"}
    BY <1>2 DEF TotalKnown
  <1>3. CASE /\ pc[u] \in {"reports", "insert", "link", "touch", "save"}
             /\ InCritical(q) /\ \E c0 : Own(q, c0)
    <2>1. PICK c0 : Own(q, c0)
      BY <1>3
    <2>2. PICK c : c = obj[u].id
      OBVIOUS
    <2>3. pc[u] \in RequestCritical \ {"find", "create"} /\ InCritical(u)
      BY <1>3 DEF InCritical, RequestCritical
    <2>4. obj[u] # NULL /\ c # NULL /\ obj[u].row.ip = HostOf(u)
      BY <2>2, <2>3 DEF MergeInv, IndInv, LocalsOK
    <2>5. c \in DOMAIN crackers
      BY <2>2, <2>3 DEF MergeInv, IndInv, StoreOK, ObjectsOK
    <2>6. c # c0
      BY <1>3, <2>1, <2>2, <2>3, <2>4, OwnIsOwn DEF Task
    <2>7. crackers'[c] = crackers[c]
      BY <2>1, <2>5, <2>6, ExactKept
    <2>8. obj[u].row.total = crackers[c].total
      BY <1>3, <2>2 DEF TotalKnown
    <2>9. QED
      BY <1>3, <2>2, <2>7, <2>8 DEF TotalKnown
  <1>4. QED
    BY <1>1, <1>2, <1>3

\* A request starts from the total it read, or from 0, and the row does not change before
\* the request saves it.
LEMMA TotalStep ==
  ASSUME MergeInv, NEW q \in Request, Accept(q) \/ RequestStep(q), TotalKnown(q)
  PROVE  TotalKnown(q)'
  <1>1. /\ q \in Task /\ DOMAIN pc = Task /\ DOMAIN obj = Task /\ DOMAIN todo = Request
        /\ q \in DOMAIN pc /\ q \in DOMAIN obj
    BY DEF MergeInv, IndInv, TypeOK, ControlOK, MemoryOK, Task
  <1>2. CASE Accept(q) \/ Lock(q) \/ SaveCracker(q)
    <2>1. pc'[q] \in {"lock", "find", "unlock"}
      BY <1>1, <1>2 DEF Accept, Lock, SaveCracker
    <2>2. QED
      BY <2>1 DEF TotalKnown
  <1>3. CASE FindCracker(q)
    <2>1. CASE pc'[q] = "reports" /\ \E c \in DOMAIN crackers : obj'[q] = [id |-> c, row |-> crackers[c]]
      <3>1. PICK c \in DOMAIN crackers : obj'[q] = [id |-> c, row |-> crackers[c]]
        BY <2>1
      <3>2. obj'[q].id = c /\ obj'[q].row = crackers[c]
        BY <3>1
      <3>3. UNCHANGED crackers
        BY <1>3 DEF FindCracker
      <3>4. QED
        BY <2>1, <3>2, <3>3 DEF TotalKnown
    <2>2. CASE /\ pc'[q] = "create"
               /\ obj'[q] = [id |-> NULL,
                             row |-> [ip |-> HostOf(q), first |-> sub[q].when,
                                      latest |-> sub[q].when, resil |-> 0,
                                      total |-> 0, current |-> 0]]
      <3>1. obj'[q].row.total = 0
        BY <2>2
      <3>2. QED
        BY <2>2, <3>1 DEF TotalKnown
    <2>3. QED
      BY <1>1, <1>3, <2>1, <2>2 DEF FindCracker
  <1>4. CASE CreateCracker(q)
    <2> DEFINE row == obj[q].row
               old == obj[q]
    <2>1. /\ pc[q] = "create" /\ pc'[q] = "reports" /\ obj'[q] = [old EXCEPT !.id = nextCracker]
          /\ crackers' = InsertRow(crackers, nextCracker, row)
      BY <1>1, <1>4 DEF CreateCracker
    <2>2. old \in CrackerObj /\ row.total = 0
      BY <2>1, RequestHolds DEF MergeInv, IndInv, RequestCritical, TotalKnown
    <2>3. obj'[q].id = nextCracker /\ obj'[q].row = row
      BY <2>1, <2>2 DEF CrackerObj
    <2> HIDE DEF row, old
    <2>4. crackers'[nextCracker] = row
      BY <2>1 DEF InsertRow
    <2>5. QED
      BY <2>1, <2>3, <2>4 DEF TotalKnown
  <1>5. CASE FindReports(q)
    <2>1. /\ pc[q] = "reports" /\ UNCHANGED crackers
          /\ pc'[q] \in {"insert", "save", "touch"}
          /\ obj'[q] = obj[q] \/ obj'[q] = [obj[q] EXCEPT !.row.current = @ + 1]
      BY <1>1, <1>5 DEF FindReports
    <2>2. obj[q] \in CrackerObj /\ obj[q].row \in CrackerRow
      BY <2>1, RequestHolds DEF MergeInv, IndInv, RequestCritical
    <2>3. obj'[q].id = obj[q].id /\ obj'[q].row.total = obj[q].row.total
      BY <2>1, <2>2 DEF CrackerObj, CrackerRow
    <2>4. obj[q].row.total = crackers[obj[q].id].total
      BY <2>1 DEF TotalKnown
    <2>5. QED
      BY <2>1, <2>3, <2>4 DEF TotalKnown
  <1>6. CASE InsertReport(q) \/ LinkReport(q) \/ TouchReport(q)
    <2>1. /\ pc[q] \in {"insert", "link", "touch"} /\ UNCHANGED <<crackers, obj>>
          /\ pc'[q] \in {"link", "save"}
      BY <1>1, <1>6 DEF InsertReport, LinkReport, TouchReport
    <2>2. obj[q].row.total = crackers[obj[q].id].total
      BY <2>1 DEF TotalKnown
    <2>3. QED
      BY <2>1, <2>2 DEF TotalKnown
  <1>7. CASE UnlockHost(q)
    <2>1. pc'[q] = "lock" \/ (pc'[q] = "idle" /\ todo'[q] = <<>>)
      BY <1>1, <1>7 DEF UnlockHost, Finish
    <2>2. QED
      BY <2>1 DEF TotalKnown
  <1>8. QED
    BY <1>2, <1>3, <1>4, <1>5, <1>6, <1>7 DEF RequestStep

\* The pairs of a table, with those of one row apart.
LEMMA PairsSplit ==
  ASSUME NEW D, NEW d, NEW table
  PROVE  UNION {{c} \X (1..table[c].total) : c \in D \cup {d}} =
           (UNION {{c} \X (1..table[c].total) : c \in D}) \cup ({d} \X (1..table[d].total))
  OBVIOUS

\* Only cracker.save() of a request counts, and it counts one report.
LEMMA CountedStep ==
  ASSUME MergeInv, NEW q \in Request, Accept(q) \/ RequestStep(q), TotalKnown(q), IsFiniteSet(Counted)
  PROVE  /\ IsFiniteSet(Counted')
         /\ SaveCracker(q) => Cardinality(Counted') = Cardinality(Counted) + 1
         /\ ~SaveCracker(q) => Cardinality(Counted') = Cardinality(Counted)
  <1>1. CASE SaveCracker(q)
    <2>0. PICK d : d = obj[q].id
      OBVIOUS
    <2> DEFINE row == [obj[q].row EXCEPT !.total = @ + 1, !.latest = sub[q].when,
                         !.resil = sub[q].when - obj[q].row.first]
    <2>1. /\ pc[q] = "save" /\ crackers' = UpdateRow(crackers, d, row)
          /\ obj[q].row \in CrackerRow /\ d \in DOMAIN crackers
      BY <1>1, <2>0, RequestHolds DEF SaveCracker, RequestCritical, MergeInv, IndInv, StoreOK, ObjectsOK
    <2>2. obj[q].row.total = crackers[d].total /\ crackers[d].total \in Nat
      BY <2>0, <2>1 DEF TotalKnown, CrackerRow
    <2>3. row.total = crackers[d].total + 1
      BY <2>1, <2>2 DEF CrackerRow
    <2>4. PICK n \in Nat : n = crackers[d].total
      BY <2>2
    <2> HIDE DEF row
    <2>5. /\ DOMAIN crackers' = DOMAIN crackers /\ crackers'[d].total = n + 1
          /\ \A c \in DOMAIN crackers \ {d} : crackers'[c] = crackers[c]
      BY <2>1, <2>3, <2>4 DEF UpdateRow
    <2>6. 1..(n + 1) = (1..n) \cup {n + 1}
      BY <2>4
    <2>7. Counted' = Counted \cup {<<d, n + 1>>}
      <3> DEFINE Rest == UNION {{c} \X (1..crackers[c].total) : c \in DOMAIN crackers \ {d}}
      <3>1. DOMAIN crackers = (DOMAIN crackers \ {d}) \cup {d}
        BY <2>1
      <3>2. Counted = Rest \cup ({d} \X (1..n))
        <4>1. UNION {{c} \X (1..crackers[c].total) : c \in (DOMAIN crackers \ {d}) \cup {d}}
                = Rest \cup ({d} \X (1..crackers[d].total))
          BY PairsSplit
        <4>2. QED
          BY <2>4, <3>1, <4>1 DEF Counted
      <3>3. Counted' = Rest \cup ({d} \X (1..(n + 1)))
        <4>1. UNION {{c} \X (1..crackers'[c].total) : c \in (DOMAIN crackers \ {d}) \cup {d}}
                = (UNION {{c} \X (1..crackers'[c].total) : c \in DOMAIN crackers \ {d}})
                  \cup ({d} \X (1..crackers'[d].total))
          BY PairsSplit
        <4>2. UNION {{c} \X (1..crackers'[c].total) : c \in DOMAIN crackers \ {d}} = Rest
          BY <2>5
        <4>3. QED
          BY <2>5, <3>1, <4>1, <4>2 DEF Counted
      <3>4. {d} \X (1..(n + 1)) = ({d} \X (1..n)) \cup {<<d, n + 1>>}
        BY <2>6
      <3> HIDE DEF Rest
      <3>5. QED
        BY <3>2, <3>3, <3>4
    <2>8. <<d, n + 1>> \notin Counted
      <3>1. ASSUME <<d, n + 1>> \in Counted PROVE FALSE
        <4>1. PICK c \in DOMAIN crackers : <<d, n + 1>> \in {c} \X (1..crackers[c].total)
          BY <3>1 DEF Counted
        <4>2. n + 1 \in 1..n
          BY <2>4, <4>1
        <4>3. QED
          BY <2>4, <4>2
      <3>2. QED
        BY <3>1
    <2>9. /\ IsFiniteSet(Counted \cup {<<d, n + 1>>})
          /\ Cardinality(Counted \cup {<<d, n + 1>>}) = Cardinality(Counted) + 1
      BY <2>8, FS_AddElement
    <2>10. QED
      BY <1>1, <2>7, <2>9
  <1>2. CASE CreateCracker(q)
    <2> DEFINE row == obj[q].row
    <2>1. /\ pc[q] = "create" /\ crackers' = InsertRow(crackers, nextCracker, row)
          /\ nextCracker \notin DOMAIN crackers
      BY <1>2 DEF CreateCracker, MergeInv, IndInv, TypeOK, TablesOK, Id
    <2>2. row.total = 0
      BY <2>1 DEF TotalKnown
    <2> HIDE DEF row
    <2>3. /\ DOMAIN crackers' = DOMAIN crackers \cup {nextCracker}
          /\ crackers'[nextCracker].total = 0
          /\ \A c \in DOMAIN crackers : crackers'[c] = crackers[c]
      BY <2>1, <2>2 DEF InsertRow
    <2>4. 1..crackers'[nextCracker].total = {}
      BY <2>3
    <2>5. Counted' = Counted
      <3>1. UNION {{c} \X (1..crackers'[c].total) : c \in DOMAIN crackers \cup {nextCracker}}
              = (UNION {{c} \X (1..crackers'[c].total) : c \in DOMAIN crackers})
                \cup ({nextCracker} \X (1..crackers'[nextCracker].total))
        BY PairsSplit
      <3>2. UNION {{c} \X (1..crackers'[c].total) : c \in DOMAIN crackers} = Counted
        BY <2>3 DEF Counted
      <3>3. QED
        BY <2>3, <2>4, <3>1, <3>2 DEF Counted
    <2>6. ~SaveCracker(q)
      BY <2>1 DEF SaveCracker
    <2>7. QED
      BY <2>5, <2>6
  <1>3. CASE UNCHANGED crackers /\ ~SaveCracker(q)
    BY <1>3 DEF Counted
  <1>4. QED
    BY <1>1, <1>2, <1>3 DEF Accept, RequestStep, Lock, FindCracker, FindReports, InsertReport,
                            LinkReport, TouchReport, UnlockHost

\* A list whose next address is illegal, or that is at its end, has no reported host.
LEMMA NoneReported ==
  ASSUME NEW hosts \in Seq(Host \cup {BadHost}), ~Continues(hosts)
  PROVE  ReportedAt(hosts) = {}
  <1>1. CASE hosts = <<>>
    BY <1>1 DEF ReportedAt
  <1>2. CASE hosts # <<>>
    <2>1. hosts[1] = BadHost /\ Len(hosts) \in Nat /\ DOMAIN hosts = 1..Len(hosts)
      BY <1>2 DEF Continues
    <2>2. \A i \in DOMAIN hosts : 1 \in 1..i
      BY <2>1
    <2>3. QED
      BY <2>1, <2>2 DEF ReportedAt
  <1>3. QED
    BY <1>1, <1>2

\* What is to be counted grows by the hosts of a report that arrives, and shrinks by one
\* host when one is counted.
LEMMA ToCountStep ==
  ASSUME MergeInv, NEW q \in Request, Accept(q) \/ RequestStep(q), TotalKnown(q), IsFiniteSet(ToCount)
  PROVE  /\ IsFiniteSet(ToCount')
         /\ SaveCracker(q) => /\ accepted' = accepted
                              /\ Cardinality(ToCount') = Cardinality(ToCount) - 1
         /\ ~SaveCracker(q) => accepted' - accepted = Cardinality(ToCount') - Cardinality(ToCount)
  <1>1. \A p \in Request \ {q} : Uncounted(p)' = Uncounted(p)
    <2>1. /\ \A u \in Task \ {q} : pc'[u] = pc[u]
          /\ \A u \in Request \ {q} : todo'[u] = todo[u]
      BY RequestAlone DEF MergeInv, IndInv
    <2>2. QED
      BY <2>1 DEF Uncounted, Task
  <1>2. /\ q \in Task /\ DOMAIN pc = Task /\ DOMAIN todo = Request /\ q \in DOMAIN pc
        /\ todo[q] \in Seq(Host \cup {BadHost}) /\ accepted \in Nat
        /\ pc[q] # "idle" => Continues(todo[q])
    BY DEF MergeInv, IndInv, TypeOK, ControlOK, MemoryOK, Task, LocalsOK
  <1>3. Cardinality(ToCount) \in Nat
    BY FS_CardinalityType
  <1>4. CASE Accept(q)
    <2>1. PICK hosts \in HostLists :
            /\ accepted' = accepted + Reported(hosts)
            /\ todo' = [todo EXCEPT ![q] = hosts]
      BY <1>4 DEF Accept
    <2>2. /\ pc[q] = "idle" /\ pc'[q] = "lock" /\ todo[q] = <<>> /\ todo'[q] = hosts
      BY <1>2, <1>4, <2>1 DEF Accept, TotalKnown
    <2>3. hosts \in Seq(Host \cup {BadHost})
      BY HostAssumption
    <2>4. Uncounted(q) = <<>> /\ Uncounted(q)' = hosts
      BY <2>2 DEF Uncounted
    <2>5. ReportedAt(Uncounted(q)) = {}
      BY <1>2, <2>2, <2>4, NoneReported DEF Continues
    <2>6. IsFiniteSet(ReportedAt(Uncounted(q))) /\ Cardinality(ReportedAt(Uncounted(q))) = 0
      BY <2>5, FS_EmptySet
    <2>7. /\ IsFiniteSet(ReportedAt(Uncounted(q)')) /\ Reported(hosts) \in Nat
          /\ Cardinality(ReportedAt(Uncounted(q)')) = Reported(hosts)
      BY <2>3, <2>4, ReportedType DEF Reported
    <2>8. /\ IsFiniteSet(ToCount')
          /\ Cardinality(ToCount') = Cardinality(ToCount) - Cardinality(ReportedAt(Uncounted(q)))
                                     + Cardinality(ReportedAt(Uncounted(q)'))
      BY <1>1, <2>6, <2>7, ToCountChanges
    <2>9. ~SaveCracker(q)
      BY <2>2 DEF SaveCracker
    <2>10. QED
      BY <1>2, <1>3, <2>1, <2>6, <2>7, <2>8, <2>9
  <1>5. CASE SaveCracker(q)
    <2>1. pc[q] = "save" /\ pc'[q] = "unlock" /\ todo' = todo /\ accepted' = accepted
      BY <1>2, <1>5 DEF SaveCracker
    <2>2. Uncounted(q) = todo[q] /\ Uncounted(q)' = Tail(todo[q])
      BY <2>1 DEF Uncounted
    <2>3. /\ IsFiniteSet(ReportedAt(Tail(todo[q])))
          /\ Cardinality(ReportedAt(todo[q])) = Cardinality(ReportedAt(Tail(todo[q]))) + 1
      BY <1>2, <2>1, ReportedTail
    <2>4. IsFiniteSet(ReportedAt(todo[q]))
      BY <1>2, ReportedType
    <2>5. /\ IsFiniteSet(ToCount')
          /\ Cardinality(ToCount') = Cardinality(ToCount) - Cardinality(ReportedAt(todo[q]))
                                     + Cardinality(ReportedAt(Tail(todo[q])))
      BY <1>1, <2>2, <2>3, <2>4, ToCountChanges
    <2>6. Cardinality(ReportedAt(Tail(todo[q]))) \in Nat
      BY <2>3, FS_CardinalityType
    <2>7. QED
      BY <1>3, <1>5, <2>1, <2>3, <2>5, <2>6
  <1>6. ASSUME accepted' = accepted, ~SaveCracker(q),
               ReportedAt(Uncounted(q)') = ReportedAt(Uncounted(q)), IsFiniteSet(ReportedAt(Uncounted(q)))
        PROVE  /\ IsFiniteSet(ToCount')
               /\ accepted' - accepted = Cardinality(ToCount') - Cardinality(ToCount)
    <2>1. /\ IsFiniteSet(ToCount')
          /\ Cardinality(ToCount') = Cardinality(ToCount) - Cardinality(ReportedAt(Uncounted(q)))
                                     + Cardinality(ReportedAt(Uncounted(q)'))
      BY <1>1, <1>6, ToCountChanges
    <2>2. Cardinality(ReportedAt(Uncounted(q))) \in Nat
      BY <1>6, FS_CardinalityType
    <2>3. QED
      BY <1>2, <1>3, <1>6, <2>1, <2>2
  <1>7. CASE UnlockHost(q)
    <2>1. /\ pc[q] = "unlock" /\ accepted' = accepted
          /\ \/ Continues(Tail(todo[q])) /\ pc'[q] = "lock" /\ todo'[q] = Tail(todo[q])
             \/ ~Continues(Tail(todo[q])) /\ pc'[q] = "idle" /\ todo'[q] = <<>>
      BY <1>2, <1>7 DEF UnlockHost, Finish
    <2>2. Tail(todo[q]) \in Seq(Host \cup {BadHost})
      BY <1>2, <2>1, HeadType
    <2>3. Uncounted(q) = Tail(todo[q]) /\ Uncounted(q)' = todo'[q]
      BY <2>1 DEF Uncounted
    <2>4. ReportedAt(todo'[q]) = ReportedAt(Tail(todo[q]))
      <3>1. CASE Continues(Tail(todo[q]))
        BY <2>1, <3>1
      <3>2. CASE ~Continues(Tail(todo[q]))
        <4>1. todo'[q] = <<>>
          BY <2>1, <3>2
        <4>2. ReportedAt(todo'[q]) = {}
          BY <4>1 DEF ReportedAt
        <4>3. QED
          BY <2>2, <3>2, <4>2, NoneReported
      <3>3. QED
        BY <3>1, <3>2
    <2>5. IsFiniteSet(ReportedAt(Tail(todo[q])))
      BY <2>2, ReportedType
    <2>6. ~SaveCracker(q)
      BY <2>1 DEF SaveCracker
    <2>7. QED
      BY <1>6, <2>1, <2>3, <2>4, <2>5, <2>6
  <1>8. CASE \/ Lock(q) \/ FindCracker(q) \/ CreateCracker(q) \/ FindReports(q)
             \/ InsertReport(q) \/ LinkReport(q) \/ TouchReport(q)
    <2>1. /\ pc[q] \notin {"unlock", "save"} /\ pc'[q] # "unlock"
          /\ todo' = todo /\ accepted' = accepted
      BY <1>2, <1>8 DEF Lock, FindCracker, CreateCracker, FindReports, InsertReport, LinkReport, TouchReport
    <2>2. Uncounted(q) = todo[q] /\ Uncounted(q)' = todo[q]
      BY <2>1 DEF Uncounted
    <2>3. IsFiniteSet(ReportedAt(todo[q]))
      BY <1>2, ReportedType
    <2>4. ~SaveCracker(q)
      BY <2>1 DEF SaveCracker
    <2>5. QED
      BY <1>6, <2>1, <2>2, <2>3, <2>4
  <1>9. QED
    BY <1>4, <1>5, <1>7, <1>8 DEF RequestStep

LEMMA TotalsInit == Init => TotalsOK
  <1> SUFFICES ASSUME Init PROVE TotalsOK
    OBVIOUS
  <1>1. /\ crackers = <<>> /\ accepted = 0
        /\ \A q \in Request : pc[q] = "idle" /\ todo[q] = <<>>
    BY DEF Init, Task
  <1>2. \A q \in Request : TotalKnown(q)
    BY <1>1 DEF TotalKnown
  <1>3. Counted = {} /\ ToCount = {}
    <2>1. DOMAIN crackers = {}
      BY <1>1
    <2>2. \A q \in Request : ReportedAt(Uncounted(q)) = {}
      <3>1. \A q \in Request : Uncounted(q) = <<>>
        BY <1>1 DEF Uncounted
      <3>2. ReportedAt(<<>>) = {}
        BY DEF ReportedAt
      <3>3. QED
        BY <3>1, <3>2
    <2>3. QED
      BY <2>1, <2>2 DEF Counted, ToCount
  <1>4. QED
    BY <1>1, <1>2, <1>3, FS_EmptySet DEF TotalsOK

LEMMA TotalsStep ==
  ASSUME Job = {}, MergeInv, TotalsOK, [Next]_vars
  PROVE  TotalsOK'
  <1>1. faults \in Nat /\ accepted \in Nat
    BY DEF MergeInv, IndInv, TypeOK, ControlOK
  <1>2. CASE Restart \/ (\E q \in Request : FailRequest(q))
    <2>1. faults' = faults + 1
      BY <1>2 DEF Restart, FailRequest
    <2>2. faults' # 0
      BY <1>1, <2>1
    <2>3. QED
      BY <2>2 DEF TotalsOK
  <1>3. ASSUME NEW q \in Request, Accept(q) \/ RequestStep(q), faults = 0
        PROVE  TotalsOK'
    <2>1. /\ \A u \in Request : TotalKnown(u)
          /\ IsFiniteSet(Counted) /\ IsFiniteSet(ToCount)
          /\ Cardinality(Counted) + Cardinality(ToCount) = accepted
      BY <1>3 DEF TotalsOK
    <2>2. UNCHANGED <<crackers, reports>> \/ (InCritical(q) /\ \E c0 : Own(q, c0))
      BY <1>3, RequestOwn
    <2>3. /\ \A u \in Task \ {q} : pc'[u] = pc[u] /\ obj'[u] = obj[u]
          /\ \A u \in Request \ {q} : todo'[u] = todo[u]
      BY <1>3, RequestAlone DEF MergeInv, IndInv
    <2>4. \A u \in Request \ {q} : TotalKnown(u)'
      BY <2>1, <2>2, <2>3, TotalKept DEF Task
    <2>5. TotalKnown(q)'
      BY <1>3, <2>1, TotalStep
    <2>6. /\ IsFiniteSet(Counted')
          /\ SaveCracker(q) => Cardinality(Counted') = Cardinality(Counted) + 1
          /\ ~SaveCracker(q) => Cardinality(Counted') = Cardinality(Counted)
      BY <1>3, <2>1, CountedStep
    <2>7. /\ IsFiniteSet(ToCount')
          /\ SaveCracker(q) => /\ accepted' = accepted
                               /\ Cardinality(ToCount') = Cardinality(ToCount) - 1
          /\ ~SaveCracker(q) => accepted' - accepted = Cardinality(ToCount') - Cardinality(ToCount)
      BY <1>3, <2>1, ToCountStep
    <2>8. /\ Cardinality(Counted) \in Nat /\ Cardinality(ToCount) \in Nat
          /\ Cardinality(Counted') \in Nat /\ Cardinality(ToCount') \in Nat
      BY <2>1, <2>6, <2>7, FS_CardinalityType
    <2>9. accepted' \in Nat
      BY MergeStep DEF MergeInv, IndInv, TypeOK, ControlOK
    <2>10. Cardinality(Counted') + Cardinality(ToCount') = accepted'
      BY <1>1, <2>1, <2>6, <2>7, <2>8, <2>9
    <2>11. QED
      BY <2>4, <2>5, <2>6, <2>7, <2>10 DEF TotalsOK
  <1>4. ASSUME NEW q \in Request, Accept(q) \/ RequestStep(q), faults # 0
        PROVE  TotalsOK'
    <2>1. UNCHANGED faults
      BY <1>4 DEF Accept, RequestStep, Lock, FindCracker, CreateCracker, FindReports, InsertReport,
                  LinkReport, TouchReport, SaveCracker, UnlockHost
    <2>2. QED
      BY <1>4, <2>1 DEF TotalsOK
  <1>5. CASE UNCHANGED <<crackers, pc, todo, obj, accepted, faults>>
    <2>1. \A q : (TotalKnown(q)' <=> TotalKnown(q)) /\ Uncounted(q)' = Uncounted(q)
      BY <1>5 DEF TotalKnown, Uncounted
    <2>2. Counted' = Counted
      BY <1>5 DEF Counted
    <2>3. ToCount' = ToCount
      BY <2>1 DEF ToCount, ReportedAt
    <2>4. QED
      BY <1>5, <2>1, <2>2, <2>3 DEF TotalsOK
  <1>6. CASE Tick
    BY <1>5, <1>6 DEF Tick
  <1>7. CASE UNCHANGED vars
    BY <1>5, <1>7 DEF vars
  <1>8. QED
    BY <1>2, <1>3, <1>4, <1>6, <1>7 DEF Next, Running

\* While there is no maintenance and nothing failed, total_reports counts every reported
\* host exactly once, however many requests, for one host or many, run at a time.  (With
\* maintenance the statement is false: cracker.save() of perform_maintenance writes an old
\* total back, and cracker.delete() takes totals away.)
THEOREM NoReportIsLost ==
  ASSUME Job = {}
  PROVE  Spec => []EveryReportCounted
  <1>1. TotalsOK => EveryReportCounted
    BY DEF TotalsOK, EveryReportCounted
  <1>2. MergeInv /\ TotalsOK /\ [Next]_vars => TotalsOK'
    BY TotalsStep
  <1>3. Spec => [](MergeInv /\ TotalsOK)
    BY <1>2, TotalsInit, MergeInvariant, PTL DEF Spec
  <1>4. QED
    BY <1>1, <1>3, PTL
================================================================================
