--------------------------- MODULE ReportStoreProofs ---------------------------
(***************************************************************************)
(* Theorems about ReportStore, for any number of hosts, clients, requests  *)
(* and jobs and any bounds: its types, the host lock, and the consistency  *)
(* of the two tables, failures and restarts included.                      *)
(***************************************************************************)
EXTENDS ReportStore, FiniteSetTheorems, TLAPS

USE TaskAssumption, NullAssumption
USE DEF env, tables, crackerTable, reportTable, request, pass, locals, Goto

--------------------------------------------------------------------------------
(* What a task holds.                                                         *)

\* Reported counts: finitely many hosts of a list are reported.
LEMMA ReportedType ==
  ASSUME NEW hosts \in Seq(Host \cup {BadHost})
  PROVE  IsFiniteSet(ReportedAt(hosts)) /\ Reported(hosts) \in Nat
  <1>1. Len(hosts) \in Nat /\ DOMAIN hosts = 1..Len(hosts)
    OBVIOUS
  <1>2. IsFiniteSet(1..Len(hosts))
    BY <1>1, FS_Interval
  <1>3. IsFiniteSet(ReportedAt(hosts))
    BY <1>1, <1>2, FS_Subset DEF ReportedAt
  <1>4. QED
    BY <1>3, FS_CardinalityType DEF Reported

\* The host whose turn it is passed is_valid_ip_address.
LEMMA HeadType ==
  ASSUME NEW hosts \in Seq(Host \cup {BadHost}), Continues(hosts)
  PROVE  Head(hosts) \in Host /\ Tail(hosts) \in Seq(Host \cup {BadHost})
  BY DEF Continues

\* A request that is served has a list, a stamp and, past the SELECT, a cracker.
LEMMA RequestHolds ==
  ASSUME TypeOK, LocalsOK, NEW q \in Request, pc[q] # "idle"
  PROVE  /\ HostOf(q) \in Host
         /\ sub[q] \in Stamp
         /\ todo[q] \in Seq(Host \cup {BadHost})
         /\ pc[q] \in RequestCritical \ {"find"} =>
              obj[q] \in CrackerObj /\ obj[q].row \in CrackerRow
                                    /\ obj[q].row.ip = HostOf(q)
         /\ pc[q] \in RequestCritical \ {"find", "create"} => obj[q].id \in Id
         /\ pc[q] \in {"link", "touch"} => rpt[q] \in ReportObj
  <1>1. todo[q] \in Seq(Host \cup {BadHost}) /\ Continues(todo[q]) /\ sub[q] \in Stamp
    BY DEF TypeOK, MemoryOK, LocalsOK
  <1>2. HostOf(q) \in Host
    BY <1>1, HeadType DEF HostOf
  <1>3. obj[q] \in CrackerObj \cup {NULL} /\ rpt[q] \in ReportObj \cup {NULL}
    BY DEF TypeOK, MemoryOK, Task
  <1>4. QED
    BY <1>1, <1>2, <1>3 DEF LocalsOK, CrackerObj

\* A job past FetchCracker has a cracker, and until the DELETE a report.
LEMMA JobHolds ==
  ASSUME TypeOK, LocalsOK, NEW j \in Job
  PROVE  /\ pc[j] \in JobCritical \cup {"lock"} =>
              /\ obj[j] \in CrackerObj /\ obj[j].id \in Id
              /\ obj[j].row \in CrackerRow /\ HostOf(j) \in Host
         /\ pc[j] \in {"lock", "clear", "delete"} =>
              rpt[j] \in ReportObj /\ rpt[j].id \in Id
  <1>1. obj[j] \in CrackerObj \cup {NULL} /\ rpt[j] \in ReportObj \cup {NULL}
    BY DEF TypeOK, MemoryOK, Task
  <1>2. HostOf(j) = obj[j].row.ip
    BY DEF HostOf
  <1>3. QED
    BY <1>1, <1>2 DEF LocalsOK, CrackerObj, CrackerRow, ReportObj

\* The number of reporters of a cracker is a number: there are finitely many
\* clients.
LEMMA CountType ==
  ASSUME TypeOK, NEW c
  PROVE  /\ IsFiniteSet({reports[r].ip : r \in ReportsOf(c)})
         /\ Cardinality({reports[r].ip : r \in ReportsOf(c)}) \in Nat
  <1>1. {reports[r].ip : r \in ReportsOf(c)} \subseteq Client
    BY DEF TypeOK, TablesOK, ReportsOf, ReportRow
  <1>2. QED
    BY <1>1, ClientAssumption, FS_Subset, FS_CardinalityType

--------------------------------------------------------------------------------
(* Types, and what a task holds at each label.                                *)

\* Actions that leave the tables alone keep TablesOK.
LEMMA SameTables ==
  ASSUME TypeOK, UNCHANGED tables
  PROVE  TablesOK'
  BY DEF TypeOK, TablesOK

\* handle_report_from_client keeps the types, and what each label needs is there.
LEMMA RequestTypeStep ==
  ASSUME TypeOK, LocalsOK, NEW q \in Request, Accept(q) \/ RequestStep(q) \/ FailRequest(q)
  PROVE  TypeOK' /\ LocalsOK'
  <1> USE DEF Task
  <1>1. CASE Accept(q)
    <2>1. PICK hosts \in HostLists, client \in Client, delay \in 0..MaxDelay :
            /\ Continues(hosts)
            /\ accepted' = accepted + Reported(hosts)
            /\ todo' = [todo EXCEPT ![q] = hosts]
            /\ sub' = [sub EXCEPT ![q] = [client |-> client, when |-> now - delay]]
      BY <1>1 DEF Accept
    <2>2. hosts \in Seq(Host \cup {BadHost}) /\ Reported(hosts) \in Nat
      BY HostAssumption, ReportedType
    <2>3. [client |-> client, when |-> now - delay] \in Stamp
      BY TimeAssumption DEF TypeOK, ControlOK, Stamp
    <2>4. TablesOK'
      BY <1>1, SameTables DEF Accept
    <2>5. ControlOK'
      BY <1>1, <2>1, <2>2 DEF Accept, TypeOK, ControlOK, RequestLabel
    <2>6. MemoryOK'
      BY <1>1, <2>1, <2>2, <2>3 DEF Accept, TypeOK, MemoryOK
    <2>7. LocalsOK'
      BY <1>1, <2>1, <2>2, <2>3
      DEF Accept, TypeOK, ControlOK, MemoryOK, LocalsOK, RequestCritical, HostOf
    <2>8. QED
      BY <2>4, <2>5, <2>6, <2>7 DEF TypeOK
  <1>2. CASE Lock(q)
    <2>1. HostOf(q) \in Host
      BY <1>2, RequestHolds DEF Lock
    <2>2. TablesOK'
      BY <1>2, SameTables DEF Lock
    <2>3. ControlOK'
      BY <1>2, <2>1 DEF Lock, TypeOK, ControlOK, RequestLabel, RequestCritical
    <2>4. MemoryOK'
      BY <1>2 DEF Lock, TypeOK, MemoryOK
    <2>5. LocalsOK'
      BY <1>2 DEF Lock, TypeOK, ControlOK, LocalsOK, RequestCritical, HostOf
    <2>6. QED
      BY <2>2, <2>3, <2>4, <2>5 DEF TypeOK
  <1>3. CASE FindCracker(q)
    <2>1. PICK o \in CrackerObj :
            /\ obj' = [obj EXCEPT ![q] = o]
            /\ o.row.ip = HostOf(q)
            /\ \/ pc' = [pc EXCEPT ![q] = "reports"] /\ o.id # NULL
               \/ pc' = [pc EXCEPT ![q] = "create"]
      <3>1. CASE \E c \in DOMAIN crackers :
                   /\ crackers[c].ip = HostOf(q)
                   /\ obj' = [obj EXCEPT ![q] = [id |-> c, row |-> crackers[c]]]
                   /\ Goto(q, "reports")
        <4>1. PICK c \in DOMAIN crackers :
                /\ crackers[c].ip = HostOf(q)
                /\ obj' = [obj EXCEPT ![q] = [id |-> c, row |-> crackers[c]]]
                /\ Goto(q, "reports")
          BY <3>1
        <4>2. c \in Id /\ crackers[c] \in CrackerRow
          BY DEF TypeOK, TablesOK, Id
        <4> DEFINE o == [id |-> c, row |-> crackers[c]]
        <4>3. o \in CrackerObj /\ o.row.ip = HostOf(q) /\ o.id # NULL
          BY <4>1, <4>2 DEF CrackerObj, Id
        <4>4. obj' = [obj EXCEPT ![q] = o] /\ pc' = [pc EXCEPT ![q] = "reports"]
          BY <4>1
        <4> HIDE DEF o
        <4>5. QED
          BY <4>3, <4>4
      <3>2. CASE /\ obj' = [obj EXCEPT ![q] =
                     [id |-> NULL,
                      row |-> [ip |-> HostOf(q), first |-> sub[q].when,
                               latest |-> sub[q].when, resil |-> 0,
                               total |-> 0, current |-> 0]]]
                 /\ Goto(q, "create")
        <4>1. [ip |-> HostOf(q), first |-> sub[q].when, latest |-> sub[q].when,
               resil |-> 0, total |-> 0, current |-> 0] \in CrackerRow
          BY <1>3, RequestHolds DEF FindCracker, CrackerRow, Stamp
        <4>2. QED
          BY <3>2, <4>1 DEF CrackerObj
      <3>3. QED
        BY <1>3, <3>1, <3>2 DEF FindCracker
    <2>2. TablesOK'
      BY <1>3, SameTables DEF FindCracker
    <2>3. ControlOK'
      BY <1>3, <2>1 DEF FindCracker, TypeOK, ControlOK, RequestLabel, RequestCritical
    <2>4. MemoryOK'
      BY <1>3, <2>1 DEF FindCracker, TypeOK, MemoryOK
    <2>5. LocalsOK'
      BY <1>3, <2>1
      DEF FindCracker, TypeOK, ControlOK, MemoryOK, LocalsOK, RequestCritical, HostOf
    <2>6. QED
      BY <2>2, <2>3, <2>4, <2>5 DEF TypeOK
  <1>4. CASE CreateCracker(q)
    <2> DEFINE o == [obj[q] EXCEPT !.id = nextCracker]
    <2>1. obj[q] \in CrackerObj /\ obj[q].row \in CrackerRow
      BY <1>4, RequestHolds DEF CreateCracker, RequestCritical
    <2>2. nextCracker \in Id /\ nextCracker # NULL
      BY DEF TypeOK, TablesOK, Id
    <2>3. o \in CrackerObj /\ o.id = nextCracker /\ o.row = obj[q].row
      BY <2>1, <2>2 DEF CrackerObj
    <2>4. obj' = [obj EXCEPT ![q] = o]
      BY <1>4, <2>1 DEF CreateCracker
    <2>5. TablesOK'
      <3> DEFINE row == obj[q].row
      <3>1. /\ crackers \in [DOMAIN crackers -> CrackerRow] /\ row \in CrackerRow
            /\ crackers' = InsertRow(crackers, nextCracker, row)
        BY <1>4, <2>1 DEF CreateCracker, TypeOK, TablesOK
      <3> HIDE DEF row
      <3>2. /\ crackers' \in [DOMAIN crackers' -> CrackerRow]
            /\ DOMAIN crackers' = DOMAIN crackers \cup {nextCracker}
        BY <3>1 DEF InsertRow
      <3>3. QED
        BY <1>4, <3>2 DEF CreateCracker, TypeOK, TablesOK, Id
    <2>6. ControlOK'
      BY <1>4 DEF CreateCracker, TypeOK, ControlOK, RequestLabel, RequestCritical
    <2>7. MemoryOK'
      BY <1>4, <2>3, <2>4 DEF CreateCracker, TypeOK, MemoryOK
    <2>8. LocalsOK'
      BY <1>4, <2>2, <2>3, <2>4
      DEF CreateCracker, TypeOK, ControlOK, MemoryOK, LocalsOK, RequestCritical, HostOf
    <2>9. QED
      BY <2>5, <2>6, <2>7, <2>8 DEF TypeOK
  <1>5. CASE FindReports(q)
    <2> DEFINE mine == ReportsBy(obj[q].id, sub[q].client)
    <2>1. obj[q] \in CrackerObj /\ obj[q].row \in CrackerRow /\ sub[q] \in Stamp
      BY <1>5, RequestHolds DEF FindReports, RequestCritical
    <2>2. PICK o \in CrackerObj :
            obj' = [obj EXCEPT ![q] = o] /\ o.id = obj[q].id /\ o.row.ip = obj[q].row.ip
      <3>1. CASE UNCHANGED obj
        BY <2>1, <3>1 DEF TypeOK, MemoryOK
      <3>2. CASE obj' = [obj EXCEPT ![q].row.current = @ + 1]
        <4> DEFINE row == [obj[q].row EXCEPT !.current = @ + 1]
                   o == [obj[q] EXCEPT !.row = row]
        <4>1. row \in CrackerRow /\ row.ip = obj[q].row.ip
          BY <2>1 DEF CrackerRow
        <4>2. obj' = [obj EXCEPT ![q] = o]
          BY <3>2
        <4> HIDE DEF row
        <4>3. o \in CrackerObj /\ o.id = obj[q].id /\ o.row = row
          BY <2>1, <4>1 DEF CrackerObj
        <4>4. QED
          BY <4>1, <4>2, <4>3
      <3>3. QED
        BY <1>5, <3>1, <3>2 DEF FindReports
    <2>3. \/ UNCHANGED rpt /\ pc' \in {[pc EXCEPT ![q] = "insert"], [pc EXCEPT ![q] = "save"]}
          \/ pc' = [pc EXCEPT ![q] = "touch"] /\ \E r \in ReportObj : rpt' = [rpt EXCEPT ![q] = r]
      <3>1. ASSUME NEW r \in Latest(mine)
            PROVE  [id |-> r, row |-> [reports[r] EXCEPT !.latest = sub[q].when]] \in ReportObj
        <4>1. r \in Id /\ reports[r] \in ReportRow
          BY DEF Latest, ReportsBy, ReportsOf, TypeOK, TablesOK, Id
        <4>2. QED
          BY <2>1, <4>1 DEF ReportObj, ReportRow, Stamp
      <3>2. QED
        BY <1>5, <3>1 DEF FindReports
    <2>4. TablesOK'
      BY <1>5, SameTables DEF FindReports
    <2>5. ControlOK'
      BY <1>5, <2>3 DEF FindReports, TypeOK, ControlOK, RequestLabel, RequestCritical
    <2>6. MemoryOK'
      <3>1. UNCHANGED <<request, pass>>
        BY <1>5 DEF FindReports
      <3>2. obj' \in [Task -> CrackerObj \cup {NULL}]
        BY <2>2 DEF TypeOK, MemoryOK
      <3>3. rpt' \in [Task -> ReportObj \cup {NULL}]
        BY <2>3 DEF TypeOK, MemoryOK
      <3>4. QED
        BY <3>1, <3>2, <3>3 DEF TypeOK, MemoryOK
    <2>7. LocalsOK'
      <3>1. UNCHANGED <<request, pass>> /\ pc[q] = "reports"
        BY <1>5 DEF FindReports
      <3>2. QED
        BY <2>2, <2>3, <3>1
        DEF TypeOK, ControlOK, MemoryOK, LocalsOK, RequestCritical, HostOf
    <2>8. QED
      BY <2>4, <2>5, <2>6, <2>7 DEF TypeOK
  <1>6. CASE InsertReport(q)
    <2> DEFINE row == [cracker |-> NULL, ip |-> sub[q].client,
                       first |-> sub[q].when, latest |-> sub[q].when]
    <2>1. nextReport \in Id /\ row \in ReportRow
      BY <1>6, RequestHolds DEF InsertReport, TypeOK, TablesOK, ReportRow, Stamp
    <2>2. [id |-> nextReport, row |-> row] \in ReportObj
      BY <2>1 DEF ReportObj
    <2>3. TablesOK'
      <3>1. /\ reports \in [DOMAIN reports -> ReportRow]
            /\ reports' = InsertRow(reports, nextReport, row) /\ row \in ReportRow
        BY <1>6, <2>1 DEF InsertReport, TypeOK, TablesOK
      <3> HIDE DEF row
      <3>2. /\ reports' \in [DOMAIN reports' -> ReportRow]
            /\ DOMAIN reports' = DOMAIN reports \cup {nextReport}
        BY <3>1 DEF InsertRow
      <3>3. QED
        BY <1>6, <3>2 DEF InsertReport, TypeOK, TablesOK, Id
    <2>4. ControlOK'
      BY <1>6 DEF InsertReport, TypeOK, ControlOK, RequestLabel, RequestCritical
    <2>5. MemoryOK'
      BY <1>6, <2>2 DEF InsertReport, TypeOK, MemoryOK
    <2>6. LocalsOK'
      BY <1>6, <2>2
      DEF InsertReport, TypeOK, ControlOK, MemoryOK, LocalsOK, RequestCritical, HostOf
    <2>7. QED
      BY <2>3, <2>4, <2>5, <2>6 DEF TypeOK
  <1>7. CASE LinkReport(q)
    <2>1. obj[q].id \in Id
      BY <1>7, RequestHolds DEF LinkReport, RequestCritical
    <2>2. TablesOK'
      <3> DEFINE id == rpt[q].id
                 c == obj[q].id
      <3>1. /\ reports \in [DOMAIN reports -> ReportRow] /\ c \in Id
            /\ reports' = SetCracker(reports, id, c)
        BY <1>7, <2>1 DEF LinkReport, TypeOK, TablesOK
      <3> HIDE DEF id, c
      <3>2. /\ reports' \in [DOMAIN reports' -> ReportRow]
            /\ DOMAIN reports' = DOMAIN reports
        BY <3>1 DEF SetCracker, ReportRow
      <3>3. QED
        BY <1>7, <3>2 DEF LinkReport, TypeOK, TablesOK
    <2>3. ControlOK'
      BY <1>7 DEF LinkReport, TypeOK, ControlOK, RequestLabel, RequestCritical
    <2>4. MemoryOK'
      BY <1>7 DEF LinkReport, TypeOK, MemoryOK
    <2>5. LocalsOK'
      BY <1>7 DEF LinkReport, TypeOK, ControlOK, MemoryOK, LocalsOK, RequestCritical, HostOf
    <2>6. QED
      BY <2>2, <2>3, <2>4, <2>5 DEF TypeOK
  <1>8. CASE TouchReport(q)
    <2>1. rpt[q].row \in ReportRow
      BY <1>8, RequestHolds DEF TouchReport, ReportObj
    <2>2. TablesOK'
      <3> DEFINE id == rpt[q].id
                 row == rpt[q].row
      <3>1. /\ reports \in [DOMAIN reports -> ReportRow] /\ row \in ReportRow
            /\ reports' = UpdateRow(reports, id, row)
        BY <1>8, <2>1 DEF TouchReport, TypeOK, TablesOK
      <3> HIDE DEF id, row
      <3>2. /\ reports' \in [DOMAIN reports' -> ReportRow]
            /\ DOMAIN reports' = DOMAIN reports
        BY <3>1 DEF UpdateRow
      <3>3. QED
        BY <1>8, <3>2 DEF TouchReport, TypeOK, TablesOK
    <2>3. ControlOK'
      BY <1>8 DEF TouchReport, TypeOK, ControlOK, RequestLabel, RequestCritical
    <2>4. MemoryOK'
      BY <1>8 DEF TouchReport, TypeOK, MemoryOK
    <2>5. LocalsOK'
      BY <1>8 DEF TouchReport, TypeOK, ControlOK, MemoryOK, LocalsOK, RequestCritical, HostOf
    <2>6. QED
      BY <2>2, <2>3, <2>4, <2>5 DEF TypeOK
  <1>9. CASE SaveCracker(q)
    <2> DEFINE when == sub[q].when
               row == [obj[q].row EXCEPT !.total = @ + 1, !.latest = when,
                                         !.resil = when - obj[q].row.first]
               o == [obj[q] EXCEPT !.row = row]
    <2>1. obj[q] \in CrackerObj /\ obj[q].row \in CrackerRow /\ sub[q] \in Stamp
      BY <1>9, RequestHolds DEF SaveCracker, RequestCritical
    <2>2. row \in CrackerRow /\ row.ip = obj[q].row.ip
      <3>1. when \in Int /\ when - obj[q].row.first \in Int /\ obj[q].row.total + 1 \in Nat
        BY <2>1 DEF CrackerRow, Stamp
      <3> HIDE DEF when
      <3>2. QED
        BY <2>1, <3>1 DEF CrackerRow
    <2>3. o \in CrackerObj /\ o.row = row /\ o.id = obj[q].id
      BY <2>1, <2>2 DEF CrackerObj
    <2>4. obj' = [obj EXCEPT ![q] = o] /\ crackers' = UpdateRow(crackers, obj[q].id, row)
      BY <1>9 DEF SaveCracker
    <2> HIDE DEF row, o
    <2>5. TablesOK'
      <3>1. crackers \in [DOMAIN crackers -> CrackerRow]
        BY DEF TypeOK, TablesOK
      <3>2. /\ crackers' \in [DOMAIN crackers' -> CrackerRow]
            /\ DOMAIN crackers' = DOMAIN crackers
        BY <2>2, <2>4, <3>1 DEF UpdateRow
      <3>3. QED
        BY <1>9, <3>2 DEF SaveCracker, TypeOK, TablesOK
    <2>6. ControlOK'
      BY <1>9 DEF SaveCracker, TypeOK, ControlOK, RequestLabel, RequestCritical
    <2>7. MemoryOK'
      BY <1>9, <2>3, <2>4 DEF SaveCracker, TypeOK, MemoryOK
    <2>8. LocalsOK'
      BY <1>9, <2>2, <2>3, <2>4
      DEF SaveCracker, TypeOK, ControlOK, MemoryOK, LocalsOK, RequestCritical, HostOf
    <2>9. QED
      BY <2>5, <2>6, <2>7, <2>8 DEF TypeOK
  <1>10. CASE UnlockHost(q)
    <2>1. todo[q] \in Seq(Host \cup {BadHost}) /\ Continues(todo[q])
      BY <1>10, RequestHolds DEF UnlockHost, LocalsOK
    <2>2. Tail(todo[q]) \in Seq(Host \cup {BadHost})
      BY <2>1, HeadType
    <2>3. TablesOK'
      BY <1>10, SameTables DEF UnlockHost
    <2>4. ControlOK'
      BY <1>10 DEF UnlockHost, Finish, TypeOK, ControlOK, RequestLabel, RequestCritical
    <2>5. MemoryOK' /\ LocalsOK'
      <3>1. UNCHANGED <<rpt, pass>> /\ obj' = [obj EXCEPT ![q] = NULL] /\ pc[q] = "unlock"
        BY <1>10 DEF UnlockHost
      <3>2. CASE Continues(Tail(todo[q]))
        <4>1. /\ todo' = [todo EXCEPT ![q] = Tail(todo[q])]
              /\ pc' = [pc EXCEPT ![q] = "lock"]
              /\ UNCHANGED sub
          BY <1>10, <3>2 DEF UnlockHost, TypeOK, MemoryOK
        <4>2. MemoryOK'
          BY <2>2, <3>1, <4>1 DEF TypeOK, MemoryOK
        <4>3. QED
          BY <3>1, <3>2, <4>1, <4>2
          DEF TypeOK, ControlOK, MemoryOK, LocalsOK, RequestCritical, HostOf
      <3>3. CASE ~Continues(Tail(todo[q]))
        <4>1. /\ todo' = [todo EXCEPT ![q] = <<>>]
              /\ pc' = [pc EXCEPT ![q] = "idle"]
              /\ sub' = [sub EXCEPT ![q] = NULL]
          BY <1>10, <3>3 DEF UnlockHost, Finish
        <4>2. MemoryOK'
          BY <3>1, <4>1 DEF TypeOK, MemoryOK
        <4>3. QED
          BY <3>1, <4>1, <4>2
          DEF TypeOK, ControlOK, MemoryOK, LocalsOK, RequestCritical, HostOf
      <3>4. QED
        BY <3>2, <3>3
    <2>6. QED
      BY <2>3, <2>4, <2>5 DEF TypeOK
  <1>11. CASE FailRequest(q)
    <2>1. TablesOK'
      BY <1>11, SameTables DEF FailRequest
    <2>2. ControlOK'
      BY <1>11
      DEF FailRequest, Finish, UnlockOnError, TypeOK, ControlOK, RequestLabel, RequestCritical
    <2>3. MemoryOK'
      BY <1>11 DEF FailRequest, Finish, TypeOK, MemoryOK
    <2>4. LocalsOK'
      BY <1>11
      DEF FailRequest, Finish, TypeOK, ControlOK, MemoryOK, LocalsOK, RequestCritical, HostOf
    <2>5. QED
      BY <2>1, <2>2, <2>3, <2>4 DEF TypeOK
  <1>12. QED
    BY <1>1, <1>2, <1>3, <1>4, <1>5, <1>6, <1>7, <1>8, <1>9, <1>10, <1>11
    DEF RequestStep

\* So does perform_maintenance.
LEMMA JobTypeStep ==
  ASSUME TypeOK, LocalsOK, NEW j \in Job, JobStep(j) \/ FailJob(j)
  PROVE  TypeOK' /\ LocalsOK'
  <1> USE DEF Task
  <1>1. CASE StartJob(j)
    <2>1. TablesOK'
      BY <1>1, SameTables DEF StartJob
    <2>2. ControlOK'
      BY <1>1 DEF StartJob, TypeOK, ControlOK, JobLabel
    <2>3. MemoryOK'
      BY <1>1, TimeAssumption DEF StartJob, TypeOK, ControlOK, MemoryOK
    <2>4. LocalsOK'
      BY <1>1 DEF StartJob, TypeOK, ControlOK, LocalsOK, JobCritical, HostOf
    <2>5. QED
      BY <2>1, <2>2, <2>3, <2>4 DEF TypeOK
  <1>2. CASE ScanReports(j)
    <2>1. ASSUME NEW ids \in SUBSET {r \in DOMAIN reports : reports[r].latest < limit[j]}
          PROVE  {[id |-> r, row |-> reports[r]] : r \in ids} \in SUBSET ReportObj
      <3>1. \A r \in ids : r \in Id /\ reports[r] \in ReportRow
        BY DEF TypeOK, TablesOK, Id
      <3>2. \A r \in ids : [id |-> r, row |-> reports[r]] \in ReportObj
        BY <3>1 DEF ReportObj
      <3>3. QED
        BY <3>2
    <2>2. /\ UNCHANGED <<env, tables, busy, request, obj, rpt>>
          /\ pc[j] = "scan"
          /\ \/ /\ limit' = [limit EXCEPT ![j] = 0]
                /\ pc' = [pc EXCEPT ![j] = "idle"]
                /\ UNCHANGED batch
             \/ /\ \E b \in SUBSET ReportObj : batch' = [batch EXCEPT ![j] = b]
                /\ pc' = [pc EXCEPT ![j] = "fetch"]
                /\ UNCHANGED limit
      BY <1>2, <2>1 DEF ScanReports
    <2>3. TablesOK'
      BY <2>2, SameTables
    <2>4. ControlOK'
      BY <2>2 DEF TypeOK, ControlOK, JobLabel
    <2>5. MemoryOK'
      <3>1. limit' \in [Job -> Int]
        BY <2>2 DEF TypeOK, MemoryOK
      <3>2. batch' \in [Job -> SUBSET ReportObj]
        BY <2>2 DEF TypeOK, MemoryOK
      <3>3. QED
        BY <2>2, <3>1, <3>2 DEF TypeOK, MemoryOK
    <2>6. LocalsOK'
      BY <2>2 DEF TypeOK, ControlOK, LocalsOK, JobCritical, HostOf
    <2>7. QED
      BY <2>3, <2>4, <2>5, <2>6 DEF TypeOK
  <1>3. CASE FetchCracker(j)
    <2>1. PICK r \in batch[j] :
            /\ r.row.cracker \in DOMAIN crackers
            /\ obj' = [obj EXCEPT ![j] = [id |-> r.row.cracker,
                                          row |-> crackers[r.row.cracker]]]
            /\ rpt' = [rpt EXCEPT ![j] = r]
            /\ batch' = [batch EXCEPT ![j] = @ \ {r}]
      BY <1>3 DEF FetchCracker
    <2> DEFINE c == r.row.cracker
               o == [id |-> c, row |-> crackers[c]]
    <2>2. r \in ReportObj
      BY DEF TypeOK, MemoryOK
    <2>3. c \in Id /\ crackers[c] \in CrackerRow
      BY <2>1 DEF TypeOK, TablesOK, Id
    <2>4. o \in CrackerObj /\ o.id # NULL
      BY <2>3 DEF CrackerObj, Id
    <2>5. TablesOK'
      BY <1>3, SameTables DEF FetchCracker
    <2>6. ControlOK'
      BY <1>3 DEF FetchCracker, TypeOK, ControlOK, JobLabel
    <2>7. obj' = [obj EXCEPT ![j] = o]
      BY <2>1
    <2> HIDE DEF o
    <2>8. MemoryOK'
      BY <1>3, <2>1, <2>2, <2>4, <2>7 DEF FetchCracker, TypeOK, MemoryOK
    <2>9. LocalsOK'
      BY <1>3, <2>1, <2>2, <2>4, <2>7
      DEF FetchCracker, TypeOK, ControlOK, MemoryOK, LocalsOK, JobCritical, HostOf
    <2>10. QED
      BY <2>5, <2>6, <2>8, <2>9 DEF TypeOK
  <1>4. CASE FetchNoCracker(j)
    <2>1. TablesOK'
      BY <1>4, SameTables DEF FetchNoCracker
    <2>2. ControlOK'
      BY <1>4 DEF FetchNoCracker, Die, TypeOK, ControlOK, JobLabel
    <2>3. MemoryOK'
      BY <1>4 DEF FetchNoCracker, Die, TypeOK, MemoryOK
    <2>4. LocalsOK'
      BY <1>4 DEF FetchNoCracker, Die, TypeOK, ControlOK, LocalsOK, JobCritical, HostOf
    <2>5. QED
      BY <2>1, <2>2, <2>3, <2>4 DEF TypeOK
  <1>5. CASE Lock(j)
    <2>1. HostOf(j) \in Host
      BY <1>5, JobHolds DEF Lock
    <2>2. TablesOK'
      BY <1>5, SameTables DEF Lock
    <2>3. ControlOK'
      BY <1>5, <2>1 DEF Lock, TypeOK, ControlOK, JobLabel, JobCritical
    <2>4. MemoryOK'
      BY <1>5 DEF Lock, TypeOK, MemoryOK
    <2>5. LocalsOK'
      BY <1>5 DEF Lock, TypeOK, ControlOK, LocalsOK, JobCritical, HostOf
    <2>6. QED
      BY <2>2, <2>3, <2>4, <2>5 DEF TypeOK
  <1>6. CASE ClearReport(j)
    <2>1. TablesOK'
      <3> DEFINE id == rpt[j].id
      <3>1. /\ reports \in [DOMAIN reports -> ReportRow]
            /\ reports' = SetCracker(reports, id, NULL)
        BY <1>6 DEF ClearReport, TypeOK, TablesOK
      <3> HIDE DEF id
      <3>2. /\ reports' \in [DOMAIN reports' -> ReportRow]
            /\ DOMAIN reports' = DOMAIN reports
        BY <3>1 DEF SetCracker, ReportRow
      <3>3. QED
        BY <1>6, <3>2 DEF ClearReport, TypeOK, TablesOK
    <2>2. ControlOK'
      BY <1>6 DEF ClearReport, TypeOK, ControlOK, JobLabel, JobCritical
    <2>3. MemoryOK'
      BY <1>6 DEF ClearReport, TypeOK, MemoryOK
    <2>4. LocalsOK'
      BY <1>6 DEF ClearReport, TypeOK, ControlOK, LocalsOK, JobCritical, HostOf
    <2>5. QED
      BY <2>1, <2>2, <2>3, <2>4 DEF TypeOK
  <1>7. CASE DeleteReport(j)
    <2>1. TablesOK'
      BY <1>7 DEF DeleteReport, DeleteRow, Restrict, TypeOK, TablesOK
    <2>2. ControlOK'
      BY <1>7 DEF DeleteReport, TypeOK, ControlOK, JobLabel, JobCritical
    <2>3. MemoryOK'
      BY <1>7 DEF DeleteReport, TypeOK, MemoryOK
    <2>4. LocalsOK'
      BY <1>7 DEF DeleteReport, TypeOK, ControlOK, MemoryOK, LocalsOK, JobCritical, HostOf
    <2>5. QED
      BY <2>1, <2>2, <2>3, <2>4 DEF TypeOK
  <1>8. CASE CountReporters(j)
    <2> DEFINE reporters == {reports[r].ip : r \in ReportsOf(obj[j].id)}
               row == [obj[j].row EXCEPT !.current = Cardinality(reporters)]
               o == [obj[j] EXCEPT !.row = row]
    <2>1. obj[j] \in CrackerObj /\ obj[j].row \in CrackerRow
      BY <1>8, JobHolds DEF CountReporters, JobCritical
    <2>2. Cardinality(reporters) \in Nat
      BY CountType
    <2> HIDE DEF reporters
    <2>3. row \in CrackerRow
      BY <2>1, <2>2 DEF CrackerRow
    <2>4. o \in CrackerObj /\ o.id = obj[j].id
      BY <2>1, <2>3 DEF CrackerObj
    <2>5. obj' = [obj EXCEPT ![j] = o]
      BY <1>8 DEF CountReporters, reporters
    <2> HIDE DEF o
    <2>6. TablesOK'
      BY <1>8, SameTables DEF CountReporters
    <2>7. ControlOK'
      BY <1>8 DEF CountReporters, TypeOK, ControlOK, JobLabel, JobCritical
    <2>8. UNCHANGED <<request, rpt, pass>> /\ pc' = [pc EXCEPT ![j] = "writeback"] /\ pc[j] = "count"
      BY <1>8 DEF CountReporters
    <2>9. MemoryOK'
      BY <2>4, <2>5, <2>8 DEF TypeOK, MemoryOK
    <2>10. LocalsOK'
      BY <2>4, <2>5, <2>8 DEF TypeOK, ControlOK, MemoryOK, LocalsOK, JobCritical, HostOf
    <2>11. QED
      BY <2>6, <2>7, <2>9, <2>10 DEF TypeOK
  <1>9. CASE WriteBackCracker(j)
    <2>1. obj[j].row \in CrackerRow
      BY <1>9, JobHolds DEF WriteBackCracker, JobCritical
    <2>2. TablesOK'
      <3> DEFINE id == obj[j].id
                 row == obj[j].row
      <3>1. /\ crackers \in [DOMAIN crackers -> CrackerRow] /\ row \in CrackerRow
            /\ crackers' = UpdateRow(crackers, id, row)
        BY <1>9, <2>1 DEF WriteBackCracker, TypeOK, TablesOK
      <3> HIDE DEF id, row
      <3>2. /\ crackers' \in [DOMAIN crackers' -> CrackerRow]
            /\ DOMAIN crackers' = DOMAIN crackers
        BY <3>1 DEF UpdateRow
      <3>3. QED
        BY <1>9, <3>2 DEF WriteBackCracker, TypeOK, TablesOK
    <2>3. ControlOK'
      BY <1>9 DEF WriteBackCracker, AfterWriteBack, TypeOK, ControlOK, JobLabel, JobCritical
    <2>4. MemoryOK'
      BY <1>9 DEF WriteBackCracker, TypeOK, MemoryOK
    <2>5. LocalsOK'
      BY <1>9 DEF WriteBackCracker, AfterWriteBack, TypeOK, ControlOK, LocalsOK, JobCritical, HostOf
    <2>6. QED
      BY <2>2, <2>3, <2>4, <2>5 DEF TypeOK
  <1>10. CASE DropCracker(j)
    <2>1. TablesOK'
      BY <1>10 DEF DropCracker, DeleteRow, Restrict, TypeOK, TablesOK
    <2>2. ControlOK'
      BY <1>10 DEF DropCracker, TypeOK, ControlOK, JobLabel, JobCritical
    <2>3. MemoryOK'
      BY <1>10 DEF DropCracker, TypeOK, MemoryOK
    <2>4. LocalsOK'
      BY <1>10 DEF DropCracker, TypeOK, ControlOK, LocalsOK, JobCritical, HostOf
    <2>5. QED
      BY <2>1, <2>2, <2>3, <2>4 DEF TypeOK
  <1>11. CASE ReleaseHost(j)
    <2>1. TablesOK'
      BY <1>11, SameTables DEF ReleaseHost
    <2>2. ControlOK'
      BY <1>11 DEF ReleaseHost, TypeOK, ControlOK, JobLabel
    <2>3. MemoryOK'
      BY <1>11 DEF ReleaseHost, TypeOK, MemoryOK
    <2>4. LocalsOK'
      BY <1>11 DEF ReleaseHost, TypeOK, ControlOK, MemoryOK, LocalsOK, JobCritical, HostOf
    <2>5. QED
      BY <2>1, <2>2, <2>3, <2>4 DEF TypeOK
  <1>12. CASE FailJob(j)
    <2>1. TablesOK'
      BY <1>12, SameTables DEF FailJob
    <2>2. ControlOK'
      BY <1>12 DEF FailJob, Die, UnlockOnError, TypeOK, ControlOK, JobLabel
    <2>3. MemoryOK'
      BY <1>12 DEF FailJob, Die, TypeOK, MemoryOK
    <2>4. LocalsOK'
      BY <1>12 DEF FailJob, Die, TypeOK, ControlOK, LocalsOK, JobCritical, HostOf
    <2>5. QED
      BY <2>1, <2>2, <2>3, <2>4 DEF TypeOK
  <1>13. QED
    BY <1>1, <1>2, <1>3, <1>4, <1>5, <1>6, <1>7, <1>8, <1>9, <1>10, <1>11, <1>12
    DEF JobStep

\* The inductive step of TypeCorrect.
LEMMA TypeStep ==
  ASSUME TypeOK, LocalsOK, [Next]_vars
  PROVE  TypeOK' /\ LocalsOK'
  <1>1. ASSUME NEW q \in Request, Accept(q) \/ RequestStep(q) \/ FailRequest(q)
        PROVE  TypeOK' /\ LocalsOK'
    BY <1>1, RequestTypeStep
  <1>2. ASSUME NEW j \in Job, JobStep(j) \/ FailJob(j)
        PROVE  TypeOK' /\ LocalsOK'
    BY <1>2, JobTypeStep
  <1>3. CASE Restart
    <2>1. TablesOK'
      BY <1>3, SameTables DEF Restart
    <2>2. ControlOK'
      BY <1>3 DEF Restart, TypeOK, ControlOK, RequestLabel, JobLabel, Task
    <2>3. MemoryOK'
      BY <1>3 DEF Restart, TypeOK, MemoryOK
    <2>4. LocalsOK'
      BY <1>3 DEF Restart, LocalsOK, RequestCritical, JobCritical, Task
    <2>5. QED
      BY <2>1, <2>2, <2>3, <2>4 DEF TypeOK
  <1>4. CASE Tick
    <2>1. TypeOK'
      BY <1>4, SameTables DEF Tick, TypeOK, TablesOK, ControlOK, MemoryOK
    <2>2. LocalsOK'
      BY <1>4 DEF Tick, LocalsOK, HostOf
    <2>3. QED
      BY <2>1, <2>2
  <1>5. CASE UNCHANGED vars
    BY <1>5 DEF vars, TypeOK, TablesOK, ControlOK, MemoryOK, LocalsOK, HostOf
  <1>6. QED
    BY <1>1, <1>2, <1>3, <1>4, <1>5 DEF Next, Running

\* The base case of TypeCorrect: the tables are empty and every task is idle.
LEMMA InitType == Init => TypeOK /\ LocalsOK
  BY DEF Init, TypeOK, TablesOK, ControlOK, MemoryOK, LocalsOK, Task, Id,
         RequestLabel, JobLabel, RequestCritical, JobCritical

\* The variables have their types, and a task that is at a label holds what the
\* code at that label uses: no AttributeError on a None.
THEOREM TypeCorrect == Spec => []TypeOK
  <1>1. TypeOK /\ LocalsOK /\ [Next]_vars => (TypeOK /\ LocalsOK)'
    BY TypeStep
  <1>2. QED
    BY InitType, <1>1, PTL DEF Spec

--------------------------------------------------------------------------------
(* The host lock.                                                             *)

\* A request changes its own control and memory only.
LEMMA RequestAlone ==
  ASSUME TypeOK, NEW q \in Request, Accept(q) \/ RequestStep(q) \/ FailRequest(q)
  PROVE  /\ \A u \in Task \ {q} : /\ pc'[u] = pc[u]
                                  /\ obj'[u] = obj[u] /\ rpt'[u] = rpt[u]
         /\ \A u \in Request \ {q} : todo'[u] = todo[u] /\ sub'[u] = sub[u]
         /\ UNCHANGED pass
  <1> USE DEF TypeOK, ControlOK, MemoryOK, Task
  <1>1. CASE Accept(q)
    BY <1>1 DEF Accept
  <1>2. CASE Lock(q)
    BY <1>2 DEF Lock
  <1>3. CASE FindCracker(q)
    BY <1>3 DEF FindCracker
  <1>4. CASE CreateCracker(q)
    BY <1>4 DEF CreateCracker
  <1>5. CASE FindReports(q)
    BY <1>5 DEF FindReports
  <1>6. CASE InsertReport(q)
    BY <1>6 DEF InsertReport
  <1>7. CASE LinkReport(q)
    BY <1>7 DEF LinkReport
  <1>8. CASE TouchReport(q)
    BY <1>8 DEF TouchReport
  <1>9. CASE SaveCracker(q)
    BY <1>9 DEF SaveCracker
  <1>10. CASE UnlockHost(q)
    BY <1>10 DEF UnlockHost, Finish
  <1>11. CASE FailRequest(q)
    BY <1>11 DEF FailRequest, Finish
  <1>12. QED
    BY <1>1, <1>2, <1>3, <1>4, <1>5, <1>6, <1>7, <1>8, <1>9, <1>10, <1>11
    DEF RequestStep

\* A job changes its own control and memory only.
LEMMA JobAlone ==
  ASSUME TypeOK, NEW j \in Job, JobStep(j) \/ FailJob(j)
  PROVE  /\ \A u \in Task \ {j} : /\ pc'[u] = pc[u]
                                  /\ obj'[u] = obj[u] /\ rpt'[u] = rpt[u]
         /\ UNCHANGED request
  <1> USE DEF TypeOK, ControlOK, MemoryOK, Task
  <1>1. CASE StartJob(j)
    BY <1>1 DEF StartJob
  <1>2. CASE ScanReports(j)
    BY <1>2 DEF ScanReports
  <1>3. CASE FetchCracker(j)
    BY <1>3 DEF FetchCracker
  <1>4. CASE FetchNoCracker(j)
    BY <1>4 DEF FetchNoCracker, Die
  <1>5. CASE Lock(j)
    BY <1>5 DEF Lock
  <1>6. CASE ClearReport(j)
    BY <1>6 DEF ClearReport
  <1>7. CASE DeleteReport(j)
    BY <1>7 DEF DeleteReport
  <1>8. CASE CountReporters(j)
    BY <1>8 DEF CountReporters
  <1>9. CASE WriteBackCracker(j)
    BY <1>9 DEF WriteBackCracker
  <1>10. CASE DropCracker(j)
    BY <1>10 DEF DropCracker
  <1>11. CASE ReleaseHost(j)
    BY <1>11 DEF ReleaseHost
  <1>12. CASE FailJob(j)
    BY <1>12 DEF FailJob, Die
  <1>13. QED
    BY <1>1, <1>2, <1>3, <1>4, <1>5, <1>6, <1>7, <1>8, <1>9, <1>10, <1>11, <1>12
    DEF JobStep

\* So it leaves the other tasks where they are, with the host they have.
LEMMA OthersStay ==
  ASSUME TypeOK, NEW t \in Task,
         \/ t \in Request /\ (Accept(t) \/ RequestStep(t) \/ FailRequest(t))
         \/ t \in Job /\ (JobStep(t) \/ FailJob(t))
  PROVE  \A u \in Task \ {t} : /\ InCritical(u)' <=> InCritical(u)
                               /\ HostOf(u)' = HostOf(u)
  BY RequestAlone, JobAlone DEF InCritical, HostOf, Task

\* A step after which each task is inside or outside its critical section as
\* before, on the same host, keeps the locks as they are.
LEMMA LocksKept ==
  ASSUME LocksOK, UNCHANGED busy,
         \A u \in Task : InCritical(u)' <=> InCritical(u),
         \A u \in Task : InCritical(u) => HostOf(u)' = HostOf(u)
  PROVE  LocksOK'
  BY DEF LocksOK, MutualExclusion, LocksAreHeld

\* wait_and_lock_host: a task that enters on a free host keeps the locks right.
LEMMA LockTaken ==
  ASSUME LocksOK, NEW t \in Task, ~InCritical(t), InCritical(t)',
         HostOf(t)' = HostOf(t), HostOf(t) \notin busy, busy' = busy \cup {HostOf(t)},
         \A u \in Task \ {t} : (InCritical(u)' <=> InCritical(u)) /\ HostOf(u)' = HostOf(u)
  PROVE  LocksOK'
  BY DEF LocksOK, MutualExclusion, LocksAreHeld

\* unlock_host: so does one that leaves and frees its host.
LEMMA LockFreed ==
  ASSUME LocksOK, NEW t \in Task, InCritical(t), ~InCritical(t)',
         busy' = busy \ {HostOf(t)},
         \A u \in Task \ {t} : (InCritical(u)' <=> InCritical(u)) /\ HostOf(u)' = HostOf(u)
  PROVE  LocksOK'
  BY DEF LocksOK, MutualExclusion, LocksAreHeld


\* Requests keep the locks: handle_report_from_client unlocks in a `finally'.
LEMMA RequestLockStep ==
  ASSUME TypeOK, LocalsOK, LocksOK, NEW q \in Request,
         Accept(q) \/ RequestStep(q) \/ FailRequest(q)
  PROVE  LocksOK'
  <1> USE DEF InCritical, RequestCritical, JobCritical
  <1>1. \A u \in Task \ {q} : (InCritical(u)' <=> InCritical(u)) /\ HostOf(u)' = HostOf(u)
    BY OthersStay DEF Task
  <1>2. q \in Task /\ pc \in [Task -> RequestLabel \cup JobLabel]
    BY DEF Task, TypeOK, ControlOK
  <1>3. CASE Lock(q)
    <2>1. HostOf(q)' = HostOf(q)
      BY <1>3 DEF Lock, HostOf
    <2>2. ~InCritical(q) /\ InCritical(q)'
      BY <1>2, <1>3 DEF Lock
    <2>3. HostOf(q) \notin busy /\ busy' = busy \cup {HostOf(q)}
      BY <1>3 DEF Lock
    <2>4. QED
      BY <1>1, <1>2, <2>1, <2>2, <2>3, LockTaken
  <1>4. CASE UnlockHost(q) \/ FailRequest(q)
    <2>1. InCritical(q) /\ busy' = busy \ {HostOf(q)}
      BY <1>4 DEF UnlockHost, FailRequest, UnlockOnError
    <2>2. ~InCritical(q)'
      BY <1>2, <1>4 DEF UnlockHost, FailRequest, Finish
    <2>3. QED
      BY <1>1, <1>2, <2>1, <2>2, LockFreed
  <1>5. CASE Accept(q)
    <2>1. UNCHANGED busy /\ ~InCritical(q) /\ ~InCritical(q)'
      BY <1>2, <1>5 DEF Accept
    <2>2. QED
      BY <1>1, <2>1, LocksKept
  <1>6. CASE \/ FindCracker(q) \/ CreateCracker(q) \/ FindReports(q)
            \/ InsertReport(q) \/ LinkReport(q) \/ TouchReport(q) \/ SaveCracker(q)
    <2>1. UNCHANGED <<busy, todo>> /\ InCritical(q)
      BY <1>6 DEF FindCracker, CreateCracker, FindReports, InsertReport,
                  LinkReport, TouchReport, SaveCracker
    <2>2. InCritical(q)'
      BY <1>2, <1>6 DEF FindCracker, CreateCracker, FindReports, InsertReport,
                        LinkReport, TouchReport, SaveCracker
    <2>3. HostOf(q)' = HostOf(q)
      BY <2>1 DEF HostOf
    <2>4. QED
      BY <1>1, <2>1, <2>2, <2>3, LocksKept
  <1>7. QED
    BY <1>3, <1>4, <1>5, <1>6 DEF RequestStep

\* Jobs keep the locks: perform_maintenance unlocks in a `finally' too.
LEMMA JobLockStep ==
  ASSUME TypeOK, LocalsOK, LocksOK, NEW j \in Job, JobStep(j) \/ FailJob(j)
  PROVE  LocksOK'
  <1> USE DEF InCritical, RequestCritical, JobCritical
  <1>1. \A u \in Task \ {j} : (InCritical(u)' <=> InCritical(u)) /\ HostOf(u)' = HostOf(u)
    BY OthersStay DEF Task
  <1>2. j \in Task /\ j \notin Request /\ pc \in [Task -> RequestLabel \cup JobLabel]
    BY DEF Task, TypeOK, ControlOK
  <1>3. CASE Lock(j)
    <2>1. HostOf(j)' = HostOf(j)
      BY <1>3 DEF Lock, HostOf
    <2>2. ~InCritical(j) /\ InCritical(j)'
      BY <1>2, <1>3 DEF Lock
    <2>3. HostOf(j) \notin busy /\ busy' = busy \cup {HostOf(j)}
      BY <1>3 DEF Lock
    <2>4. QED
      BY <1>1, <1>2, <2>1, <2>2, <2>3, LockTaken
  <1>4. CASE ReleaseHost(j)
    <2>1. InCritical(j) /\ busy' = busy \ {HostOf(j)}
      BY <1>4 DEF ReleaseHost
    <2>2. ~InCritical(j)'
      BY <1>2, <1>4 DEF ReleaseHost
    <2>3. QED
      BY <1>1, <1>2, <2>1, <2>2, LockFreed
  <1>5. CASE StartJob(j) \/ ScanReports(j) \/ FetchCracker(j) \/ FetchNoCracker(j)
    <2>1. UNCHANGED busy /\ ~InCritical(j)
      BY <1>5 DEF StartJob, ScanReports, FetchCracker, FetchNoCracker
    <2>2. ~InCritical(j)'
      BY <1>2, <1>5 DEF StartJob, ScanReports, FetchCracker, FetchNoCracker, Die
    <2>3. QED
      BY <1>1, <2>1, <2>2, LocksKept
  <1>6. CASE ClearReport(j) \/ DeleteReport(j) \/ WriteBackCracker(j) \/ DropCracker(j)
    <2>1. UNCHANGED <<busy, obj>> /\ InCritical(j)
      BY <1>6 DEF ClearReport, DeleteReport, WriteBackCracker, DropCracker
    <2>2. InCritical(j)'
      BY <1>2, <1>6 DEF ClearReport, DeleteReport, WriteBackCracker,
                        AfterWriteBack, DropCracker
    <2>3. HostOf(j)' = HostOf(j)
      BY <1>2, <2>1 DEF HostOf
    <2>4. QED
      BY <1>1, <2>1, <2>2, <2>3, LocksKept
  <1>7. CASE CountReporters(j)
    <2>1. UNCHANGED busy /\ InCritical(j)
      BY <1>7 DEF CountReporters
    <2>2. InCritical(j)'
      BY <1>2, <1>7 DEF CountReporters
    <2>3. HostOf(j)' = HostOf(j)
      <3>1. obj \in [Task -> CrackerObj \cup {NULL}] /\ obj[j] \in CrackerObj
        BY <1>7, JobHolds DEF CountReporters, TypeOK, MemoryOK
      <3>2. obj'[j].row.ip = obj[j].row.ip
        BY <1>2, <1>7, <3>1 DEF CountReporters, CrackerObj, CrackerRow
      <3>3. QED
        BY <1>2, <3>2 DEF HostOf
    <2>4. QED
      BY <1>1, <2>1, <2>2, <2>3, LocksKept
  <1>8. CASE FailJob(j)
    <2>1. ~InCritical(j)'
      BY <1>2, <1>8 DEF FailJob, Die
    <2>2. busy' = IF InCritical(j) THEN busy \ {HostOf(j)} ELSE busy
      BY <1>8 DEF FailJob, UnlockOnError
    <2>3. CASE InCritical(j)
      BY <1>1, <1>2, <2>1, <2>2, <2>3, LockFreed
    <2>4. CASE ~InCritical(j)
      BY <1>1, <2>1, <2>2, <2>4, LocksKept
    <2>5. QED
      BY <2>3, <2>4
  <1>9. QED
    BY <1>3, <1>4, <1>5, <1>6, <1>7, <1>8 DEF JobStep

\* The inductive step of the lock theorems.
LEMMA LockStep ==
  ASSUME TypeOK, LocalsOK, LocksOK, [Next]_vars
  PROVE  LocksOK'
  <1>1. ASSUME NEW q \in Request, Accept(q) \/ RequestStep(q) \/ FailRequest(q)
        PROVE  LocksOK'
    BY <1>1, RequestLockStep
  <1>2. ASSUME NEW j \in Job, JobStep(j) \/ FailJob(j)
        PROVE  LocksOK'
    BY <1>2, JobLockStep
  <1>3. CASE Restart
    <2>1. busy' = {} /\ \A t \in Task : ~InCritical(t)'
      BY <1>3 DEF Restart, InCritical, RequestCritical, JobCritical
    <2>2. QED
      BY <2>1 DEF LocksOK, MutualExclusion, LocksAreHeld
  <1>4. CASE Tick \/ UNCHANGED vars
    <2>1. UNCHANGED <<busy, pc, todo, obj>>
      BY <1>4 DEF Tick, vars
    <2>2. QED
      BY <2>1 DEF LocksOK, MutualExclusion, LocksAreHeld, InCritical, HostOf
  <1>5. QED
    BY <1>1, <1>2, <1>3, <1>4 DEF Next, Running

\* The base case: nobody is in a critical section.
LEMMA InitLocks == Init => LocksOK
  BY DEF Init, LocksOK, MutualExclusion, LocksAreHeld, InCritical,
         RequestCritical, JobCritical

\* Two tasks never work on one host at a time (wait_and_lock_host).
THEOREM LockExcludes == Spec => []MutualExclusion
  <1>1. TypeOK /\ LocalsOK /\ LocksOK /\ [Next]_vars => (TypeOK /\ LocalsOK /\ LocksOK)'
    BY TypeStep, LockStep
  <1>2. LocksOK => MutualExclusion
    BY DEF LocksOK
  <1>3. QED
    BY InitType, InitLocks, <1>1, <1>2, PTL DEF Spec

\* No path through the code, by an error or a restart either, leaks the lock of a
\* host or frees one that another task holds (unlock_host).
THEOREM LockNeverLeaks == Spec => []LocksAreHeld
  <1>1. TypeOK /\ LocalsOK /\ LocksOK /\ [Next]_vars => (TypeOK /\ LocalsOK /\ LocksOK)'
    BY TypeStep, LockStep
  <1>2. LocksOK => LocksAreHeld
    BY DEF LocksOK
  <1>3. QED
    BY InitType, InitLocks, <1>1, <1>2, PTL DEF Spec

--------------------------------------------------------------------------------
(* The two tables.                                                            *)

\* A request and a job that are both past the lock work on different crackers:
\* one cracker is one host, and the lock excludes.
LEMMA DifferentCrackers ==
  ASSUME TypeOK, LocalsOK, LocksOK, ObjectsOK, NEW q \in Request, NEW j \in Job,
         pc[q] \in RequestCritical \ {"find", "create"}, pc[j] \in JobCritical
  PROVE  obj[q].id # obj[j].id
  <1>1. HostOf(q) # HostOf(j)
    BY DEF LocksOK, MutualExclusion, InCritical, Task
  <1>2. /\ obj[q] # NULL /\ obj[q].id # NULL /\ obj[q].row.ip = HostOf(q)
        /\ obj[j] # NULL /\ obj[j].id # NULL /\ obj[j].row.ip = HostOf(j)
    BY DEF LocalsOK, HostOf
  <1>3. /\ obj[q].id \in DOMAIN crackers
        /\ crackers[obj[q].id].ip = obj[q].row.ip
        /\ obj[j].id \in DOMAIN crackers => crackers[obj[j].id].ip = obj[j].row.ip
    BY <1>2 DEF ObjectsOK, Task
  <1>4. QED
    BY <1>1, <1>2, <1>3

\* A step that leaves the tables alone keeps them consistent if the task that
\* takes it holds a Cracker object that fits them, or none, and goes to a label
\* about which the invariant says nothing.
LEMMA TablesKept ==
  ASSUME StoreOK, UNCHANGED tables, NEW t \in Task,
         \A u \in Task \ {t} : pc'[u] = pc[u] /\ obj'[u] = obj[u] /\ rpt'[u] = rpt[u],
         \A u \in Request \ {t} : HostOf(u)' = HostOf(u),
         pc'[t] \notin (RequestCritical \ {"find"}) \cup {"writeback", "drop"},
         obj'[t] # NULL /\ obj'[t].id # NULL =>
           /\ obj'[t].id < nextCracker
           /\ obj'[t].id \in DOMAIN crackers =>
                crackers[obj'[t].id].ip = obj'[t].row.ip
  PROVE  StoreOK'
  <1> USE DEF StoreOK, Task
  <1>1. CreateIsFresh'
    BY DEF CreateIsFresh, RequestCritical
  <1>2. NoDanglingReport'
    BY DEF NoDanglingReport
  <1>3. ObjectsOK'
    BY DEF ObjectsOK, RequestCritical
  <1>4. DropsOK'
    BY DEF DropsOK, ReportsOf
  <1>5. QED
    BY <1>1, <1>2, <1>3, <1>4

\* handle_report_from_client keeps the two tables consistent.
LEMMA RequestStoreStep ==
  ASSUME IndInv, NEW q \in Request, Accept(q) \/ RequestStep(q) \/ FailRequest(q)
  PROVE  StoreOK'
  <1> USE DEF Task
  <1>1. /\ \A u \in Task \ {q} : pc'[u] = pc[u] /\ obj'[u] = obj[u] /\ rpt'[u] = rpt[u]
        /\ \A u \in Request \ {q} : HostOf(u)' = HostOf(u)
    BY RequestAlone DEF IndInv, HostOf
  <1>2. /\ q \in Task /\ q \notin Job
        /\ pc \in [Task -> RequestLabel \cup JobLabel]
        /\ obj \in [Task -> CrackerObj \cup {NULL}]
        /\ rpt \in [Task -> ReportObj \cup {NULL}]
    BY DEF IndInv, TypeOK, ControlOK, MemoryOK
  <1>3. \A j \in Job : pc'[j] = pc[j] /\ obj'[j] = obj[j]
    BY <1>1
  <1>4. CASE Accept(q) \/ Lock(q)
    <2>1. UNCHANGED <<tables, obj>> /\ pc'[q] \in {"lock", "find"}
      BY <1>2, <1>4 DEF Accept, Lock
    <2>2. obj[q] # NULL /\ obj[q].id # NULL =>
            /\ obj[q].id < nextCracker
            /\ obj[q].id \in DOMAIN crackers => crackers[obj[q].id].ip = obj[q].row.ip
      BY DEF IndInv, StoreOK, ObjectsOK
    <2>3. QED
      BY <1>1, <1>2, <2>1, <2>2, TablesKept DEF IndInv, RequestCritical
  <1>5. CASE UnlockHost(q) \/ FailRequest(q)
    <2>1. UNCHANGED tables /\ pc'[q] \in {"idle", "lock"} /\ obj'[q] = NULL
      BY <1>2, <1>5 DEF UnlockHost, FailRequest, Finish
    <2>2. QED
      BY <1>1, <1>2, <2>1, TablesKept DEF IndInv, RequestCritical
  <1>6. CASE FindCracker(q)
    <2>1. UNCHANGED <<tables, todo, rpt>> /\ pc[q] = "find"
      BY <1>6 DEF FindCracker
    <2>2. \/ \E c \in DOMAIN crackers :
               /\ obj'[q].id = c /\ obj'[q].row = crackers[c]
               /\ crackers[c].ip = HostOf(q) /\ pc'[q] = "reports"
          \/ /\ \A c \in DOMAIN crackers : crackers[c].ip # HostOf(q)
             /\ obj'[q].id = NULL /\ pc'[q] = "create"
      BY <1>2, <1>6 DEF FindCracker
    <2>3. CreateIsFresh'
      BY <1>1, <2>1, <2>2 DEF IndInv, StoreOK, CreateIsFresh, HostOf
    <2>4. NoDanglingReport'
      BY <2>1 DEF IndInv, StoreOK, NoDanglingReport
    <2>5. ObjectsOK'
      <3>1. DOMAIN crackers \subseteq 1..(nextCracker - 1) /\ nextCracker \in Nat
        BY DEF IndInv, TypeOK, TablesOK, Id
      <3>2. QED
        BY <1>1, <2>1, <2>2, <3>1 DEF IndInv, StoreOK, ObjectsOK, RequestCritical
    <2>6. DropsOK'
      BY <1>3, <2>1 DEF IndInv, StoreOK, DropsOK, ReportsOf
    <2>7. QED
      BY <2>3, <2>4, <2>5, <2>6 DEF StoreOK
  <1>7. CASE CreateCracker(q)
    <2> DEFINE row == obj[q].row
    <2>1. /\ UNCHANGED <<reportTable, todo, rpt>> /\ pc[q] = "create" /\ pc'[q] = "reports"
          /\ crackers' = InsertRow(crackers, nextCracker, row)
          /\ nextCracker' = nextCracker + 1
      BY <1>2, <1>7 DEF CreateCracker
    <2>2. obj[q] \in CrackerObj /\ row.ip = HostOf(q)
      BY <1>7, RequestHolds DEF CreateCracker, RequestCritical, IndInv
    <2>3. obj'[q].id = nextCracker /\ obj'[q].row = row
      BY <1>2, <1>7, <2>2 DEF CreateCracker, CrackerObj
    <2>4. DOMAIN crackers \subseteq 1..(nextCracker - 1) /\ nextCracker \in Id
      BY DEF IndInv, TypeOK, TablesOK
    <2> HIDE DEF row
    <2>5. /\ DOMAIN crackers' = DOMAIN crackers \cup {nextCracker}
          /\ nextCracker \notin DOMAIN crackers
          /\ crackers'[nextCracker] = row
          /\ \A c \in DOMAIN crackers : crackers'[c] = crackers[c]
      BY <2>1, <2>4 DEF InsertRow, Id
    <2>6. CreateIsFresh'
      <3>1. \A c \in DOMAIN crackers : crackers[c].ip # HostOf(q)
        BY <2>1 DEF IndInv, StoreOK, CreateIsFresh
      <3>2. \A u \in Request \ {q} : pc[u] = "create" => HostOf(u) # HostOf(q)
        BY <2>1 DEF IndInv, LocksOK, MutualExclusion, InCritical, RequestCritical
      <3>3. QED
        BY <1>1, <2>1, <2>2, <2>5, <3>1, <3>2 DEF IndInv, StoreOK, CreateIsFresh
    <2>7. NoDanglingReport'
      BY <2>1, <2>5 DEF IndInv, StoreOK, NoDanglingReport
    <2>8. ObjectsOK'
      <3>1. \A u \in Task \ {q} : obj[u] # NULL /\ obj[u].id # NULL =>
              obj[u].id \in Id /\ obj[u].id < nextCracker
        BY <1>2 DEF IndInv, StoreOK, ObjectsOK, CrackerObj
      <3>2. QED
        BY <1>1, <2>1, <2>3, <2>4, <2>5, <3>1
        DEF IndInv, StoreOK, ObjectsOK, RequestCritical, Id
    <2>9. DropsOK'
      BY <1>3, <2>1 DEF IndInv, StoreOK, DropsOK, ReportsOf
    <2>10. QED
      BY <2>6, <2>7, <2>8, <2>9 DEF StoreOK
  <1>8. CASE FindReports(q)
    <2>1. UNCHANGED <<tables, todo>> /\ pc[q] = "reports"
      BY <1>8 DEF FindReports
    <2>2. obj[q] \in CrackerObj /\ obj[q].row \in CrackerRow
      BY <2>1, RequestHolds DEF RequestCritical, IndInv
    <2>3. obj'[q].id = obj[q].id /\ obj'[q].row.ip = obj[q].row.ip
      <3>1. CASE UNCHANGED obj
        BY <2>2, <3>1
      <3>2. CASE obj' = [obj EXCEPT ![q].row.current = @ + 1]
        <4> DEFINE row == [obj[q].row EXCEPT !.current = @ + 1]
                   o == [obj[q] EXCEPT !.row = row]
        <4>1. row.ip = obj[q].row.ip
          BY <2>2 DEF CrackerRow
        <4>2. obj' = [obj EXCEPT ![q] = o]
          BY <3>2
        <4> HIDE DEF row
        <4>3. o.id = obj[q].id /\ o.row = row
          BY <2>2 DEF CrackerObj
        <4>4. QED
          BY <1>2, <4>1, <4>2, <4>3
      <3>3. QED
        BY <1>8, <3>1, <3>2 DEF FindReports
    <2>4. \/ pc'[q] \in {"insert", "save"}
          \/ pc'[q] = "touch" /\ rpt'[q].row.cracker = obj[q].id
      <3>1. ASSUME NEW r \in Latest(ReportsBy(obj[q].id, sub[q].client))
            PROVE  [reports[r] EXCEPT !.latest = sub[q].when].cracker = obj[q].id
        <4>1. r \in DOMAIN reports /\ reports[r].cracker = obj[q].id
          BY DEF Latest, ReportsBy, ReportsOf
        <4>2. reports[r] \in ReportRow
          BY <4>1 DEF IndInv, TypeOK, TablesOK
        <4>3. QED
          BY <4>1, <4>2 DEF ReportRow
      <3>2. \/ pc' \in {[pc EXCEPT ![q] = "insert"], [pc EXCEPT ![q] = "save"]}
            \/ /\ pc' = [pc EXCEPT ![q] = "touch"]
               /\ \E r \in Latest(ReportsBy(obj[q].id, sub[q].client)) :
                    rpt' = [rpt EXCEPT ![q] =
                              [id |-> r, row |-> [reports[r] EXCEPT !.latest = sub[q].when]]]
        BY <1>8 DEF FindReports
      <3>3. CASE pc' \in {[pc EXCEPT ![q] = "insert"], [pc EXCEPT ![q] = "save"]}
        BY <1>2, <3>3
      <3>4. CASE pc' = [pc EXCEPT ![q] = "touch"]
        <4>1. PICK r \in Latest(ReportsBy(obj[q].id, sub[q].client)) :
                rpt' = [rpt EXCEPT ![q] =
                          [id |-> r, row |-> [reports[r] EXCEPT !.latest = sub[q].when]]]
          BY <1>2, <3>2, <3>4
        <4> DEFINE row == [reports[r] EXCEPT !.latest = sub[q].when]
        <4>2. row.cracker = obj[q].id
          BY <3>1
        <4> HIDE DEF row
        <4>3. rpt' = [rpt EXCEPT ![q] = [id |-> r, row |-> row]]
          BY <4>1 DEF row
        <4>4. QED
          BY <1>2, <3>4, <4>2, <4>3
      <3>5. QED
        BY <3>2, <3>3, <3>4
    <2>5. CreateIsFresh'
      BY <1>1, <2>1, <2>4 DEF IndInv, StoreOK, CreateIsFresh, HostOf
    <2>6. NoDanglingReport'
      BY <2>1 DEF IndInv, StoreOK, NoDanglingReport
    <2>7. ObjectsOK'
      BY <1>1, <1>2, <2>1, <2>2, <2>3, <2>4 DEF IndInv, StoreOK, ObjectsOK, RequestCritical
    <2>8. DropsOK'
      BY <1>3, <2>1 DEF IndInv, StoreOK, DropsOK, ReportsOf
    <2>9. QED
      BY <2>5, <2>6, <2>7, <2>8 DEF StoreOK
  <1>9. CASE InsertReport(q)
    <2> DEFINE row == [cracker |-> NULL, ip |-> sub[q].client,
                       first |-> sub[q].when, latest |-> sub[q].when]
    <2>1. /\ UNCHANGED <<crackerTable, todo, obj>> /\ pc[q] = "insert" /\ pc'[q] = "link"
          /\ reports' = InsertRow(reports, nextReport, row)
      BY <1>2, <1>9 DEF InsertReport
    <2>2. row.cracker = NULL
      OBVIOUS
    <2> HIDE DEF row
    <2>3. \A r \in DOMAIN reports' :
            \/ reports'[r].cracker = NULL
            \/ r \in DOMAIN reports /\ reports'[r] = reports[r]
      BY <2>1, <2>2 DEF InsertRow
    <2>4. CreateIsFresh'
      BY <1>1, <2>1 DEF IndInv, StoreOK, CreateIsFresh, HostOf
    <2>5. NoDanglingReport'
      BY <2>1, <2>3 DEF IndInv, StoreOK, NoDanglingReport
    <2>6. ObjectsOK'
      BY <1>1, <2>1 DEF IndInv, StoreOK, ObjectsOK, RequestCritical
    <2>7. DropsOK'
      <3>1. ASSUME NEW c, c # NULL, ReportsOf(c) = {}
            PROVE  ReportsOf(c)' = {}
        BY <2>3, <3>1 DEF ReportsOf
      <3>2. \A j \in Job : pc[j] \in {"writeback", "drop"} => obj[j].id # NULL
        BY DEF IndInv, LocalsOK, JobCritical
      <3>3. QED
        BY <1>3, <3>1, <3>2 DEF IndInv, StoreOK, DropsOK
    <2>8. QED
      BY <2>4, <2>5, <2>6, <2>7 DEF StoreOK
  <1>10. CASE LinkReport(q)
    <2> DEFINE id == rpt[q].id
               c == obj[q].id
    <2>1. /\ UNCHANGED <<crackerTable, todo, obj>> /\ pc[q] = "link" /\ pc'[q] = "save"
          /\ reports' = SetCracker(reports, id, c)
      BY <1>2, <1>10 DEF LinkReport
    <2>2. c \in DOMAIN crackers
      BY <2>1 DEF IndInv, StoreOK, ObjectsOK, RequestCritical
    <2>3. reports \in [DOMAIN reports -> ReportRow]
      BY DEF IndInv, TypeOK, TablesOK
    <2> HIDE DEF id, c
    <2>4. \A r \in DOMAIN reports' :
            /\ r \in DOMAIN reports
            /\ reports'[r].cracker \in {c, reports[r].cracker}
      BY <2>1, <2>2, <2>3 DEF SetCracker, ReportRow
    <2>5. CreateIsFresh'
      BY <1>1, <2>1 DEF IndInv, StoreOK, CreateIsFresh, HostOf
    <2>6. NoDanglingReport'
      BY <2>1, <2>2, <2>4 DEF IndInv, StoreOK, NoDanglingReport
    <2>7. ObjectsOK'
      BY <1>1, <2>1 DEF IndInv, StoreOK, ObjectsOK, RequestCritical
    <2>8. DropsOK'
      <3>1. ASSUME NEW d, d # c, ReportsOf(d) = {}
            PROVE  ReportsOf(d)' = {}
        BY <2>4, <3>1 DEF ReportsOf
      <3>2. \A j \in Job : pc[j] \in JobCritical => obj[j].id # c
        BY <2>1, DifferentCrackers DEF IndInv, StoreOK, RequestCritical, c
      <3>3. QED
        BY <1>3, <3>1, <3>2 DEF IndInv, StoreOK, DropsOK, JobCritical
    <2>9. QED
      BY <2>5, <2>6, <2>7, <2>8 DEF StoreOK
  <1>11. CASE TouchReport(q)
    <2> DEFINE id == rpt[q].id
               c == obj[q].id
               row == rpt[q].row
    <2>1. /\ UNCHANGED <<crackerTable, todo, obj>> /\ pc[q] = "touch" /\ pc'[q] = "save"
          /\ reports' = UpdateRow(reports, id, row)
      BY <1>2, <1>11 DEF TouchReport
    <2>2. c \in DOMAIN crackers /\ row.cracker = c
      BY <2>1 DEF IndInv, StoreOK, ObjectsOK, RequestCritical
    <2>3. reports \in [DOMAIN reports -> ReportRow]
      BY DEF IndInv, TypeOK, TablesOK
    <2> HIDE DEF id, c, row
    <2>4. \A r \in DOMAIN reports' :
            /\ r \in DOMAIN reports
            /\ reports'[r].cracker \in {c, reports[r].cracker}
      BY <2>1, <2>2, <2>3 DEF UpdateRow
    <2>5. CreateIsFresh'
      BY <1>1, <2>1 DEF IndInv, StoreOK, CreateIsFresh, HostOf
    <2>6. NoDanglingReport'
      BY <2>1, <2>2, <2>4 DEF IndInv, StoreOK, NoDanglingReport
    <2>7. ObjectsOK'
      BY <1>1, <2>1 DEF IndInv, StoreOK, ObjectsOK, RequestCritical
    <2>8. DropsOK'
      <3>1. ASSUME NEW d, d # c, ReportsOf(d) = {}
            PROVE  ReportsOf(d)' = {}
        BY <2>4, <3>1 DEF ReportsOf
      <3>2. \A j \in Job : pc[j] \in JobCritical => obj[j].id # c
        BY <2>1, DifferentCrackers DEF IndInv, StoreOK, RequestCritical, c
      <3>3. QED
        BY <1>3, <3>1, <3>2 DEF IndInv, StoreOK, DropsOK, JobCritical
    <2>9. QED
      BY <2>5, <2>6, <2>7, <2>8 DEF StoreOK
  <1>12. CASE SaveCracker(q)
    <2> DEFINE c == obj[q].id
               row == [obj[q].row EXCEPT !.total = @ + 1, !.latest = sub[q].when,
                         !.resil = sub[q].when - obj[q].row.first]
               o == [obj[q] EXCEPT !.row = row]
    <2>1. /\ UNCHANGED <<reportTable, nextCracker, todo, rpt>>
          /\ pc[q] = "save" /\ pc'[q] = "unlock"
          /\ crackers' = UpdateRow(crackers, c, row)
      BY <1>2, <1>12 DEF SaveCracker
    <2>2. obj[q] \in CrackerObj /\ obj[q].row \in CrackerRow
      BY <2>1, RequestHolds DEF RequestCritical, IndInv
    <2>3. row.ip = obj[q].row.ip
      BY <2>2 DEF CrackerRow
    <2>4. obj' = [obj EXCEPT ![q] = o]
      BY <1>12 DEF SaveCracker
    <2>5. crackers[c].ip = obj[q].row.ip
      BY <2>1 DEF IndInv, LocalsOK, StoreOK, ObjectsOK, RequestCritical
    <2> HIDE DEF row
    <2>6. o.id = c /\ o.row = row
      BY <2>2 DEF CrackerObj
    <2> HIDE DEF o, c
    <2>7. /\ DOMAIN crackers' = DOMAIN crackers
          /\ \A d \in DOMAIN crackers : crackers'[d].ip = crackers[d].ip
      BY <2>1, <2>3, <2>5 DEF UpdateRow
    <2>8. obj'[q].id = obj[q].id /\ obj'[q].row.ip = obj[q].row.ip
      BY <1>2, <2>3, <2>4, <2>6 DEF c
    <2>9. CreateIsFresh'
      BY <1>1, <2>1, <2>7 DEF IndInv, StoreOK, CreateIsFresh, HostOf
    <2>10. NoDanglingReport'
      BY <2>1, <2>7 DEF IndInv, StoreOK, NoDanglingReport
    <2>11. ObjectsOK'
      BY <1>1, <2>1, <2>2, <2>7, <2>8 DEF IndInv, StoreOK, ObjectsOK, RequestCritical
    <2>12. DropsOK'
      BY <1>3, <2>1 DEF IndInv, StoreOK, DropsOK, ReportsOf
    <2>13. QED
      BY <2>9, <2>10, <2>11, <2>12 DEF StoreOK
  <1>13. QED
    BY <1>4, <1>5, <1>6, <1>7, <1>8, <1>9, <1>10, <1>11, <1>12 DEF RequestStep

\* perform_maintenance keeps the two tables consistent.
LEMMA JobStoreStep ==
  ASSUME IndInv, NEW j \in Job, JobStep(j) \/ FailJob(j)
  PROVE  StoreOK'
  <1> USE DEF Task
  <1>1. /\ \A u \in Task \ {j} : pc'[u] = pc[u] /\ obj'[u] = obj[u] /\ rpt'[u] = rpt[u]
        /\ \A u \in Request : HostOf(u)' = HostOf(u)
    BY JobAlone DEF IndInv, HostOf
  <1>2. /\ j \in Task /\ j \notin Request
        /\ pc \in [Task -> RequestLabel \cup JobLabel]
        /\ obj \in [Task -> CrackerObj \cup {NULL}]
        /\ rpt \in [Task -> ReportObj \cup {NULL}]
    BY DEF IndInv, TypeOK, ControlOK, MemoryOK
  <1>3. \A q \in Request : pc'[q] = pc[q] /\ obj'[q] = obj[q] /\ rpt'[q] = rpt[q]
    BY <1>1
  <1>4. CASE StartJob(j) \/ ScanReports(j) \/ Lock(j)
    <2>1. UNCHANGED <<tables, obj>> /\ pc'[j] \in {"idle", "scan", "fetch", "clear"}
      BY <1>2, <1>4 DEF StartJob, ScanReports, Lock
    <2>2. obj[j] # NULL /\ obj[j].id # NULL =>
            /\ obj[j].id < nextCracker
            /\ obj[j].id \in DOMAIN crackers => crackers[obj[j].id].ip = obj[j].row.ip
      BY DEF IndInv, StoreOK, ObjectsOK
    <2>3. QED
      BY <1>1, <1>2, <2>1, <2>2, TablesKept DEF IndInv, RequestCritical
  <1>5. CASE FetchCracker(j)
    <2>1. PICK r \in batch[j] :
            /\ r.row.cracker \in DOMAIN crackers
            /\ obj' = [obj EXCEPT ![j] = [id |-> r.row.cracker,
                                          row |-> crackers[r.row.cracker]]]
      BY <1>5 DEF FetchCracker
    <2> DEFINE c == r.row.cracker
    <2>2. obj'[j].id = c /\ obj'[j].row = crackers[c]
      BY <1>2, <2>1
    <2>3. c \in DOMAIN crackers /\ c < nextCracker
      BY <2>1 DEF IndInv, TypeOK, TablesOK, Id
    <2>4. UNCHANGED tables /\ pc'[j] = "lock"
      BY <1>2, <1>5 DEF FetchCracker
    <2> HIDE DEF c
    <2>5. QED
      BY <1>1, <1>2, <2>2, <2>3, <2>4, TablesKept DEF IndInv, RequestCritical
  <1>6. CASE FetchNoCracker(j) \/ ReleaseHost(j) \/ FailJob(j)
    <2>1. UNCHANGED tables /\ obj'[j] = NULL /\ pc'[j] \in {"idle", "scan", "fetch", "dead"}
      BY <1>2, <1>6 DEF FetchNoCracker, ReleaseHost, FailJob, Die
    <2>2. QED
      BY <1>1, <1>2, <2>1, TablesKept DEF IndInv, RequestCritical
  <1>7. CASE ClearReport(j) \/ DeleteReport(j)
    <2>1. /\ UNCHANGED <<crackerTable, obj>> /\ pc'[j] \in {"delete", "count"}
          /\ \/ reports' = SetCracker(reports, rpt[j].id, NULL)
             \/ reports' = DeleteRow(reports, rpt[j].id)
      BY <1>2, <1>7 DEF ClearReport, DeleteReport
    <2>2. reports \in [DOMAIN reports -> ReportRow]
      BY DEF IndInv, TypeOK, TablesOK
    <2>3. \A r \in DOMAIN reports' :
            /\ r \in DOMAIN reports
            /\ reports'[r].cracker \in {NULL, reports[r].cracker}
      <3> DEFINE id == rpt[j].id
      <3> HIDE DEF id
      <3>1. CASE reports' = SetCracker(reports, id, NULL)
        BY <2>2, <3>1 DEF SetCracker, ReportRow
      <3>2. CASE reports' = DeleteRow(reports, id)
        BY <2>2, <3>2 DEF DeleteRow, Restrict
      <3>3. QED
        BY <2>1, <3>1, <3>2 DEF id
    <2>4. CreateIsFresh'
      BY <1>1, <1>3, <2>1 DEF IndInv, StoreOK, CreateIsFresh
    <2>5. NoDanglingReport'
      BY <2>1, <2>3 DEF IndInv, StoreOK, NoDanglingReport
    <2>6. ObjectsOK'
      BY <1>1, <1>3, <2>1 DEF IndInv, StoreOK, ObjectsOK
    <2>7. DropsOK'
      <3>1. ASSUME NEW c, c # NULL, ReportsOf(c) = {}
            PROVE  ReportsOf(c)' = {}
        BY <2>3, <3>1 DEF ReportsOf
      <3>2. \A i \in Job : pc[i] \in {"writeback", "drop"} => obj[i].id # NULL
        BY DEF IndInv, LocalsOK, JobCritical
      <3>3. QED
        BY <1>1, <2>1, <3>1, <3>2 DEF IndInv, StoreOK, DropsOK
    <2>8. QED
      BY <2>4, <2>5, <2>6, <2>7 DEF StoreOK
  <1>8. CASE CountReporters(j)
    <2> DEFINE reporters == {reports[r].ip : r \in ReportsOf(obj[j].id)}
               row == [obj[j].row EXCEPT !.current = Cardinality(reporters)]
               o == [obj[j] EXCEPT !.row = row]
    <2>1. UNCHANGED tables /\ pc[j] = "count" /\ pc'[j] = "writeback"
      BY <1>2, <1>8 DEF CountReporters
    <2>2. obj[j] \in CrackerObj /\ obj[j].row \in CrackerRow
      BY <2>1, JobHolds DEF JobCritical, IndInv
    <2>3. Cardinality(reporters) = 0 => ReportsOf(obj[j].id) = {}
      <3>1. IsFiniteSet(reporters)
        BY CountType DEF IndInv
      <3>2. Cardinality(reporters) = 0 => reporters = {}
        BY <3>1, FS_EmptySet
      <3>3. QED
        BY <3>2
    <2> HIDE DEF reporters
    <2>4. row.ip = obj[j].row.ip /\ row.current = Cardinality(reporters)
      BY <2>2 DEF CrackerRow
    <2>5. obj' = [obj EXCEPT ![j] = o]
      BY <1>8 DEF CountReporters, reporters
    <2> HIDE DEF row
    <2>6. o.id = obj[j].id /\ o.row = row
      BY <2>2 DEF CrackerObj
    <2> HIDE DEF o
    <2>7. /\ obj'[j].id = obj[j].id /\ obj'[j].row.ip = obj[j].row.ip
          /\ obj'[j].row.current = 0 => ReportsOf(obj[j].id) = {}
      BY <1>2, <2>3, <2>4, <2>5, <2>6
    <2>8. CreateIsFresh'
      BY <1>1, <1>3, <2>1 DEF IndInv, StoreOK, CreateIsFresh
    <2>9. NoDanglingReport'
      BY <2>1 DEF IndInv, StoreOK, NoDanglingReport
    <2>10. ObjectsOK'
      BY <1>1, <1>3, <2>1, <2>2, <2>7 DEF IndInv, StoreOK, ObjectsOK
    <2>11. DropsOK'
      BY <1>1, <2>1, <2>7 DEF IndInv, StoreOK, DropsOK, ReportsOf
    <2>12. QED
      BY <2>8, <2>9, <2>10, <2>11 DEF StoreOK
  <1>9. CASE WriteBackCracker(j)
    <2> DEFINE c == obj[j].id
               row == obj[j].row
    <2>1. /\ UNCHANGED <<reportTable, nextCracker, obj>> /\ pc[j] = "writeback"
          /\ pc'[j] = AfterWriteBack(row.current)
          /\ crackers' = UpdateRow(crackers, c, row)
      BY <1>2, <1>9 DEF WriteBackCracker
    <2>2. c \in DOMAIN crackers => crackers[c].ip = row.ip
      BY <2>1 DEF IndInv, LocalsOK, StoreOK, ObjectsOK, JobCritical
    <2>3. pc'[j] \in {"drop", "release"} /\ (pc'[j] = "drop" => row.current = 0)
      BY <2>1 DEF AfterWriteBack
    <2> HIDE DEF c, row
    <2>4. /\ DOMAIN crackers' = DOMAIN crackers
          /\ \A d \in DOMAIN crackers : crackers'[d].ip = crackers[d].ip
      BY <2>1, <2>2 DEF UpdateRow
    <2>5. CreateIsFresh'
      BY <1>1, <1>3, <2>1, <2>4 DEF IndInv, StoreOK, CreateIsFresh
    <2>6. NoDanglingReport'
      BY <2>1, <2>4 DEF IndInv, StoreOK, NoDanglingReport
    <2>7. ObjectsOK'
      BY <1>1, <1>3, <2>1, <2>4 DEF IndInv, StoreOK, ObjectsOK
    <2>8. DropsOK'
      BY <1>1, <2>1, <2>3 DEF IndInv, StoreOK, DropsOK, ReportsOf, row
    <2>9. QED
      BY <2>5, <2>6, <2>7, <2>8 DEF StoreOK
  <1>10. CASE DropCracker(j)
    <2> DEFINE c == obj[j].id
    <2>1. /\ UNCHANGED <<reportTable, nextCracker, obj>> /\ pc[j] = "drop"
          /\ pc'[j] = "release" /\ crackers' = DeleteRow(crackers, c)
      BY <1>2, <1>10 DEF DropCracker
    <2>2. ReportsOf(c) = {}
      BY <2>1 DEF IndInv, StoreOK, DropsOK
    <2>3. \A q \in Request : pc[q] \in RequestCritical \ {"find", "create"} => obj[q].id # c
      BY <2>1, DifferentCrackers DEF IndInv, StoreOK, JobCritical
    <2> HIDE DEF c
    <2>4. /\ DOMAIN crackers' = DOMAIN crackers \ {c}
          /\ \A d \in DOMAIN crackers' : crackers'[d] = crackers[d]
      BY <2>1 DEF DeleteRow, Restrict
    <2>5. CreateIsFresh'
      BY <1>1, <1>3, <2>1, <2>4 DEF IndInv, StoreOK, CreateIsFresh
    <2>6. NoDanglingReport'
      BY <2>1, <2>2, <2>4 DEF IndInv, StoreOK, NoDanglingReport, ReportsOf
    <2>7. ObjectsOK'
      BY <1>1, <1>3, <2>1, <2>3, <2>4 DEF IndInv, StoreOK, ObjectsOK
    <2>8. DropsOK'
      BY <1>1, <2>1 DEF IndInv, StoreOK, DropsOK, ReportsOf
    <2>9. QED
      BY <2>5, <2>6, <2>7, <2>8 DEF StoreOK
  <1>11. QED
    BY <1>4, <1>5, <1>6, <1>7, <1>8, <1>9, <1>10 DEF JobStep

\* Every step keeps the two tables consistent.
LEMMA StoreOKStep ==
  ASSUME IndInv, [Next]_vars
  PROVE  StoreOK'
  <1>1. ASSUME NEW q \in Request, Accept(q) \/ RequestStep(q) \/ FailRequest(q)
        PROVE  StoreOK'
    BY <1>1, RequestStoreStep
  <1>2. ASSUME NEW j \in Job, JobStep(j) \/ FailJob(j)
        PROVE  StoreOK'
    BY <1>2, JobStoreStep
  <1>3. CASE Restart
    <2>1. /\ UNCHANGED tables /\ \A t \in Task : pc'[t] = "idle" /\ obj'[t] = NULL
      BY <1>3 DEF Restart
    <2>2. CreateIsFresh' /\ NoDanglingReport'
      BY <2>1 DEF IndInv, StoreOK, CreateIsFresh, NoDanglingReport, Task
    <2>3. ObjectsOK' /\ DropsOK'
      BY <2>1 DEF ObjectsOK, DropsOK, RequestCritical, Task
    <2>4. QED
      BY <2>2, <2>3 DEF StoreOK
  <1>4. CASE Tick \/ UNCHANGED vars
    <2>1. UNCHANGED <<tables, pc, locals>>
      BY <1>4 DEF Tick, vars
    <2>2. QED
      BY <2>1 DEF IndInv, StoreOK, CreateIsFresh, NoDanglingReport, ObjectsOK,
                  DropsOK, ReportsOf, HostOf
  <1>5. QED
    BY <1>1, <1>2, <1>3, <1>4 DEF Next, Running

\* The inductive step of the theorems below.
LEMMA IndStep == IndInv /\ [Next]_vars => IndInv'
  BY TypeStep, LockStep, StoreOKStep DEF IndInv

\* The base case: the tables are empty and every task is idle.
LEMMA IndInit == Init => IndInv
  <1>1. Init => StoreOK
    BY DEF Init, StoreOK, CreateIsFresh, NoDanglingReport, ObjectsOK, DropsOK,
           RequestCritical, Task
  <1>2. QED
    BY InitType, InitLocks, <1>1 DEF IndInv

\* No request fails on the unique index of crackers.ip_address: Cracker(...).save()
\* in handle_report_from_client is only reached for a host without a cracker.
THEOREM CreateNeverFails == Spec => []CreateIsFresh
  <1>1. IndInv => CreateIsFresh
    BY DEF IndInv, StoreOK
  <1>2. QED
    BY IndInit, IndStep, <1>1, PTL DEF Spec

\* perform_maintenance never deletes a cracker that a report still refers to, and
\* no request links a report to a cracker that is gone.
THEOREM ReportsHaveCrackers == Spec => []NoDanglingReport
  <1>1. IndInv => NoDanglingReport
    BY DEF IndInv, StoreOK
  <1>2. QED
    BY IndInit, IndStep, <1>1, PTL DEF Spec

================================================================================
