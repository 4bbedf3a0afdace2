------------------------------ MODULE ReportStore ------------------------------
(***************************************************************************)
(* The report store of denyhosts-server: the `crackers' and `reports'      *)
(* tables, the per-host lock, and the two kinds of task that change the    *)
(* tables.                                                                 *)
(*                                                                         *)
(*   - A Request runs controllers.handle_report_from_client, for a client  *)
(*     (views.xmlrpc_add_hosts) or for a peer (peering.handle_update).     *)
(*   - A Job runs controllers.perform_maintenance.                         *)
(*                                                                         *)
(* Tasks are Twisted coroutines: one runs until it yields a database       *)
(* operation, other tasks run meanwhile.  Each database operation is one   *)
(* transaction, so one action here is one database operation together      *)
(* with the synchronous code that follows it, up to the next yield.        *)
(***************************************************************************)
EXTENDS Tables, Integers, Sequences, FiniteSets

CONSTANTS
  Host,         \* valid addresses of attacking hosts
  BadHost,      \* an address utils.is_valid_ip_address rejects
  Client,       \* addresses of the reporting clients
  HostLists,    \* the host lists a report may carry
  Request,      \* slots for concurrently served reports
  Job,          \* slots for concurrently running maintenance jobs
  Loop,         \* the jobs main.schedule_jobs runs; the others are calls of the
                \* debug method xmlrpc_maintenance
  NULL,         \* Python's None, SQL's NULL
  DAY,          \* 24*3600, in the model's unit of time
  EXPIRY,       \* config.expiry_days, in the same unit
  BatchSize,    \* batch_size of perform_maintenance
  MaxDelay,     \* bound: age of a peer's timestamp when it arrives
  MaxTime,      \* bound: the last value of the clock
  MaxAccepted,  \* bound: number of reported hosts accepted
  MaxFaults,    \* bound: number of failures
  FaultKinds    \* the failures considered: "request", "job", "restart"

ASSUME HostAssumption ==
  /\ BadHost \notin Host
  /\ HostLists \subseteq Seq(Host \cup {BadHost})
ASSUME TaskAssumption == Request \cap Job = {} /\ Loop \subseteq Job
ASSUME ClientAssumption == IsFiniteSet(Client)
ASSUME TimeAssumption ==
  /\ DAY \in Nat /\ EXPIRY \in Nat /\ BatchSize \in Nat \ {0}
  /\ MaxDelay \in Nat /\ MaxDelay < EXPIRY
ASSUME BoundAssumption ==
  MaxTime \in Nat /\ MaxAccepted \in Nat /\ MaxFaults \in Nat

VARIABLES
  now,          \* time.time()
  crackers,     \* table: id -> row
  reports,      \* table: id -> row
  nextCracker,  \* AUTOINCREMENT of crackers
  nextReport,   \* AUTOINCREMENT of reports
  busy,         \* utils._hosts_busy
  pc,           \* the operation a task performs next
  todo,         \* per request: hosts left, the current one first
  sub,          \* per request: reporter and time stamp
  obj,          \* per task: the Cracker object it holds in memory
  rpt,          \* per task: the Report object it holds in memory
  limit,        \* per job: expiry limit of this pass
  batch,        \* per job: Report objects of the batch still to be done
  accepted,     \* number of reported hosts accepted so far
  faults        \* number of failures so far

crackerTable == <<crackers, nextCracker>>
reportTable == <<reports, nextReport>>
tables == <<crackerTable, reportTable>>
request == <<todo, sub>>
pass == <<limit, batch>>
locals == <<request, obj, rpt, pass>>
env == <<now, accepted, faults>>
vars == <<env, tables, busy, pc, locals>>

Task == Request \cup Job

--------------------------------------------------------------------------------
(* The two tables, and the objects a task holds of their rows.               *)

CrackerRow == [ip : Host, first : Int, latest : Int, resil : Int,
               total : Nat, current : Nat]
ReportRow  == [cracker : Id \cup {NULL}, ip : Client, first : Int, latest : Int]

CrackerObj == [id : Id \cup {NULL}, row : CrackerRow]
ReportObj  == [id : Id, row : ReportRow]

Stamp == [client : Client, when : Int]

\* A report in service: the stamp and the hosts that are left.
Service == [client : Client, when : Int, hosts : Seq(Host \cup {BadHost})]

ASSUME NullAssumption ==
  /\ NULL \notin Int
  /\ NULL \notin CrackerObj /\ NULL \notin ReportObj /\ NULL \notin Stamp
ASSUME ServiceAssumption == NULL \notin Service

\* BelongsTo.set() and clear(): an UPDATE of one column.
SetCracker(table, id, cracker) ==
  [i \in DOMAIN table |-> IF i = id THEN [table[i] EXCEPT !.cracker = cracker]
                                    ELSE table[i]]

\* The reports that belong to a cracker, and those of one reporter among them.
ReportsOf(c)     == {r \in DOMAIN reports : reports[r].cracker = c}
ReportsBy(c, cl) == {r \in ReportsOf(c) : reports[r].ip = cl}

\* Mutant of Latest: ORDER BY latest_report_time DESC.
Oldest(S) == {r \in S : \A s \in S : reports[s].latest >= reports[r].latest}

\* Last of the rows S in `ORDER BY latest_report_time ASC': ties go either way.
Latest(S) == {r \in S : \A s \in S : reports[s].latest <= reports[r].latest}

--------------------------------------------------------------------------------
(* Control.                                                                   *)

\* Labels of a task that has its host locked: from wait_and_lock_host to the
\* `finally' that unlocks it.
RequestCritical == {"find", "create", "reports", "insert", "link", "touch",
                    "save", "unlock"}
JobCritical     == {"clear", "delete", "count", "writeback", "drop", "release"}

RequestLabel == {"idle", "lock"} \cup RequestCritical
JobLabel     == {"idle", "scan", "fetch", "lock", "dead"} \cup JobCritical

InCritical(t) == pc[t] \in RequestCritical \cup JobCritical

\* The host a task locks: the one it reports, or the cracker of its old report.
HostOf(t) == IF t \in Request THEN Head(todo[t]) ELSE obj[t].row.ip

Init ==
  /\ now = 0 /\ accepted = 0 /\ faults = 0
  /\ crackers = <<>> /\ nextCracker = 1
  /\ reports = <<>> /\ nextReport = 1
  /\ busy = {}
  /\ pc = [t \in Task |-> "idle"]
  /\ todo = [q \in Request |-> <<>>]
  /\ sub = [q \in Request |-> NULL]
  /\ obj = [t \in Task |-> NULL]
  /\ rpt = [t \in Task |-> NULL]
  /\ limit = [j \in Job |-> 0]
  /\ batch = [j \in Job |-> {}]

Goto(t, label) == pc' = [pc EXCEPT ![t] = label]

\* Mutant of Lock: does not wait for the host to be free.
LockAtOnce(t) ==
  /\ pc[t] = "lock"
  /\ busy' = busy \cup {HostOf(t)}
  /\ Goto(t, IF t \in Request THEN "find" ELSE "clear")
  /\ UNCHANGED <<env, tables, locals>>

\* utils.wait_and_lock_host: the 10 ms poll ends once the host is free.  Nobody
\* queues; whoever polls first takes the lock.
Lock(t) ==
  /\ pc[t] = "lock"
  /\ HostOf(t) \notin busy
  /\ busy' = busy \cup {HostOf(t)}
  /\ Goto(t, IF t \in Request THEN "find" ELSE "clear")
  /\ UNCHANGED <<env, tables, locals>>

--------------------------------------------------------------------------------
(* handle_report_from_client and add_report_to_cracker.                       *)

\* The hosts of a list that are reported: those before the first illegal one.
ReportedAt(hosts) == {i \in DOMAIN hosts : BadHost \notin {hosts[k] : k \in 1..i}}
Reported(hosts)   == Cardinality(ReportedAt(hosts))

\* Mutant of Continues: an illegal address is not rejected.
ContinuesUnchecked(hosts) == hosts # <<>>

\* The head of the loop over the hosts: an illegal address raises an exception,
\* which ends the request and leaves the hosts before it recorded.
Continues(hosts) == hosts # <<>> /\ Head(hosts) # BadHost

\* A report arrives.  A client's is stamped with the time of arrival, a peer's
\* carries the stamp the peer gave it.  (If the first host is illegal, nothing
\* happens.)
Accept(q) ==
  /\ pc[q] = "idle"
  /\ \E hosts \in HostLists, client \in Client, delay \in 0..MaxDelay :
       /\ Continues(hosts)
       /\ accepted + Reported(hosts) <= MaxAccepted
       /\ accepted' = accepted + Reported(hosts)
       /\ todo' = [todo EXCEPT ![q] = hosts]
       /\ sub' = [sub EXCEPT ![q] = [client |-> client, when |-> now - delay]]
  /\ Goto(q, "lock")
  /\ UNCHANGED <<now, tables, busy, obj, rpt, pass, faults>>

\* SELECT the cracker; none: make one in memory.
FindCracker(q) ==
  /\ pc[q] = "find"
  /\ \/ \E c \in DOMAIN crackers :
          /\ crackers[c].ip = HostOf(q)
          /\ obj' = [obj EXCEPT ![q] = [id |-> c, row |-> crackers[c]]]
          /\ Goto(q, "reports")
     \/ /\ \A c \in DOMAIN crackers : crackers[c].ip # HostOf(q)
        /\ obj' = [obj EXCEPT ![q] =
                     [id |-> NULL,
                      row |-> [ip |-> HostOf(q), first |-> sub[q].when,
                               latest |-> sub[q].when, resil |-> 0,
                               total |-> 0, current |-> 0]]]
        /\ Goto(q, "create")
  /\ UNCHANGED <<env, tables, busy, request, rpt, pass>>

\* INSERT the new cracker.  The unique index on ip_address would make this
\* fail for a known host: CreateIsFresh says that it never does.
CreateCracker(q) ==
  /\ pc[q] = "create"
  /\ crackers' = InsertRow(crackers, nextCracker, obj[q].row)
  /\ nextCracker' = nextCracker + 1
  /\ obj' = [obj EXCEPT ![q].id = nextCracker]
  /\ Goto(q, "reports")
  /\ UNCHANGED <<env, reportTable, busy, request, rpt, pass>>

\* Mutant of Full: one report too many.
FullLate(mine) == Cardinality(mine) > 3

\* The merging rule keeps at most three reports of a client.
Full(mine) == Cardinality(mine) > 2

\* SELECT this client's reports of the cracker and decide what to do: a first
\* report (which counts the reporter), a second or third one after 24 hours,
\* nothing, or an update of the third.
FindReports(q) ==
  LET mine == ReportsBy(obj[q].id, sub[q].client)
      when == sub[q].when
  IN
  /\ pc[q] = "reports"
  /\ \/ /\ mine = {}
        /\ obj' = [obj EXCEPT ![q].row.current = @ + 1]
        /\ Goto(q, "insert")
        /\ UNCHANGED rpt
     \/ /\ mine # {} /\ ~Full(mine)
        /\ \E r \in Latest(mine) :
             Goto(q, IF when > reports[r].latest + DAY THEN "insert" ELSE "save")
        /\ UNCHANGED <<obj, rpt>>
     \/ /\ Full(mine)
        /\ \E r \in Latest(mine) :
             rpt' = [rpt EXCEPT ![q] =
                       [id |-> r, row |-> [reports[r] EXCEPT !.latest = when]]]
        /\ Goto(q, "touch")
        /\ UNCHANGED obj
  /\ UNCHANGED <<env, tables, busy, request, pass>>

\* report.save(): the row has no cracker yet.
InsertReport(q) ==
  LET row == [cracker |-> NULL, ip |-> sub[q].client,
              first |-> sub[q].when, latest |-> sub[q].when]
  IN
  /\ pc[q] = "insert"
  /\ reports' = InsertRow(reports, nextReport, row)
  /\ nextReport' = nextReport + 1
  /\ rpt' = [rpt EXCEPT ![q] = [id |-> nextReport, row |-> row]]
  /\ Goto(q, "link")
  /\ UNCHANGED <<env, crackerTable, busy, request, obj, pass>>

\* report.cracker.set(cracker): an UPDATE of the one column.
LinkReport(q) ==
  /\ pc[q] = "link"
  /\ reports' = SetCracker(reports, rpt[q].id, obj[q].id)
  /\ rpt' = [rpt EXCEPT ![q] = NULL]
  /\ Goto(q, "save")
  /\ UNCHANGED <<env, crackerTable, nextReport, busy, request, obj, pass>>

\* Mutant of TouchReport: the first report time is set as well.
TouchReportAfresh(q) ==
  /\ pc[q] = "touch"
  /\ reports' = UpdateRow(reports, rpt[q].id,
                          [rpt[q].row EXCEPT !.first = sub[q].when])
  /\ rpt' = [rpt EXCEPT ![q] = NULL]
  /\ Goto(q, "save")
  /\ UNCHANGED <<env, crackerTable, nextReport, busy, request, obj, pass>>

\* latest_report.save(): an UPDATE of every column.
TouchReport(q) ==
  /\ pc[q] = "touch"
  /\ reports' = UpdateRow(reports, rpt[q].id, rpt[q].row)
  /\ rpt' = [rpt EXCEPT ![q] = NULL]
  /\ Goto(q, "save")
  /\ UNCHANGED <<env, crackerTable, nextReport, busy, request, obj, pass>>

\* cracker.save(): an UPDATE of every column from the object in memory.
SaveCracker(q) ==
  LET when == sub[q].when
      row == [obj[q].row EXCEPT !.total = @ + 1, !.latest = when,
                                !.resil = when - obj[q].row.first]
  IN
  /\ pc[q] = "save"
  /\ crackers' = UpdateRow(crackers, obj[q].id, row)
  /\ obj' = [obj EXCEPT ![q].row = row]
  /\ Goto(q, "unlock")
  /\ UNCHANGED <<env, reportTable, nextCracker, busy, request, rpt, pass>>

\* The task forgets its objects: the request is answered.
Finish(q) ==
  /\ Goto(q, "idle")
  /\ todo' = [todo EXCEPT ![q] = <<>>]
  /\ sub' = [sub EXCEPT ![q] = NULL]

\* The `finally' of the loop's body, and the loop's next turn.
UnlockHost(q) ==
  /\ pc[q] = "unlock"
  /\ busy' = busy \ {HostOf(q)}
  /\ obj' = [obj EXCEPT ![q] = NULL]
  /\ IF Continues(Tail(todo[q]))
     THEN /\ todo' = [todo EXCEPT ![q] = Tail(@)]
          /\ Goto(q, "lock")
          /\ UNCHANGED sub
     ELSE Finish(q)
  /\ UNCHANGED <<env, tables, rpt, pass>>

--------------------------------------------------------------------------------
(* perform_maintenance.                                                       *)

\* Mutant of StartJob: forgets to subtract the expiry period.
StartJobLate(j) ==
  /\ pc[j] = "idle"
  /\ limit' = [limit EXCEPT ![j] = now]
  /\ Goto(j, "scan")
  /\ UNCHANGED <<env, tables, busy, request, obj, rpt, batch>>

\* LoopingCall starts a pass; the limit is fixed for the pass.
StartJob(j) ==
  /\ pc[j] = "idle"
  /\ limit' = [limit EXCEPT ![j] = now - EXPIRY]
  /\ Goto(j, "scan")
  /\ UNCHANGED <<env, tables, busy, request, obj, rpt, batch>>

\* SELECT a batch of old reports, in no particular order; none: the pass ends.
\* (It goes on to the legacy table, which nothing here reads.)
ScanReports(j) ==
  LET old == {r \in DOMAIN reports : reports[r].latest < limit[j]}
  IN
  /\ pc[j] = "scan"
  /\ \/ /\ old = {}
        /\ limit' = [limit EXCEPT ![j] = 0]
        /\ Goto(j, "idle")
        /\ UNCHANGED batch
     \/ /\ \E ids \in SUBSET old :
             /\ ids # {}
             /\ Cardinality(ids) <= BatchSize
             /\ Cardinality(ids) < BatchSize => ids = old
             /\ batch' = [batch EXCEPT ![j] =
                            {[id |-> r, row |-> reports[r]] : r \in ids}]
        /\ Goto(j, "fetch")
        /\ UNCHANGED limit
  /\ UNCHANGED <<env, tables, busy, request, obj, rpt>>

\* report.cracker.get(): SELECT the cracker, before its host is locked.
FetchCracker(j) ==
  /\ pc[j] = "fetch"
  /\ \E r \in batch[j] :
       /\ r.row.cracker \in DOMAIN crackers
       /\ obj' = [obj EXCEPT ![j] = [id |-> r.row.cracker,
                                     row |-> crackers[r.row.cracker]]]
       /\ rpt' = [rpt EXCEPT ![j] = r]
       /\ batch' = [batch EXCEPT ![j] = @ \ {r}]
  /\ Goto(j, "lock")
  /\ UNCHANGED <<env, tables, busy, request, limit>>

\* An exception leaves perform_maintenance: LoopingCall does not call it again.
Die(j) ==
  /\ Goto(j, IF j \in Loop THEN "dead" ELSE "idle")
  /\ limit' = [limit EXCEPT ![j] = 0]
  /\ batch' = [batch EXCEPT ![j] = {}]
  /\ obj' = [obj EXCEPT ![j] = NULL]
  /\ rpt' = [rpt EXCEPT ![j] = NULL]

\* report.cracker.get() returns None, and `cracker.ip_address' raises.
FetchNoCracker(j) ==
  /\ pc[j] = "fetch"
  /\ \E r \in batch[j] : r.row.cracker \notin DOMAIN crackers
  /\ Die(j)
  /\ UNCHANGED <<env, tables, busy, request>>

\* report.cracker.clear()
ClearReport(j) ==
  /\ pc[j] = "clear"
  /\ reports' = SetCracker(reports, rpt[j].id, NULL)
  /\ Goto(j, "delete")
  /\ UNCHANGED <<env, crackerTable, nextReport, busy, locals>>

\* Mutant of DeleteReport: the report is only unlinked.
KeepReport(j) ==
  /\ pc[j] = "delete"
  /\ rpt' = [rpt EXCEPT ![j] = NULL]
  /\ Goto(j, "count")
  /\ UNCHANGED <<env, tables, busy, request, obj, pass>>

\* report.delete()
DeleteReport(j) ==
  /\ pc[j] = "delete"
  /\ reports' = DeleteRow(reports, rpt[j].id)
  /\ rpt' = [rpt EXCEPT ![j] = NULL]
  /\ Goto(j, "count")
  /\ UNCHANGED <<env, crackerTable, nextReport, busy, request, obj, pass>>

\* Mutant of CountReporters: counts reports, the GROUP BY is missing.
CountReports(j) ==
  /\ pc[j] = "count"
  /\ obj' = [obj EXCEPT ![j].row.current = Cardinality(ReportsOf(obj[j].id))]
  /\ Goto(j, "writeback")
  /\ UNCHANGED <<env, tables, busy, request, rpt, pass>>

\* cracker.reports.get(group='ip_address'): one row per reporter.
CountReporters(j) ==
  /\ pc[j] = "count"
  /\ obj' = [obj EXCEPT ![j].row.current =
               Cardinality({reports[r].ip : r \in ReportsOf(obj[j].id)})]
  /\ Goto(j, "writeback")
  /\ UNCHANGED <<env, tables, busy, request, rpt, pass>>

\* Mutants of AfterWriteBack: one reporter too early; never.
DropOneTooEarly(current) == IF current <= 1 THEN "drop" ELSE "release"
DropNever(current)       == IF current < 0 THEN "drop" ELSE "release"

\* A cracker without reports is deleted.
AfterWriteBack(current) == IF current = 0 THEN "drop" ELSE "release"

\* cracker.save(): every column of the object FetchCracker read.
WriteBackCracker(j) ==
  /\ pc[j] = "writeback"
  /\ crackers' = UpdateRow(crackers, obj[j].id, obj[j].row)
  /\ Goto(j, AfterWriteBack(obj[j].row.current))
  /\ UNCHANGED <<env, reportTable, nextCracker, busy, locals>>

\* cracker.delete()
DropCracker(j) ==
  /\ pc[j] = "drop"
  /\ crackers' = DeleteRow(crackers, obj[j].id)
  /\ Goto(j, "release")
  /\ UNCHANGED <<env, reportTable, nextCracker, busy, locals>>

\* Mutant of ReleaseHost: there is no `finally'.
KeepHost(j) ==
  /\ pc[j] = "release"
  /\ obj' = [obj EXCEPT ![j] = NULL]
  /\ Goto(j, IF batch[j] = {} THEN "scan" ELSE "fetch")
  /\ UNCHANGED <<env, tables, busy, request, rpt, pass>>

\* The `finally', and the next report or the next batch.
ReleaseHost(j) ==
  /\ pc[j] = "release"
  /\ busy' = busy \ {HostOf(j)}
  /\ obj' = [obj EXCEPT ![j] = NULL]
  /\ Goto(j, IF batch[j] = {} THEN "scan" ELSE "fetch")
  /\ UNCHANGED <<env, tables, request, rpt, pass>>

--------------------------------------------------------------------------------
(* Failures.                                                                  *)

\* Mutant of UnlockOnError: the lock outlives an exception.
LockedOnError(t) == busy' = busy

\* A task holds its lock only inside try/finally.
UnlockOnError(t) == busy' = IF InCritical(t) THEN busy \ {HostOf(t)} ELSE busy

\* A database operation fails before it took effect, or after it did: then the
\* task is at its next label already.  The client gets fault 104.
FailRequest(q) ==
  /\ "request" \in FaultKinds /\ faults < MaxFaults
  /\ pc[q] \in RequestCritical
  /\ UnlockOnError(q)
  /\ Finish(q)
  /\ obj' = [obj EXCEPT ![q] = NULL]
  /\ rpt' = [rpt EXCEPT ![q] = NULL]
  /\ faults' = faults + 1
  /\ UNCHANGED <<now, tables, pass, accepted>>

\* A database operation of a job fails.
FailJob(j) ==
  /\ "job" \in FaultKinds /\ faults < MaxFaults
  /\ pc[j] \in JobCritical \cup {"scan", "fetch"}
  /\ UnlockOnError(j)
  /\ Die(j)
  /\ faults' = faults + 1
  /\ UNCHANGED <<now, tables, request, accepted>>

\* The process dies and is started again: only the tables survive.
Restart ==
  /\ "restart" \in FaultKinds /\ faults < MaxFaults
  /\ busy' = {}
  /\ pc' = [t \in Task |-> "idle"]
  /\ todo' = [q \in Request |-> <<>>]
  /\ sub' = [q \in Request |-> NULL]
  /\ obj' = [t \in Task |-> NULL]
  /\ rpt' = [t \in Task |-> NULL]
  /\ limit' = [j \in Job |-> 0]
  /\ batch' = [j \in Job |-> {}]
  /\ faults' = faults + 1
  /\ UNCHANGED <<now, tables, accepted>>

\* Time passes.  No request stays in flight until its own report is expired.
Tick ==
  /\ now < MaxTime
  /\ \A q \in Request : pc[q] # "idle" => now + 1 - sub[q].when < EXPIRY
  /\ now' = now + 1
  /\ UNCHANGED <<tables, busy, pc, locals, accepted, faults>>

--------------------------------------------------------------------------------

RequestStep(q) ==
  \/ Lock(q) \/ FindCracker(q) \/ CreateCracker(q) \/ FindReports(q)
  \/ InsertReport(q) \/ LinkReport(q) \/ TouchReport(q) \/ SaveCracker(q)
  \/ UnlockHost(q)

JobStep(j) ==
  \/ StartJob(j) \/ ScanReports(j) \/ FetchCracker(j) \/ FetchNoCracker(j)
  \/ Lock(j) \/ ClearReport(j) \/ DeleteReport(j) \/ CountReporters(j)
  \/ WriteBackCracker(j) \/ DropCracker(j) \/ ReleaseHost(j)

Running ==
  \/ \E q \in Request : Accept(q) \/ RequestStep(q) \/ FailRequest(q)
  \/ \E j \in Job : JobStep(j) \/ FailJob(j)
  \/ Tick

Next == Running \/ Restart

Spec == Init /\ [][Next]_vars

\* Every database operation returns, every poll of a free host succeeds, and
\* LoopingCall starts the next pass.  Nothing makes reports arrive or time pass.
Fairness ==
  /\ \A q \in Request : WF_vars(RequestStep(q))
  /\ \A j \in Job : WF_vars(JobStep(j))

FairSpec == Spec /\ Fairness
--------------------------------------------------------------------------------
(* Properties.                                                                *)

TablesOK ==
  /\ nextCracker \in Id /\ nextReport \in Id
  /\ DOMAIN crackers \subseteq 1..(nextCracker - 1)
  /\ crackers \in [DOMAIN crackers -> CrackerRow]
  /\ DOMAIN reports \subseteq 1..(nextReport - 1)
  /\ reports \in [DOMAIN reports -> ReportRow]

ControlOK ==
  /\ now \in Nat /\ accepted \in Nat /\ faults \in Nat
  /\ busy \subseteq Host
  /\ pc \in [Task -> RequestLabel \cup JobLabel]
  /\ \A q \in Request : pc[q] \in RequestLabel
  /\ \A j \in Job : pc[j] \in JobLabel

MemoryOK ==
  /\ todo \in [Request -> Seq(Host \cup {BadHost})]
  /\ sub \in [Request -> Stamp \cup {NULL}]
  /\ obj \in [Task -> CrackerObj \cup {NULL}]
  /\ rpt \in [Task -> ReportObj \cup {NULL}]
  /\ limit \in [Job -> Int]
  /\ batch \in [Job -> SUBSET ReportObj]

TypeOK == TablesOK /\ ControlOK /\ MemoryOK

\* The lock on a host excludes: two tasks are never both between
\* wait_and_lock_host and unlock_host of the same host.
MutualExclusion ==
  \A t, u \in Task :
    t # u /\ InCritical(t) /\ InCritical(u) => HostOf(t) # HostOf(u)

\* _hosts_busy is exactly the set of hosts being worked on: no path through the
\* code, errors and restarts included, leaks a lock or frees another's.
LocksAreHeld == busy = {HostOf(t) : t \in {u \in Task : InCritical(u)}}

\* Between the SELECT that finds no cracker and the INSERT nobody else creates
\* one, so the unique index on crackers.ip_address never fails a request.
CreateIsFresh ==
  /\ \A c, d \in DOMAIN crackers : crackers[c].ip = crackers[d].ip => c = d
  /\ \A q \in Request : pc[q] = "create" =>
       \A c \in DOMAIN crackers : crackers[c].ip # HostOf(q)

\* A report that has a cracker_id has a cracker: maintenance deletes none that
\* a request found and is linking a report to.
NoDanglingReport ==
  \A r \in DOMAIN reports :
    reports[r].cracker # NULL => reports[r].cracker \in DOMAIN crackers

\* The merging rule's bound: three reports of one client on one host, whatever
\* the requests, maintenance passes and failures in between.
AtMostThree ==
  \A c \in DOMAIN crackers, cl \in Client : Cardinality(ReportsBy(c, cl)) <= 3

\* When a report gets a row of its own, it is more than a day after all the rows that
\* its client has on that host, though these were read three operations earlier, and
\* though reports are stamped before they wait for their turn.
Spaced ==
  [][\A s \in DOMAIN reports', r \in DOMAIN reports :
       /\ s \in DOMAIN reports => reports[s].cracker = NULL
       /\ reports'[s].cracker # NULL
       /\ reports[r].cracker = reports'[s].cracker
       /\ reports[r].ip = reports'[s].ip
       => reports'[s].first > reports[r].latest + DAY]_vars

\* While nobody works on a host and nothing failed, current_reports is the
\* number of clients with a report on it, and there is at least one.
CurrentIsExact ==
  faults = 0 =>
    \A c \in DOMAIN crackers : crackers[c].ip \notin busy =>
      /\ crackers[c].current = Cardinality({reports[r].ip : r \in ReportsOf(c)})
      /\ crackers[c].current > 0

\* A single maintenance job never fails by itself: each report of its batch
\* still has its cracker when its turn comes.
JobSurvives == faults = 0 => \A j \in Job : pc[j] # "dead"

\* Maintenance deletes only reports that had expired when their batch was read.  All that
\* can have happened to one since is that its client refreshed it.
OnlyOldReportsDeleted ==
  [][\A r \in DOMAIN reports \ DOMAIN reports' :
       \E j \in Job :
         /\ pc[j] = "delete" /\ rpt[j].id = r /\ rpt[j].row.latest < now - EXPIRY
         /\ [rpt[j].row EXCEPT !.latest = reports[r].latest, !.cracker = NULL] = reports[r]]_vars

\* Hosts of a request that are not merged into reports, or not counted, yet.
Unmerged(q)  == IF pc[q] \in {"save", "unlock"} THEN Tail(todo[q]) ELSE todo[q]
Uncounted(q) == IF pc[q] = "unlock" THEN Tail(todo[q]) ELSE todo[q]

\* One pair for each report that a total_reports counts, and one for each host of a
\* request that is still to be counted.
Counted == UNION {{c} \X (1..crackers[c].total) : c \in DOMAIN crackers}
ToCount == UNION {{q} \X ReportedAt(Uncounted(q)) : q \in Request}

\* While nothing failed and before anything expires, every host of every report
\* that arrived is counted in total_reports exactly once: no update is lost.
EveryReportCounted ==
  faults = 0 => Cardinality(Counted) + Cardinality(ToCount) = accepted

\* Comment above perform_maintenance: "remove reports with .latestreporttime
\* older than (for example) 1 month and only update cracker.currentreports".
OnlyCurrentUpdated ==
  [][(\E j \in Job : WriteBackCracker(j)) =>
       \A c \in DOMAIN crackers :
         crackers'[c] = [crackers[c] EXCEPT !.current = crackers'[c].current]]_vars

\* Every request is answered: the lock of each of its hosts becomes free.
RequestsAreAnswered == \A q \in Request : pc[q] # "idle" ~> pc[q] = "idle"

\* README.md: "Old reports will be automatically purged by the configurable
\* maintenance job."
Old(r) == r \in DOMAIN reports /\ reports[r].latest < now - EXPIRY
OldReportsArePurged == \A r \in 1..MaxAccepted : Old(r) ~> ~Old(r)

\* Comment above perform_maintenance: "remove crackers that have no reports
\* left".
Empty(c) == c \in DOMAIN crackers /\ ReportsOf(c) = {}
EmptyCrackersAreRemoved == \A c \in 1..MaxAccepted : Empty(c) ~> ~Empty(c)

\* What the ledger sees: the reports that have a cracker, and the requests in service.
Entries ==
  [r \in {r \in DOMAIN reports : reports[r].cracker \in DOMAIN crackers} |->
     [host |-> crackers[reports[r].cracker].ip, client |-> reports[r].ip,
      first |-> reports[r].first, latest |-> reports[r].latest]]

Waiting ==
  [q \in Request |->
     IF pc[q] = "idle" \/ ~Continues(Unmerged(q)) THEN NULL
     ELSE [client |-> sub[q].client, when |-> sub[q].when, hosts |-> Unmerged(q)]]

\* The tables implement the ledger; a request's report is merged by the operation that
\* links or updates a report row, or by the SELECT that finds nothing to be done.
Ledger == INSTANCE ReportLedger WITH ledger <- Entries, pending <- Waiting

ImplementsLedger == Ledger!Spec

--------------------------------------------------------------------------------
(* The inductive invariant behind TypeOK, MutualExclusion, LocksAreHeld,      *)
(* CreateIsFresh and NoDanglingReport.                                        *)

\* What a task holds in memory at each label.
LocalsOK ==
  /\ \A q \in Request :
       /\ pc[q] # "idle" => Continues(todo[q]) /\ sub[q] # NULL
       /\ pc[q] \in RequestCritical \ {"find"} =>
            obj[q] # NULL /\ obj[q].row.ip = HostOf(q)
       /\ pc[q] \in RequestCritical \ {"find", "create"} => obj[q].id # NULL
       /\ pc[q] \in {"link", "touch"} => rpt[q] # NULL
  /\ \A j \in Job :
       /\ pc[j] \in JobCritical \cup {"lock"} => obj[j] # NULL /\ obj[j].id # NULL
       /\ pc[j] \in {"lock", "clear", "delete"} => rpt[j] # NULL

\* A Cracker object in memory has the id of its row, as long as the row exists,
\* and keeps it while its host is locked for a request.
ObjectsOK ==
  /\ \A t \in Task : obj[t] # NULL /\ obj[t].id # NULL =>
       /\ obj[t].id < nextCracker
       /\ obj[t].id \in DOMAIN crackers =>
            crackers[obj[t].id].ip = obj[t].row.ip
  /\ \A q \in Request :
       /\ pc[q] \in RequestCritical \ {"find", "create"} =>
            obj[q].id \in DOMAIN crackers
       /\ pc[q] = "touch" => rpt[q].row.cracker = obj[q].id

\* Maintenance deletes a cracker only while it has no reports.
DropsOK ==
  \A j \in Job :
    /\ pc[j] \in {"writeback", "drop"} /\ obj[j].row.current = 0 =>
         ReportsOf(obj[j].id) = {}
    /\ pc[j] = "drop" => obj[j].row.current = 0

LocksOK == MutualExclusion /\ LocksAreHeld
StoreOK == CreateIsFresh /\ NoDanglingReport /\ ObjectsOK /\ DropsOK

IndInv == TypeOK /\ LocalsOK /\ LocksOK /\ StoreOK
================================================================================
