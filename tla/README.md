# Verification of denyhosts-server

This directory holds TLA+ modules that model denyhosts-server (the code under
`src/denyhosts_server`), TLC configurations that check them on small instances,
and theorems checked by TLAPS. Paths below are relative to
`src/denyhosts_server/` unless they start with `src/`.

## The system

denyhosts-server collects reports of hosts that attack ssh servers
("crackers") from many clients, and answers clients that ask which hosts to
block. It is one Python process on Twisted. Its code is made of coroutines
(`inlineCallbacks`): a coroutine runs until it yields a Deferred, and others run
meanwhile. Every database operation is a Deferred, run as one transaction by a
pool of threads; so the interleaving that matters is that of database operations
and of the synchronous code between them.

| component | state | operations | used by |
|---|---|---|---|
| report store (`controllers.py`, `models.py`, `utils.py`) | tables `crackers` and `reports`; `_hosts_busy`; the objects each coroutine holds in memory | `handle_report_from_client`, `add_report_to_cracker`, the report part of `perform_maintenance`, `wait_and_lock_host`, `unlock_host` | web views, peering, lifecycle, debug methods |
| sync query (`controllers.get_qualifying_crackers`, `views.xmlrpc_get_new_hosts`) | reads the two tables and `legacy`; the client keeps the time stamp it was given | one query per client call | clients |
| legacy sync (`controllers.download_from_legacy_server`, the legacy part of maintenance, `purge_legacy_addresses`) | table `legacy`, row `last_legacy_sync` of `info` | download, expire, purge | lifecycle, sync query |
| purging (`controllers.purge_reported_addresses`, `purge_ip`) | the three tables | command-line options, while no server runs | operator |
| peering (`peering.py`, `peering_views.py`) | keys, list of peers | `send_update`, `handle_update`, `check_peers` | web views, lifecycle |
| bootstrap (`peering.bootstrap_from`, the handlers it calls on the peer) | every table of the local database | `bootstrap_from`, `handle_all_hosts`, `handle_all_reports_for_host`, `handle_dump_table` | operator |
| statistics (`stats.py`) | `_cache`, `_stats_busy`, tables `history` and `country_history` | `update_stats_cache`, `render_stats`, `update_recent_history`, `update_country_history` | lifecycle, web views |
| schema evolution (`database.py`) | `schema_version`, the tables' columns and indexes | `_evolve_database` and its steps, `clean_database` | lifecycle, bootstrap |
| lifecycle (`main.py`) | the LoopingCalls, the listening ports | start, SIGHUP, shutdown | operating system |
| web views, debug methods, configuration | none of their own | translate requests into the calls above | clients |

How they interact. A client calls `add_hosts`: the view stamps the report with
`time.time()`, calls `handle_report_from_client` for the whole list, then sends
the list to every peer. A peer calls `handle_update`, which runs
`handle_report_from_client` with the time stamp the first server gave. A
LoopingCall runs `perform_maintenance` over the same tables. `_hosts_busy` is the
one synchronisation between these: whoever works on a host has it in the set, and
others poll every 10 ms. Two more LoopingCalls download the hosts of a legacy server
and refresh the statistics; SIGHUP replaces all three without waiting for the calls under
way. The commands that purge, recreate, evolve or bootstrap the database run in a
process of their own while the server is down.

### What is hard here

- *Interleaving and atomicity.* Recording one host is up to seven database
  operations; maintenance needs up to seven per old report. Counters are read,
  changed in memory and written back with an UPDATE of every column.
- *Stale data.* Maintenance reads a batch of reports, and each cracker, before it
  has the lock. The sync query takes its time stamp before it reads.
- *Failures.* Every operation may fail; the process may stop between any two.
  The steps of one report are separate transactions; some statements are not even
  waited for; a database commits at every DDL statement of an evolution.
- *Order.* Reports wait for locks after they were stamped; those of peers carry
  older stamps.
- *Liveness.* Waiting for a host is a poll; LoopingCall stops for good when its
  function fails; a page waits for a cache that others fill.
- *Reconfiguration.* SIGHUP and shutdown meet every other activity at any point,
  each other included.
- *Long histories.* The merging rule is about sequences of reports over days, and
  maintenance removes entries from the middle of them.

The hazards, each at its line and with the properties that cover it, are listed
in `PROJECT.json`.

### What makes the components correct

- Report store: the host lock excludes and never leaks; a host has one cracker;
  a report's cracker exists; no report is lost from `total_reports`;
  `current_reports` is the number of reporters; at most three reports per client
  and host, more than a day apart; maintenance removes what is old, only what is
  old, and does not fail on the way.
- Sync query: a host that qualifies is sent to each client that asks, once, and
  none is missed between two calls; a host that does not qualify is not sent.
- Legacy sync: every host of the old server arrives, in spite of overlapping
  downloads; the time asked from never runs ahead of what was stored; a client that polls
  is told of the hosts.
- Peering: a report that was answered has reached every peer that could be called; the
  servers end with the same reports; they never wait for each other for ever.
- Bootstrap: the copy is what the peer has, and its reports have their crackers.
- Schema evolution: a database that claims the latest version is whole, wherever a
  command was killed, and recreating the tables always repairs it.
- Statistics: each day is counted, once and rightly; a page that waits is rendered.
- Lifecycle: refreshes never overlap; after a SIGHUP the server listens; once it stops it
  does not listen again, and it cuts off nobody who holds a lock.

## Plan

| order | module | models | state |
|---|---|---|---|
| 1 | `Tables`, `ReportStore` | report store: requests, maintenance, host lock, failures, restarts | done |
| 2 | `ReportLedger` | abstract specification: the merging rule, one step per report | done, implemented by `ReportStore` (proved) |
| 3 | `ReportStoreProofs` | theorems about `ReportStore` | types, lock and table consistency done |
| 4 | `SyncQuery`, `SyncQueryProofs` | `get_new_hosts` and `get_qualifying_crackers` for a client that polls, composed with the requests and jobs of `ReportStore` | done |
| 5 | `LegacySync` | download, expiry, purge and query of legacy hosts, with failures and stops | done |
| 6 | `Peering` | servers that share reports | done |
| 7 | `SchemaEvolution`, `Bootstrap` | the commands on the database, killed anywhere; copying a peer's tables (extends `SchemaEvolution`) | done |
| 8 | `Statistics` | refresh, history, country totals, page | done |
| 9 | `Lifecycle` | LoopingCalls, SIGHUP, shutdown (extends `Statistics`) | done |
| 10 | `ReportLedgerProofs` | the merging rule, expiry, the refinement of `ReportLedger`, the counters | done |
| 11 | `LegacySyncProofs`, `PeeringProofs`, `BootstrapProofs`, `StatisticsProofs`, `LifecycleProofs` | the safety properties of the other components | done |

Every safety property that a run checks is now a theorem. No module uses a RECURSIVE operator.

## ReportStore

One action is one database operation together with the synchronous code that
follows it up to the next `yield`. The label `pc[t]` names the operation task `t`
performs next.

| state | code |
|---|---|
| `crackers`, `reports`, `nextCracker`, `nextReport` | the two tables and their AUTOINCREMENT counters (`database.py:48-67`) |
| `busy` | `utils._hosts_busy` |
| `todo`, `sub` | the arguments of `handle_report_from_client` |
| `obj`, `rpt` | the `Cracker` and `Report` objects a coroutine holds |
| `limit`, `batch` | locals of `perform_maintenance` |
| `now`, `accepted`, `faults` | the clock, and two counters for properties and bounds |

| actions | code |
|---|---|
| `Accept` | `views.xmlrpc_add_hosts`, `peering.handle_update` up to the first lock |
| `Lock` | `utils.wait_and_lock_host` |
| `FindCracker`, `CreateCracker`, `UnlockHost` | `handle_report_from_client` (`controllers.py:33-51`) |
| `FindReports`, `InsertReport`, `LinkReport`, `TouchReport`, `SaveCracker` | `add_report_to_cracker` (`controllers.py:56-93`) |
| `StartJob`, `ScanReports`, `FetchCracker`, `FetchNoCracker`, `ClearReport` ... `ReleaseHost` | `perform_maintenance` (`controllers.py:180-222`) |
| `FailRequest`, `FailJob` | a database operation raises: `finally`, fault 104, end of the LoopingCall |
| `Restart` | the process dies and is started again |

Decisions worth knowing:

- twistar's `save()` of an object that has an id is an UPDATE of *every* column;
  `BelongsTo.set` and `clear` update one column. An UPDATE or DELETE of a row that
  is gone changes nothing. `twistar` is not part of the repository; its operations
  are modelled from how the code uses them, and are marked external.
- `ORDER BY latest_report_time` does not order ties: `Latest` may return any of
  them. The batch of maintenance is any set of old reports of the right size.
- A failure may come before or after the operation took effect: in the second
  case the task is at its next label when `FailRequest` or `FailJob` happens.
- `LoopingCall` does not call a function again after it raised: a job of `Loop` is
  `dead` then. A job that is not in `Loop` is a call of the debug method
  `xmlrpc_maintenance`, which may overlap the scheduled job and be called again.
- A restart between two operations is possible everywhere; only the tables
  survive.

`ReportLedger` is what the store promises about reports: at most three entries
per host and client; a report is merged once, in the order of its list, by the
rule of `add_report_to_cracker`, in a single step; entries may expire.
`ReportStore` implements it under the mapping `Ledger`: an entry is a report row
whose cracker exists, and the merge happens at `LinkReport`, `TouchReport`, or
the `FindReports` that decides that there is nothing to do. `Entries` and `Waiting` are the
two halves of the mapping: the rows that count, and of each request the hosts that are not
merged yet. Without the host lock this mapping fails.

## SyncQuery

`SyncQuery` extends `ReportStore`: its steps are those of the store and those of one
query, so a query meets every intermediate state of the tables. A query takes no
lock. Its operations are one SELECT of candidates (conditions (a) and (b)), and for each candidate
a SELECT of the cracker and one of its reports (conditions (c) and (d)).

| state | code |
|---|---|
| `since`, `told` | the client: the time stamp it sends next, the hosts it knows |
| `asOf`, `found` | `result['timestamp']`, `result['hosts']` (`views.py:98-105`) |
| `added` | `hosts_added` |
| `left`, `cand` | the candidates left in the loop, the `Cracker` being examined |
| `late`, `cut` | history for `NothingMissed`: why a host may be missed |

| actions | code |
|---|---|
| `Poll` | `xmlrpc_get_new_hosts` up to the first SELECT (`views.py:84-105`) |
| `SelectCandidates`, `FindCandidate`, `ExamineReports` | `get_qualifying_crackers` (`controllers.py:96-156`) |
| `Answer` | the rest of both functions |
| `FailQuery` | an exception: fault 105, and the client keeps its time stamp |

The conditions are written as sets. The order of the reports does not matter: the
report that reaches the threshold is older than the time stamp exactly if at least the threshold
of them are, and the loop for condition (d) ends in `satisfied` exactly if some
report satisfies (d1) and none (d2). The client calls with the time stamp of its last answer,
and first with 0 (`Never`), as the comment at `views.py:94` says denyhosts does. The
legacy hosts that fill up an answer are the subject of `LegacySync`; here the table is
empty, but an answer with room for exactly one of them fails as in the code (`OneLeft`).

## LegacySync

| state | code |
|---|---|
| `published` | the legacy server; external |
| `legacy`, `lastSync` | table `legacy`, row `last_legacy_sync` of `info` |
| `writes` | UPDATEs of that row under way, which line 254 does not wait for |
| `job`, `pc`, `reply`, `at`, `todo`, `obj` | `legacy_sync_job`; per LoopingCall, the locals of `download_from_legacy_server` |
| `mpc`, `doomed` | the legacy part of `perform_maintenance` |
| `qpc`, `asOf`, `since`, `told` | a client's poll |
| `up`, `purge` | the server runs; a purge command's next statement |
| `heard`, `lost`, `missed`, `count` | history for the properties, and bounds |

| actions | code |
|---|---|
| `Ask`, `FailRead` | `controllers.py:240-248` |
| `Receive`, `StoreSyncTime`, `LoseSyncTime` | lines 249-256 and the UPDATE of line 254 |
| `FindLegacy`, `SaveLegacy`, `ClashLegacy`, `FailDownload` | the loop, and the `except` around it |
| `Reload` | `main.schedule_jobs`: another LoopingCall while a run of the old one goes on |
| `ScanLegacy`, `DeleteLegacy`, `FailPass` | lines 224-228 |
| `Poll`, `Answer`, `FailPoll` | lines 160-164 for a client that polls; the number of reported hosts is any number |
| `Stop`, `Start`, `PurgeTable`, `PurgeSyncTime`, `FailPurge`, `PurgeIp` | the server down, and the commands run then |

The order of the SELECTs of a pass is kept: its limit was computed when the pass began.

## Peering

A server's store is abstracted to what `ReportStore` implements, the ledger: recording a
host (`Record`) is one step under the host's lock. What is left of a server is what it can
run out of when servers call each other: host locks, and the threads of
`deferToThread`, one for each call under way.

| state | code |
|---|---|
| `entries`, `busy` | per server: its reports, `_hosts_busy` |
| `report` | `remote_ip`, `now`, `hosts` of `xmlrpc_add_hosts`, and the server |
| `pc`, `todo` | per report and server: `handle_report_from_client` there |
| `left`, `to` | the loop of `send_update` |
| `failed`, `raced` | history: calls that raised; clients that did not wait for their last report |

| actions | code |
|---|---|
| `AddHosts`, `Answer` | `xmlrpc_add_hosts` |
| `Lock`, `Record`, `FailRecord` | `handle_report_from_client` |
| `Call`, `Return`, `FailCall` | `send_update` (`peering.py:42-57`) |
| `Deliver` | `xmlrpc_update`, `handle_update` |
| `Resend` | Python's `xmlrpclib` repeats a request whose connection is reset; external |
| `Crash`, `Boot` | a server stops and starts |

## SchemaEvolution and Bootstrap

`SchemaEvolution` keeps, of a database, the objects that steps add or drop (tables, the columns
and indexes later steps touch) and the version, as committed and as the transaction sees
it. One action is one DDL statement, which commits what went before it, as MySQL and Python's
`sqlite3` do; `EndStep` is the UPDATE of the version, uncommitted until the next DDL
statement or the end. `Script` is the list of statements; what steps compute is left out.

| actions | code |
|---|---|
| `Evolve`, `Recreate` | `main.py:283-289` |
| `DropTable` | `_remove_tables` |
| `SelectVersion`, `ExecuteDdl`, `FailDdl`, `EndStep`, `Commit` | `_evolve_database` and its transaction |
| `Kill` | the process is killed at any statement |

`Bootstrap` extends it with the third command. The local tables are emptied with the
tables that are dropped; `queue` holds the INSERTs that `bootstrap_from` does not wait for;
the peer's tables are changed by its clients and its maintenance at any time.

| actions | code |
|---|---|
| `AskSchema`, `CompareSchemas` | `peering.py:163-175` |
| `GetHosts`, `InsertCracker`, `GetReports`, `CopyTables` | lines 179-209, and the handlers on the peer |
| `InsertReport`, `LoseReport` | an INSERT of line 200 is done, or fails unnoticed |
| `Exit`, `FailCall`, `KillCommand` | `stop_reactor`; an exception; a kill |
| `PeerReport`, `PeerExpire` | a client's report, an expired report at the peer |

## Statistics

Days are the unit of time; a row of `reports` is the days of its first and latest
report; all attackers are from one country. `history` and `totals` are the two tables,
`stage` is where each call of `update_stats_cache` is, `page` each waiting request of the
page. `active`, `blurred`, `skipped` and `escaped` are history for the properties: what was
really reported on a day, what the rows no longer tell, which dates failed, and whether an
exception left the refresh.

| actions | code |
|---|---|
| `AddReport`, `RefreshReport`, `ExpireReport` | what requests and maintenance do to the rows |
| `CallUpdate` | `stats.py:405-414`; a call that finds `_stats_busy` set does nothing |
| `FillHistory`, `AddCountries` | the transactions of lines 417 and 418 |
| `FillCache`, `FailCache`, `Escape` | the `try`; an error inside it; an error before it |
| `GetPage`, `PollPage` | `render_stats` |

Two simplifications: the history uses local days and the country totals days of UTC,
which are the same days here; a total stays at `MaxTotal` once it got there.

## Lifecycle

`Lifecycle` extends `Statistics`: its LoopingCalls of `stats` are the callers of
`update_stats_cache`. The LoopingCalls of a job are numbered by reload; a reload stops the last
one and starts the next. Maintenance and requests are reduced to holding a host's lock.

| state | code |
|---|---|
| `loop`, `current` | the LoopingCalls; `maintenance_job`, `legacy_sync_job`, `stats_job` |
| `port`, `reopen` | `_xmlrpc_listener`; the callback that calls `start_listening` |
| `phase` | where `shutdown` is |
| `request`, `locked` | who holds an entry of `_hosts_busy` |
| `early`, `hasty`, `deaf` | history: who held a lock when the stop began; `shutdown` did not wait; `listenTCP` failed |

| actions | code |
|---|---|
| `Fire`, `EndCall`, `FailCall`, `RefreshStatistics` | LoopingCall and the functions it calls |
| `LockHost`, `UnlockHost`, `LockRequest`, `EndRequest` | host locks |
| `Sighup`, `Reopen` | `sighup_handler`, `schedule_jobs`, `stop_listening`, `start_listening` |
| `BeginStop`, `Closed`, `PollLocks`, `EndStop` | `shutdown` |

A LoopingCall that ended by an exception cannot be stopped (`stop()` asserts that it runs):
`Sighup` then ends where `schedule_jobs` raises, with the jobs before it rescheduled.
`stop_listening` without a listener raises a NameError, as `Deferred` is not imported in
`main.py`. The separate port for the statistics and the debug handler are left out.

## Runs

Runs of the store use `MCReportStore`, those of the query `MCSyncQuery`, those of peering
`MCPeering`; these give the host lists and symmetry sets. The others check the module itself.

| run | what it asks |
|---|---|
| `requests` | Two requests, two hosts, lists cut short by an illegal address: types, exclusion, one cracker per host, no report lost from `total_reports`. |
| `maintenance` | One job expires reports in batches while two requests add to the host, with stamps up to a day late: `current_reports` is exact, the job never dies; with fairness, requests are answered, old reports go, empty crackers go. |
| `faults` | The debug method starts a second pass during the first; two failures or restarts anywhere: no lock leaks, no report refers to a missing cracker, and without failures `current_reports` is exact. |
| `ledger` | Four reports of one client over six days, two at a time, with maintenance and a failure: the tables implement `ReportLedger`; a report starts more than a day after the latest of its client's; each one that maintenance deletes had expired when its batch was read. |
| `sync_query` | Two clients report two hosts, a third polls with threshold 1 and resiliency 1, answers hold one host or three, queries may fail and the server may restart: unless a request was cut off, the client misses a host only if its report was late for an answer or an answer was full. |
| `legacy_sync` | One host published twice, two LoopingCalls of the download, one purge, one failure or stop, one poll: the time asked from does not run ahead, a polling client misses an entry only in the two known ways, what is published is stored. |
| `peering` | Two reports, possibly cut short, reach any of three servers with one thread for calls each; one failure: answered means shared, the servers agree, every request ends. |
| `bootstrap` | Two of the three commands in a row, from an empty database or one of any version, one kill at any statement, one failing call or insert, three changes at the peer: version and schema agree, the copy of a quiet peer is exact, recreating repairs. |
| `statistics` | Two reports in five days, refreshes at any time, one failure: no gaps, right counts, a page is rendered. |
| `lifecycle` | Two reloads and a stop during jobs, refreshes and a request, one failure: no overlap, a stopping server stays closed, no lock is cut off, a reload ends listening. |
| `stale_cracker`, `country_totals` | The two findings below; each run ends in a counterexample. |

Bounds. *Store.* Two requests and two jobs are the least with which two tasks of each
kind meet; exclusion and the table invariants hold for any number by proof. One host is
enough where tasks only meet on a host; two hosts with lists in both orders
are used where a task holding one host waits for another. `MaxAccepted` bounds
the hosts reported; four reports of one client reach the fourth case of the merging
rule (three kept, the fourth moves the latest). `DAY` is 1 and `EXPIRY` 2 to 4 in the
unit of the clock (9 where nothing is to expire), so that a second and third report, and expiry between them,
happen within `MaxTime`. `BatchSize` is 1 or 2, so that passes take several batches
and a batch holds a report another task is changing. `MaxFaults` is at most 2.
`MaxDelay` is the age of a peer's stamp. Two assumptions limit the model: a peer's
stamp is less than `EXPIRY` old when it arrives, and no request is in flight for
longer than `EXPIRY` (`Tick`'s guard); the code assumes both, with an expiry of 30 days by
default.

*Query.* Two polls, so that an answer follows one that missed something. `sync_query` serves one
request at a time, and its stamps come in order: with reports out of order `resiliency`
can go down, and even below zero, and condition (b) then skips the host.

*Legacy sync.* One host and two downloads: the downloads only meet on a host. Two publications
and two times are the least with which an answer is older than another. `EXPIRY` is 0, so
that an entry can expire and return.

*Peering.* Three servers, so that one has two peers and a failure of the first call shows on
the second; two reports, so that two servers call each other; `DAY` is 0, so that
the merging rule tells two times apart. *Bootstrap.* Two hosts, with a report each that the peer
may add to or expire; two commands, so that a kill is followed by another command; peer
versions 7 and 8. *Statistics.* Five days hold a day without a refresh and an expiry of one day;
`MaxTotal` is 1 where totals do not matter and 3 where they do. *Lifecycle.* Two
reloads, so that one can meet another, three LoopingCalls of each job; the data of the
statistics do not matter here and are bounded away.

Runs that do not check deadlock are those in which the system may stop for good: a dead
job, a server that is down or has stopped, or nothing left to accept at the bounds.

Fairness. Arrivals, failures, kills and clocks are never fair.
*Store:* `WF_vars` of each request's and each job's steps: every database
operation returns, a poll of a free host succeeds and LoopingCall starts the next
pass. Nobody queues for a host, so weak fairness of `Lock` does not exclude that others
take it for ever; requests are answered in the model because finitely many reports arrive
(`MaxAccepted`), and in the code unless the arrivals on one host never pause.
*Legacy sync:* each download's next step, and the UPDATE that nobody waits for: the
connection pool gets to it. `PublishedIsStored` excludes what the model records as lost.
*Peering:* each task's next step; a call ends when the peer has answered or cannot be
reached. *Bootstrap:* a command that is not killed goes on. *Statistics:* a LoopingCall calls
again and an update goes on; a page polls. *Lifecycle:* only `Reopen`, the reactor's
callback once a port is closed.

## Findings

1. *Maintenance overwrites counters* (`controllers.py:204-214`, run `stale_cracker`). The
   cracker is read before its host is locked and every column is saved: a report merged
   in between is lost from `total_reports`, and `latest_time` and `resiliency` go back.
   The comment at line 173 says that only `current_reports` is updated.
2. *Country totals grow with every refresh* (`stats.py:418`, `628`, run
   `country_totals`). Each refresh, every ten minutes by default, adds the reports of
   yesterday to totals that already hold them. The row `last_country_history_update` that
   step 8 of the evolution creates is never read.

Seen while modelling, part of the models as the code has it, not the subject of a run:

- A report that is refreshed after maintenance read its batch is deleted although it is
  recent (`controllers.py:199-210`). `OnlyOldReportsDeleted` says what is left: the report had
  expired when its batch was read, and its latest time is all that can differ since.
- A restart between lines 67 and 69 leaves a report without a cracker; once it is old,
  line 205 raises on it in every pass, outside the `try`, and the LoopingCall ends
  each time. `OldReportsArePurged` and `JobSurvives` therefore assume that nothing failed.
- A restart after line 47, or between lines 209 and 218, leaves a cracker without reports,
  which no pass looks at again (`EmptyCrackersAreRemoved` assumes no failure).
- The log line 131 indexes the reports before their number is tested, and maintenance
  deletes reports first and lowers `current_reports` later: the query fails, the
  client asks again (`FailQuery`).
- Condition (a) counts reporters, condition (c) reports: if one client has reported a host
  on two days, a polling client with threshold 2 is not told when a second client does
  (with `Threshold = 2`, TLC finds `NothingMissed` violated).
- An answer with room for exactly one legacy host fails with fault 105, as `find` with `limit=1`
  does not return a list (lines 162-164).
- A list cut short by an illegal address is recorded in part but sent to no peer
  (`views.py:50-52`), though `src/README.md:133` says that peers share reports when received.
- `database.dump_table` has no `return`: a bootstrap copies nothing of `info`, `legacy`,
  `history` and `country_history`.
- An exception of `update_recent_history` or `update_country_history` (`stats.py:417`) leaves
  `_stats_busy` set and ends the LoopingCall: no refresh until the restart.
- An error on one date of the history is swallowed (line 524); once a later date is filled that one is
  never tried again. The day of the first report is never filled outside of an evolution (line 547).
- Once a job's function has raised, every SIGHUP fails at that job (`main.py:193`, `199`,
  `205`): the jobs after it and the port keep their old settings.
- After `listenTCP` failed in a reload, `stop_listening` raises at every later
  SIGHUP (`main.py:124`): the server stays deaf until it is restarted.
- A stop while a reload is between closing and opening the port does not wait for the
  locks: the same NameError ends `shutdown` (`hasty`).
- A command killed between two commits of an evolution step leaves a database that
  `--evolve-database` cannot repair: the step's first statement is refused for ever
  (`StepsFollowOn`). `--recreate-database` can (`RecreateRepairs`).

Ways to miss a host that are part of the design rather than findings, and that
`NothingMissed` and `LegacyNotMissed` name: an answer's time stamp is taken before the query,
reports are stamped before they wait for a lock and legacy hosts before they are stored,
so one may be stored after the query with a stamp before the answer's; and a full answer
moves the client's time stamp past the hosts it left out.

## Theorems

All theorems hold for every value of the constants that satisfies the assumptions named in
the modules, and for the specification with all its failures, restarts and kills. What the assumptions
say: requests and jobs are different tasks (`TaskAssumption`), hosts, lists and records have
the right shape, `NULL` is none of the values it is compared with (`NullAssumption`,
`ServiceAssumption` and parts of the others), there are finitely many clients, downloads or
bootstrapped hosts, bounds and times are natural numbers, and a peer's stamp is less than `EXPIRY` old
when it arrives (`TimeAssumption`). None limits how many requests, jobs, hosts, reports,
servers, polls or failures there are. Three theorems have hypotheses of their own, named in
the table and explained below.

| theorem | property |
|---|---|
| *`ReportStoreProofs`:* `TypeCorrect` | `TypeOK` |
| `LockExcludes`, `LockNeverLeaks` | `MutualExclusion`, `LocksAreHeld` |
| `CreateNeverFails` | `CreateIsFresh` |
| `ReportsHaveCrackers` | `NoDanglingReport` |
| *`ReportLedgerProofs`:* `MergesAtMostThree` | `AtMostThree` |
| `RowsAreSpaced` | `Spaced` |
| `DeletesOnlyOld` | `OnlyOldReportsDeleted` |
| `TablesImplementLedger` | `ImplementsLedger` |
| `ReportersAreCounted` | `CurrentIsExact` |
| `OneJobSurvives`, of at most one job | `JobSurvives` |
| `NoReportIsLost`, without maintenance | `EveryReportCounted` |
| *`SyncQueryProofs`:* `QueriesOnlyRead` | `QSpec => Spec`: to the store a query is a stutter |
| `QueryTypeCorrect` | `QTypeOK` |
| `PollsMissNothing`, of reports one at a time, in order, without maintenance and with threshold 1 | `NothingMissed` |
| *`LegacySyncProofs`:* `LegacyTypes` | `TypeOK` |
| `SyncTimeIsHonest` | `NoHostSkipped` |
| `ClientsAreTold` | `LegacyNotMissed` |
| *`PeeringProofs`:* `PeeringTypes` | `TypeOK` |
| `UpdatesReachPeers` | `ReachesPeers` |
| `ServersAgree` | `LedgersAgree` |
| *`BootstrapProofs`:* `BootstrapTypes` | `TypeOK` |
| `VersionTellsTheTruth`, `StatementsFollowOn` | `VersionIsTrue`, `StepsFollowOn` |
| `BootstrapCopies` | `CopyIsFaithful` |
| `CopiedReportsAreOwned` | `CopiedReportsHaveCrackers` |
| *`StatisticsProofs`:* `RefreshesExclude` | `UpdatesDoNotOverlap` |
| `HistoryHasNoGaps`, `HistoryIsAccurate` | `HistoryIsContiguous`, `HistoryCounts` |
| *`LifecycleProofs`:* `LifecycleTypes` | `TypeOK` |
| `ReloadsDoNotOverlap` | `UpdatesDoNotOverlap`, across reloads |
| `StopIsFinal`, `StopWaitsForLocks` | `ClosedStaysClosed`, `NoLockIsCut` |
| `StatisticsAreDriven` | a step of `Lifecycle` is one of `Statistics` or a stutter |

`QueriesOnlyRead` carries every theorem about the store over to the system with clients
that poll (`QueriesReadConsistentTables` spells it out). `StatisticsAreDriven` carries over those about the
statistics. For each component the inductive invariant is a theorem of its own
(`MergeInvariant`, `LegacyInvariant`, ...); what follows is why it has the parts it has.

*Lock and tables.* `IndInv == TypeOK /\ LocalsOK /\ LocksOK /\ StoreOK`.
`LocalsOK` says what a task holds in memory at each label; without it the type of an
object that may be None cannot be known. `LocksOK` joins exclusion with `LocksAreHeld`:
each is needed for the other, as a lock is granted when the host is not in `busy`. `StoreOK` adds two facts to
the two table properties. `ObjectsOK`: the ids in memory are below the AUTOINCREMENT counter and
keep their address, so a cracker a request has found is in the table until it unlocks.
`DropsOK`: a job that is about to delete a cracker has counted no reports, and there are
still none. The heart of the argument is the lemma `DifferentCrackers`: a request and a job inside
their critical sections hold different crackers, because one cracker is one host and
the lock excludes; so the request never links a report to the cracker the job
deletes, although the job read that cracker before it had the lock.

*Merging and expiry.* `MergeInv` adds what tasks read earlier and act on later. For a request
between its SELECT and its UPDATE: there are still fewer than three reports of its client and
it is still a day after them, or the third is still the latest. For a job: a `Report` object of its batch (`Read`) was old when it was
read, its row is the same one but for its latest time, and it may have lost its cracker. Both survive because rows of a
cracker change under its host's lock only, and ids are never used again.

*The refinement.* Each step of the store maps to one of the ledger or to a stutter: `Accept` to
`Receive`; `LinkReport` to `Add`; `TouchReport` to `Move`; a `FindReports` that goes on to
`save` to `Ignore`; `FailRequest` and `Restart` to `GiveUp`; `ClearReport` to `Expire`; all
others change neither `Entries` nor `Waiting`. `MergeInv` gives the
guards of the ledger's actions at the moment of the last of the store's operations.

*`current_reports`.* `CountsOK` says, of each label, how far the counter in memory and the one in the
table are from the number of reporters. `Own(t, c)` says what a step inside a critical section can change:
rows of cracker `c` and its reports; `OwnIsOwn` that no other task in a critical section holds `c`.
It is exact for overlapping jobs too, as each counts again under the lock.

*A single job.* `SurvivalOK`: a report that has no cracker is in the hands of the task that inserted it or
is deleting it, and the rest of a batch is untouched. A request's new report is not yet old
when it is linked (`StampsRecent`), so a batch never holds one in the making. With two jobs it is false: each may
delete the cracker of the other's batch.

*`total_reports`.* `EveryReportCounted` counts pairs: one for each report a cracker's total counts, one for each
host still to be counted. `TotalsOK` adds that a request's copy of the total is the row's
from its SELECT to its UPDATE. The theorem assumes that there are no jobs: with maintenance
the statement is false (finding 1).

*The query.* `PollInv` follows a host from its report to the answer. `UpToDateOK`: the row of a cracker is no
earlier and no less resilient than its reports, but for the one about to be saved; so a host that shows the
resilience is among the candidates. `ToldOK`: one that showed it up to the client's
time stamp was told, or has an excuse (`late`, `cut`). `SearchOK`: one that showed it up to the answer under way
is in `left`, is `cand`, is in the results or has an excuse. `ShownKept` is the
lemma that makes the unlocked SELECTs harmless: what a request does during a query changes nothing about the time before
the answer's stamp, but for hosts it puts in `late`. The theorem has four hypotheses, and TLC
finds `NothingMissed` violated without any one of them: with maintenance, which writes an old `latest_time` and
`resiliency` back (finding 1); with two requests, where the later report may be merged
first and the earlier one then lowers both; with stamps in the past (`MaxDelay > 0`),
which do the same; and with a threshold of 2, as conditions (a) and (c) count different
things (see *Findings*).

*Legacy sync.* `SyncOK`: what was published before any time that is stored, is being
written by an UPDATE nobody waits for, or was answered to a download, is in the table, on its way into it, or
recorded as lost in a known way.

*Peering.* `AgreeOK`: for each client and host there is a set `B` that every server holds, but for the report
under way (`Common`), of which each server has merged nothing or all (`Had`). With one
report of a client at a time the order is the same at every server.

*Schema and bootstrap.* `Present(k, n)` is the set of objects after statement `n` of step `k`. That each
statement follows on the one before is computed from the scripts once; the invariant
says where in the scripts the database is, by its version. `CopyOK` and `FaithOK` follow the
four places a report of the peer can be: asked for later, in the answer, queued, in the table.

*Statistics.* `Traceable`: until a date is filled, the rows still tell its reports, but for those
that a refresh or the expiry took from it (`blurred`). The dates filled in one refresh follow on the
last one filled, for which the proof takes the earliest and latest of finite sets of days.
*Lifecycle.* An update holds `_stats_busy` whichever LoopingCall it belongs
to (`BusyWhileUpdating`); a reload waits to open the port only while the server runs or is
stopped for good (`ListenerOK`); who held a lock when the stop began still works, until it is done
(`WorkOK`).

The proofs corrected two properties that the runs had not refuted. `CopiedReportsHaveCrackers` was false
when the peer changes three times during a copy (it expires a host's last report and with it the
cracker, creates the cracker anew, and adds a report to it); the property now speaks of the
crackers created since (`renewed`), and the run allows three changes. `OnlyOldReportsDeleted`
said that the first or the latest time of a deleted report had expired, which is false when a
report is refreshed late with a peer's old stamp and several days pass; it now says what the code ensures.

*Only model-checked:* what needs fairness or ENABLED, which TLAPS does not prove:
`RequestsAreAnswered`, `OldReportsArePurged`, `EmptyCrackersAreRemoved`, `PublishedIsStored`,
`AddIsAnswered`, `RecreateRepairs`, `PageIsRendered`, `ListensAgain`.

## Not modelled

- Third-party code in the repository: jQuery and Bootstrap under `src/static/js`, which the
  statistics page loads in a browser. They are copied unchanged and are no part of what
  this server does; every component of the server's own code is listed above.
- The drawing of graphs, GeoIP and DNS look-ups, the cryptography of libnacl, logging,
  the parsing of arguments (an address is valid or it is not), the
  configuration file, packaging and the tests.
- `check_peers` and `list_peers`: they change no state. (`check_peers` calls
  `list_peers` without the `peering.` prefix of the sub-handler, so the call cannot be answered.)
- `purge_reported_addresses` and the first two statements of `purge_ip`, which run alone on a
  database that no server uses.
- `stats.fixup_history_txn` and the data that evolution steps compute.
- The second listening port and the debug sub-handler in `sighup_handler`.
