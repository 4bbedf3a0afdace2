------------------------------ MODULE LegacySync ------------------------------
(***************************************************************************)
(* The hosts that denyhosts-server copies from the legacy server: the      *)
(* `legacy' table, the `last_legacy_sync' entry of the info table, and     *)
(* everything that works on them.                                          *)
(*                                                                         *)
(*   - A Download runs controllers.download_from_legacy_server for a       *)
(*     LoopingCall.  The runs of one LoopingCall never overlap, but SIGHUP *)
(*     replaces the LoopingCall and lets the run it is in go on.           *)
(*   - Maintenance deletes old entries (the end of perform_maintenance).   *)
(*   - A denyhosts client polls and gets legacy hosts where the reported   *)
(*     ones leave room (the end of get_qualifying_crackers).               *)
(*   - While the server is down, the table and the time are purged.        *)
(*                                                                         *)
(* Every database operation and every answer of the legacy server is an    *)
(* action of its own, with the synchronous code that follows it.           *)
(***************************************************************************)
EXTENDS Tables, FiniteSets

CONSTANTS
  Host,         \* addresses the legacy server may publish
  Download,     \* slots for LoopingCalls of the download
  NULL,         \* Python's None
  EXPIRY,       \* config.legacy_expiry_days, in the model's unit of time
  MaxReported,  \* config.max_reported_crackers
  MaxTime,      \* bound: the last value of the clock
  MaxPublished, \* bound: how often the legacy server publishes a host
  MaxReloads,   \* bound: number of SIGHUPs
  MaxPolls,     \* bound: number of polls
  MaxPurges,    \* bound: number of runs of a purge command
  MaxFaults     \* bound: number of failures, of a purge excepted, and stops

ASSUME LegacyAssumption ==
  /\ Host # {} /\ Download # {} /\ IsFiniteSet(Download)
  /\ NULL \notin Int \cup Download \cup [ip : Host, id : Id \cup {NULL}]
  /\ EXPIRY \in Nat /\ MaxReported \in Nat \ {0} /\ MaxTime \in Nat \ {0}

VARIABLES
  now,        \* time.time()
  published,  \* the legacy server: when it last published a host, or NULL
  legacy,     \* table: id -> row
  lastSync,   \* info: last_legacy_sync
  writes,     \* values on their way to lastSync: nobody waits for the UPDATE
  up,         \* the server runs
  job,        \* the slot whose LoopingCall is scheduled; NULL when it has died
  pc,         \* per download: the operation it performs next
  reply,      \* per download: the legacy server's answer, or NULL
  at,         \* per download: when it got the answer
  todo,       \* per download: hosts of the answer still to be stored
  obj,        \* per download: the Legacy object it looked up
  mpc,        \* maintenance: the operation it performs next
  doomed,     \* maintenance: ids of the entries it read
  purge,      \* the purge command: the statement it sends next
  qpc,        \* the poll: the operation it performs next
  asOf,       \* the poll: result['timestamp']
  since,      \* the client: time stamp of the last answer
  told,       \* the client: hosts it was told of
  heard,      \* when the last poll that was answered began
  lost,       \* hosts not stored because something failed, or deleted on purpose
  missed,     \* hosts stored after an answer of a later time than theirs, or left
              \* out of an answer that was full
  count       \* how much of each bound is used up

server    == <<legacy, lastSync, writes>>
downloads == <<job, pc, reply, at, todo, obj>>
pass      == <<mpc, doomed>>
client    == <<qpc, asOf, since, told, heard>>
history   == <<lost, missed>>
clock     == <<now, published>>
vars == <<clock, server, up, purge, downloads, pass, client, history, count>>

LegacyRow == [ip : Host, retrieved : Nat]
Answers   == [hosts : SUBSET Host, stamp : Nat]
Bounds    == [published |-> MaxPublished, reloads |-> MaxReloads,
              polls |-> MaxPolls, purges |-> MaxPurges, faults |-> MaxFaults]

Use(bound) == /\ count[bound] < Bounds[bound]
              /\ count' = [count EXCEPT ![bound] = @ + 1]

Ips(S)   == {legacy[i].ip : i \in S}
Known    == Ips(DOMAIN legacy)
Entry(h) == {i \in DOMAIN legacy : legacy[i].ip = h}
Goto(d, label) == pc' = [pc EXCEPT ![d] = label]

Init ==
  /\ now = 1 /\ published = [h \in Host |-> NULL]
  /\ legacy = <<>> /\ lastSync = 0 /\ writes = {}
  /\ up = TRUE /\ purge = "idle"
  /\ job \in Download
  /\ pc = [d \in Download |-> "idle"]
  /\ reply = [d \in Download |-> NULL] /\ at = [d \in Download |-> 0]
  /\ todo = [d \in Download |-> {}] /\ obj = [d \in Download |-> NULL]
  /\ mpc = "idle" /\ doomed = {}
  /\ qpc = "idle" /\ asOf = 0 /\ since = 0 /\ told = {} /\ heard = 0
  /\ lost = {} /\ missed = {}
  /\ count = [b \in DOMAIN Bounds |-> 0]

--------------------------------------------------------------------------------
(* The download.                                                              *)

\* The legacy server's answer: the hosts published since, and its own time.
Answered(asked) ==
  [hosts |-> {h \in Host : published[h] # NULL /\ published[h] >= asked}, stamp |-> now]

\* Mutant of Ask: asks for what is new from now on.
AskFromNow(d) ==
  /\ up /\ job = d /\ pc[d] = "idle"
  /\ reply' = [reply EXCEPT ![d] = Answered(now)]
  /\ Goto(d, "answer")
  /\ UNCHANGED <<clock, server, up, purge, job, at, todo, obj, pass, client, history,
                 count>>

\* A run of the scheduled LoopingCall: the SELECT of last_legacy_sync, and the call
\* of the legacy server.  Time between the two would only make the answer longer.
Ask(d) ==
  /\ up /\ job = d /\ pc[d] = "idle"
  /\ reply' = [reply EXCEPT ![d] = Answered(lastSync)]
  /\ Goto(d, "answer")
  /\ UNCHANGED <<clock, server, up, purge, job, at, todo, obj, pass, client, history,
                 count>>

\* The SELECT fails outside the try: the LoopingCall ends.
FailRead ==
  /\ up /\ job # NULL /\ pc[job] = "idle"
  /\ Use("faults")
  /\ job' = NULL
  /\ UNCHANGED <<clock, server, up, purge, pc, reply, at, todo, obj, pass,
                 client, history>>

\* The next turn of the loop over the hosts, or the end of the run.
Turn(d, rest, when) ==
  /\ Goto(d, IF rest = {} THEN "idle" ELSE "find")
  /\ at' = [at EXCEPT ![d] = IF rest = {} THEN 0 ELSE when]

\* Mutant of Receive: keeps the local time instead of the legacy server's.
ReceiveAtLocalTime(d) ==
  /\ pc[d] = "answer"
  /\ writes' = writes \cup {now}
  /\ todo' = [todo EXCEPT ![d] = reply[d].hosts]
  /\ reply' = [reply EXCEPT ![d] = NULL]
  /\ Turn(d, reply[d].hosts, now)
  /\ UNCHANGED <<clock, legacy, lastSync, up, purge, job, obj, pass,
                 client, history, count>>

\* The answer arrives: the new sync time is sent to the database at once.
Receive(d) ==
  /\ pc[d] = "answer"
  /\ writes' = writes \cup {reply[d].stamp}
  /\ todo' = [todo EXCEPT ![d] = reply[d].hosts]
  /\ reply' = [reply EXCEPT ![d] = NULL]
  /\ Turn(d, reply[d].hosts, now)
  /\ UNCHANGED <<clock, legacy, lastSync, up, purge, job, obj, pass,
                 client, history, count>>

StoreSyncTime ==
  /\ \E t \in writes : lastSync' = t /\ writes' = writes \ {t}
  /\ UNCHANGED <<clock, legacy, up, purge, downloads, pass, client, history, count>>

\* The UPDATE fails; nobody notices.
LoseSyncTime ==
  /\ Use("faults")
  /\ \E t \in writes : writes' = writes \ {t}
  /\ UNCHANGED <<clock, legacy, lastSync, up, purge, downloads, pass, client,
                 history>>

\* Legacy.find for the next host.
FindLegacy(d) ==
  /\ pc[d] = "find"
  /\ \E h \in todo[d] :
       obj' = [obj EXCEPT ![d] =
         [ip |-> h, id |-> IF Entry(h) = {} THEN NULL ELSE CHOOSE i \in Entry(h) : TRUE]]
  /\ Goto(d, "save")
  /\ UNCHANGED <<clock, server, up, purge, job, reply, at, todo, pass, client,
                 history, count>>

\* AUTOINCREMENT: an id that no row has and that no task knows.
UsedIds == DOMAIN legacy \cup doomed \cup {obj[d].id : d \in {d \in Download : obj[d] # NULL}}
NewId   == CHOOSE i \in 1..(Cardinality(UsedIds) + 1) : i \notin UsedIds

\* Mutant of Clashes: there is no unique index.
ClashesNot(d) == FALSE

\* Another download has inserted the host meanwhile: the unique index refuses it.
Clashes(d) == obj[d].id = NULL /\ Entry(obj[d].ip) # {}

\* legacy.save(): INSERT, or UPDATE of an entry that may be gone.
SaveLegacy(d) ==
  LET h == obj[d].ip  row == [ip |-> h, retrieved |-> at[d]] IN
  /\ pc[d] = "save" /\ ~Clashes(d)
  /\ IF obj[d].id = NULL
     THEN legacy' = InsertRow(legacy, NewId, row)
     ELSE legacy' = UpdateRow(legacy, obj[d].id, row)
  /\ IF obj[d].id \in DOMAIN legacy \cup {NULL}
     THEN /\ lost' = lost \ {h}
          /\ missed' = IF at[d] <= heard THEN missed \cup {h} ELSE missed \ {h}
     ELSE UNCHANGED history
  /\ todo' = [todo EXCEPT ![d] = @ \ {h}]
  /\ obj' = [obj EXCEPT ![d] = NULL]
  /\ Turn(d, todo[d] \ {h}, at[d])
  /\ UNCHANGED <<clock, lastSync, writes, up, purge, job, reply, pass, client, count>>

\* The run ends; the hosts it has not stored are never asked for again.
Abandon(d) ==
  /\ Goto(d, "idle")
  /\ lost' = lost \cup todo[d]
  /\ at' = [at EXCEPT ![d] = 0]
  /\ reply' = [reply EXCEPT ![d] = NULL]
  /\ todo' = [todo EXCEPT ![d] = {}]
  /\ obj' = [obj EXCEPT ![d] = NULL]
  /\ UNCHANGED <<clock, server, up, purge, job, pass, client, missed>>

ClashLegacy(d) == pc[d] = "save" /\ Clashes(d) /\ Abandon(d) /\ UNCHANGED count

\* The legacy server is unreachable, or a database operation fails: one `except'
\* for the whole run.
FailDownload(d) == pc[d] # "idle" /\ Use("faults") /\ Abandon(d)

\* SIGHUP: the LoopingCall is stopped, not the run it is in, and a new one started.
Reload ==
  /\ up /\ job # NULL
  /\ Use("reloads")
  /\ \E d \in Download : d # job /\ pc[d] = "idle" /\ job' = d
  /\ UNCHANGED <<clock, server, up, purge, pc, reply, at, todo, obj, pass,
                 client, history>>

--------------------------------------------------------------------------------
(* Maintenance.                                                               *)

\* The SELECT of the old entries.  The limit was set when the pass began, before it
\* expired the reports.
ScanLegacy ==
  /\ up /\ mpc = "idle"
  /\ \E began \in 1..now :
       doomed' = {i \in DOMAIN legacy : legacy[i].retrieved < began - EXPIRY}
  /\ mpc' = IF doomed' = {} THEN "idle" ELSE "delete"
  /\ UNCHANGED <<clock, server, up, purge, downloads, client, history, count>>

\* legacy.delete() of each of them, whatever became of it.
DeleteLegacy ==
  /\ mpc = "delete"
  /\ \E i \in doomed :
       /\ legacy' = DeleteRow(legacy, i)
       /\ lost' = lost \cup Ips(DOMAIN legacy \cap {i})
       /\ doomed' = doomed \ {i}
  /\ mpc' = IF doomed' = {} THEN "idle" ELSE "delete"
  /\ UNCHANGED <<clock, lastSync, writes, up, purge, downloads, client, missed,
                 count>>

\* An operation fails: the maintenance LoopingCall ends.
FailPass ==
  /\ mpc = "delete" /\ Use("faults")
  /\ mpc' = "dead" /\ doomed' = {}
  /\ UNCHANGED <<clock, server, up, purge, downloads, client, history>>

--------------------------------------------------------------------------------
(* The client.                                                                *)

Poll ==
  /\ up /\ qpc = "idle" /\ Use("polls")
  /\ asOf' = now /\ qpc' = "extras"
  /\ UNCHANGED <<clock, server, up, purge, downloads, pass, since, told, heard, history>>

\* Entries the client has not been told of, as far as the times tell.
Extras == {i \in DOMAIN legacy : legacy[i].retrieved > since}

\* The newest `room' of them.
Newest(room, S) ==
  /\ S \subseteq Extras
  /\ Cardinality(S) = IF Cardinality(Extras) < room THEN Cardinality(Extras) ELSE room
  /\ \A i \in S, k \in Extras \ S : legacy[i].retrieved >= legacy[k].retrieved

\* With room for one entry find() returns that entry, or None, and not a list: the
\* loop over it raises, the client gets a fault and keeps its time stamp.
Fits(room) == room # 1

\* Mutant of Answer: the time stamp is taken after the query.
AnswerAfterwards ==
  /\ qpc = "extras"
  /\ \E room \in 0..MaxReported : Fits(room) /\ \E S \in SUBSET Extras :
       /\ Newest(room, S)
       /\ told' = told \cup Ips(S)
       /\ missed' = (missed \ Ips(S)) \cup Ips(Extras \ S)
  /\ since' = now /\ heard' = asOf
  /\ qpc' = "idle" /\ asOf' = 0
  /\ UNCHANGED <<clock, server, up, purge, downloads, pass, lost, count>>

\* The SELECT of the legacy hosts, and the answer.  The reported hosts leave room
\* for any number of them.
Answer ==
  /\ qpc = "extras"
  /\ \E room \in 0..MaxReported : Fits(room) /\ \E S \in SUBSET Extras :
       /\ Newest(room, S)
       /\ told' = told \cup Ips(S)
       /\ missed' = (missed \ Ips(S)) \cup Ips(Extras \ S)
  /\ since' = asOf /\ heard' = asOf
  /\ qpc' = "idle" /\ asOf' = 0
  /\ UNCHANGED <<clock, server, up, purge, downloads, pass, lost, count>>

FailPoll ==
  /\ qpc = "extras"
  /\ \E room \in 0..MaxReported : ~Fits(room)
  /\ qpc' = "idle" /\ asOf' = 0
  /\ UNCHANGED <<clock, server, up, purge, downloads, pass, since, told, heard, history, count>>

--------------------------------------------------------------------------------
(* Stops, and the commands run meanwhile.                                      *)

\* The server stops, or crashes: its tasks are gone, unsent statements too.
Stop ==
  /\ up /\ Use("faults")
  /\ up' = FALSE /\ writes' = {} /\ job' = NULL
  /\ lost' = lost \cup UNION {todo[d] : d \in Download}
  /\ pc' = [d \in Download |-> "idle"]
  /\ reply' = [d \in Download |-> NULL] /\ at' = [d \in Download |-> 0]
  /\ todo' = [d \in Download |-> {}] /\ obj' = [d \in Download |-> NULL]
  /\ mpc' = "idle" /\ doomed' = {}
  /\ qpc' = "idle" /\ asOf' = 0
  /\ UNCHANGED <<clock, legacy, lastSync, purge, since, told, heard, missed>>

Start ==
  /\ ~up /\ purge = "idle"
  /\ up' = TRUE /\ job' \in Download
  /\ UNCHANGED <<clock, server, purge, pc, reply, at, todo, obj, pass, client,
                 history, count>>

\* purge_legacy_addresses: first the table ...
PurgeTable ==
  /\ ~up /\ purge = "idle" /\ Use("purges")
  /\ legacy' = <<>> /\ lost' = lost \cup Known
  /\ purge' = "stamp"
  /\ UNCHANGED <<clock, lastSync, writes, up, downloads, pass, client,
                 missed>>

\* ... then the time, so that everything is downloaded again.
PurgeSyncTime ==
  /\ purge = "stamp"
  /\ lastSync' = 0 /\ purge' = "idle"
  /\ lost' = {}
  /\ UNCHANGED <<clock, legacy, writes, up, downloads, pass, client, missed,
                 count>>

\* The command fails in between.
FailPurge ==
  /\ purge = "stamp"
  /\ purge' = "idle"
  /\ UNCHANGED <<clock, server, up, downloads, pass, client, history, count>>

\* The last statement of purge_ip.
PurgeIp(h) ==
  /\ ~up /\ purge = "idle" /\ Entry(h) # {} /\ Use("purges")
  /\ legacy' = Restrict(legacy, DOMAIN legacy \ Entry(h))
  /\ lost' = lost \cup {h}
  /\ UNCHANGED <<clock, lastSync, writes, up, purge, downloads, pass, client,
                 missed>>

--------------------------------------------------------------------------------

\* The legacy server publishes a host, for the first time or again.
Publish(h) ==
  /\ Use("published")
  /\ published' = [published EXCEPT ![h] = now]
  /\ UNCHANGED <<now, server, up, purge, downloads, pass, client, history>>

Tick ==
  /\ now < MaxTime /\ now' = now + 1
  /\ UNCHANGED <<published, server, up, purge, downloads, pass, client, history,
                 count>>

DownloadStep(d) ==
  Ask(d) \/ Receive(d) \/ FindLegacy(d) \/ SaveLegacy(d) \/ ClashLegacy(d)

Next ==
  \/ \E d \in Download : DownloadStep(d) \/ FailDownload(d)
  \/ StoreSyncTime \/ LoseSyncTime \/ FailRead \/ Reload
  \/ ScanLegacy \/ DeleteLegacy \/ FailPass
  \/ Poll \/ Answer \/ FailPoll
  \/ Stop \/ Start \/ PurgeTable \/ PurgeSyncTime \/ FailPurge
  \/ \E h \in Host : PurgeIp(h) \/ Publish(h)
  \/ Tick

Spec == Init /\ [][Next]_vars

\* The reactor runs the download again and again, the legacy server answers, and
\* the connection pool gets to every statement.
Fairness ==
  /\ \A d \in Download : WF_vars(DownloadStep(d))
  /\ WF_vars(StoreSyncTime)

FairSpec == Spec /\ Fairness

--------------------------------------------------------------------------------
(* Properties.                                                                *)

\* The types, and the unique index of the table.
TypeOK ==
  /\ now \in 1..MaxTime /\ published \in [Host -> 1..now \cup {NULL}]
  /\ DOMAIN legacy \subseteq Id
  /\ \A i \in DOMAIN legacy : legacy[i] \in LegacyRow
  /\ lastSync \in 0..now /\ writes \subseteq 0..now
  /\ up \in BOOLEAN /\ job \in Download \cup {NULL} /\ purge \in {"idle", "stamp"}
  /\ pc \in [Download -> {"idle", "answer", "find", "save"}]
  /\ at \in [Download -> 0..now]
  /\ reply \in [Download -> Answers \cup {NULL}] /\ todo \in [Download -> SUBSET Host]
  /\ obj \in [Download -> [ip : Host, id : Id \cup {NULL}] \cup {NULL}]
  /\ mpc \in {"idle", "delete", "dead"} /\ doomed \subseteq Id
  /\ qpc \in {"idle", "extras"} /\ asOf \in 0..now /\ since \in 0..now /\ heard \in 0..now
  /\ UNION {told, lost, missed} \subseteq Host
  /\ \A i, k \in DOMAIN legacy : legacy[i].ip = legacy[k].ip => i = k

Pending == UNION {todo[d] : d \in Download}

\* The sync time never runs ahead of the hosts: whatever the legacy server
\* published before the time the next download asks from is in the table or about
\* to be stored, unless something failed while it was being stored or it was
\* deleted as old.  Overlapping downloads write the time in any order.
NoHostSkipped ==
  \A h \in Host : published[h] # NULL /\ published[h] < lastSync =>
    h \in Known \cup Pending \cup lost

\* A legacy host in the table was told to a client that polls, or its time makes it
\* part of the next answer.  The exceptions are the ways this code has to miss one:
\* it was stored later than an answer that bears its time or a later one, or an
\* answer had no room for it.
LegacyNotMissed ==
  \A i \in DOMAIN legacy :
    \/ legacy[i].ip \in told \cup missed
    \/ legacy[i].retrieved > since

\* Every host the legacy server publishes gets into the table, unless something
\* failed on the way or it was deleted as old.
PublishedIsStored ==
  \A h \in Host :
    published[h] # NULL ~> (h \in Known \cup lost \/ job = NULL)
================================================================================
