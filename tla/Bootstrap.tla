------------------------------- MODULE Bootstrap -------------------------------
(***************************************************************************)
(* peering.bootstrap_from: the local database is wiped, recreated, and     *)
(* filled with what a peer has, host by host, while the peer goes on       *)
(* working: its clients report, its maintenance expires reports.           *)
(*                                                                         *)
(* The inserts of reports and of table rows are not waited for: they are   *)
(* queued and carried out one by one; when the command ends normally the   *)
(* queue is worked off first.                                              *)
(***************************************************************************)
EXTENDS SchemaEvolution, Tables

CONSTANTS
  Host,        \* addresses
  PeerVersion, \* schema versions the peer may have
  MaxChanges,  \* bound: changes of the peer's tables
  MaxFaults    \* bound: number of calls and inserts that fail

ASSUME BootstrapAssumption ==
  /\ IsFiniteSet(Host) /\ PeerVersion \subseteq Nat
  /\ MaxChanges \in Nat /\ MaxFaults \in Nat

VARIABLES
  crackers,      \* local table: id -> address
  reports,       \* local table: id -> id of the cracker
  others,        \* local tables of info, legacy, history, country_history that
                 \* have what the peer's have
  peerCrackers,  \* the peer's table: id -> address
  peerReports,   \* the peer's table: id -> id of the cracker
  peerIds,       \* the peer's AUTOINCREMENTs
  peerVersion,   \* the peer's schema version
  remote,        \* remote_schema
  hosts,         \* ids of the peer's crackers still to be copied, with address
  host,          \* the one just copied, or NULL
  queue,         \* inserts under way: id of a report, id of its cracker
  changed,       \* the peer's tables changed since its crackers were read
  renewed,       \* crackers that the peer created since then
  lost,          \* an insert failed
  changes,       \* number of changes of the peer so far
  failures       \* number of failures so far

local   == <<crackers, reports, others>>
peer    == <<peerCrackers, peerReports, peerIds>>
copying == <<remote, hosts, host, queue>>
history == <<changed, renewed, lost>>
counts  == <<changes, failures>>
vars == <<evolutionVars, local, peer, peerVersion, copying, history, counts>>

\* The local database has reports of its own; the peer knows every host.
Init ==
  /\ EvolutionInit
  /\ \E h \in Host : crackers = IF "crackers" \in objects THEN <<h>> ELSE <<>>
  /\ reports = IF "reports" \in objects THEN <<1>> ELSE <<>>
  /\ others = {}
  /\ \E s \in [1..Cardinality(Host) -> Host] :
       /\ \A i, k \in DOMAIN s : s[i] = s[k] => i = k
       /\ peerCrackers = s
  /\ peerReports = [i \in 1..Cardinality(Host) |-> i]
  /\ peerIds = [crackers |-> Cardinality(Host) + 1, reports |-> Cardinality(Host) + 1]
  /\ peerVersion \in PeerVersion
  /\ remote = 0 /\ hosts = {} /\ host = NULL /\ queue = {}
  /\ changed = FALSE /\ renewed = {} /\ lost = FALSE
  /\ changes = 0 /\ failures = 0

--------------------------------------------------------------------------------
(* The command.                                                               *)

Goto(label) == pc' = label /\ UNCHANGED <<schema, mode, place, damaged, bounds>>

StartBootstrap ==
  /\ Command("bootstrap", "ask")
  /\ UNCHANGED <<local, peer, peerVersion, copying, history, counts>>

\* Mutant of AskSchema: the database is not wiped.
AskSchemaOnly ==
  /\ pc = "ask"
  /\ remote' = peerVersion
  /\ Goto("compare")
  /\ UNCHANGED <<local, peer, peerVersion, hosts, host, queue, history, counts>>

\* server.peering.schema_version, then clean_database.
AskSchema ==
  /\ pc = "ask"
  /\ remote' = peerVersion
  /\ Goto("drop")
  /\ UNCHANGED <<local, peer, peerVersion, hosts, host, queue, history, counts>>

\* A table that is dropped loses its rows.
Emptied(table, rows) == IF table \in objects' THEN rows ELSE <<>>

\* The steps of SchemaEvolution.
SchemaStep ==
  /\ EvolutionStep
  /\ crackers' = Emptied("crackers", crackers)
  /\ reports' = Emptied("reports", reports)
  /\ others' = others \cap objects'
  /\ UNCHANGED <<peer, peerVersion, copying, history, counts>>

\* get_schema_version and the comparison.  Different versions end the command, with
\* an empty database.
CompareSchemas ==
  /\ pc = "compare"
  /\ IF remote = (IF version = NULL THEN 0 ELSE version)
     THEN Goto("hosts")
     ELSE Quit /\ UNCHANGED <<damaged, bounds>>
  /\ remote' = 0
  /\ UNCHANGED <<local, peer, peerVersion, hosts, host, queue, history, counts>>

NextHost(left) == Goto(IF left = {} THEN "tables" ELSE "insert")

\* handle_all_hosts: the peer's crackers at this moment.
GetHosts ==
  /\ pc = "hosts"
  /\ hosts' = {[id |-> c, ip |-> peerCrackers[c]] : c \in DOMAIN peerCrackers}
  /\ changed' = FALSE /\ renewed' = {} /\ lost' = FALSE
  /\ NextHost(hosts')
  /\ UNCHANGED <<local, peer, peerVersion, remote, host, queue, counts>>

InsertCracker ==
  /\ pc = "insert"
  /\ \E c \in hosts :
       /\ crackers' = InsertRow(crackers, c.id, c.ip)
       /\ host' = c /\ hosts' = hosts \ {c}
  /\ Goto("reports")
  /\ UNCHANGED <<reports, others, peer, peerVersion, remote, queue, history, counts>>

\* Mutant of ReportsOfHost: all reports of the peer with the first host.
AllReports(ip) ==
  {r \in DOMAIN peerReports : Cardinality(DOMAIN crackers) = 1}

\* Mutant of ReportsOfHost: only the first row of the answer.
FirstReport(ip) ==
  {r \in DOMAIN peerReports :
     /\ peerCrackers[peerReports[r]] = ip
     /\ \A q \in DOMAIN peerReports : peerReports[q] = peerReports[r] => r <= q}

\* dump_reports_for_cracker: of the cracker that has the address now.
ReportsOfHost(ip) ==
  {r \in DOMAIN peerReports : peerCrackers[peerReports[r]] = ip}

\* handle_all_reports_for_host; bootstrap_report for each of them.
GetReports ==
  /\ pc = "reports"
  /\ queue' = queue \cup {[id |-> r, cracker |-> peerReports[r]] : r \in ReportsOfHost(host.ip)}
  /\ host' = NULL
  /\ NextHost(hosts)
  /\ UNCHANGED <<local, peer, peerVersion, remote, hosts, history, counts>>

InsertReport ==
  /\ \E r \in queue :
       /\ r.id \notin DOMAIN reports
       /\ reports' = InsertRow(reports, r.id, r.cracker)
       /\ queue' = queue \ {r}
  /\ UNCHANGED <<evolutionVars, crackers, others, peer, peerVersion, remote, hosts, host,
                 history, counts>>

\* An insert fails; nobody looks at its result.
LoseReport ==
  /\ \E r \in queue :
       /\ queue' = queue \ {r}
       /\ IF r.id \in DOMAIN reports
          THEN UNCHANGED failures
          ELSE failures < MaxFaults /\ failures' = failures + 1
  /\ lost' = TRUE
  /\ UNCHANGED <<evolutionVars, local, peer, peerVersion, remote, hosts, host, changed,
                 renewed, changes>>

\* database.dump_table reads the rows and returns None, which becomes an empty list.
DumpTable(table) == {}

CopyTables ==
  /\ pc = "tables"
  /\ others' = others \cup
       UNION {DumpTable(t) : t \in {"info", "legacy", "history", "country_history"}}
  /\ Goto("exit")
  /\ UNCHANGED <<crackers, reports, peer, peerVersion, copying, history, counts>>

\* stop_reactor: the process ends when the queue is empty.
Exit ==
  /\ pc = "exit" /\ queue = {}
  /\ Begin("off") /\ mode' = "none"
  /\ UNCHANGED <<schema, damaged, bounds, local, peer, peerVersion, copying, history,
                 counts>>

Forget == remote' = 0 /\ hosts' = {} /\ host' = NULL /\ queue' = {}

\* A call of the peer or the insert of a cracker fails.  What was queued is still
\* carried out, then the process ends.
FailCall ==
  /\ pc \in {"ask", "hosts", "insert", "reports", "tables"} /\ failures < MaxFaults
  /\ failures' = failures + 1
  /\ hosts' = {} /\ host' = NULL /\ remote' = 0
  /\ IF pc = "ask" THEN Quit /\ UNCHANGED <<damaged, bounds>> ELSE Goto("exit")
  /\ lost' = TRUE
  /\ UNCHANGED <<local, peer, peerVersion, queue, changed, renewed, changes>>

KillCommand ==
  /\ Kill /\ Forget
  /\ UNCHANGED <<local, peer, peerVersion, history, counts>>

--------------------------------------------------------------------------------
(* The peer.                                                                  *)

Change ==
  /\ changes < MaxChanges /\ changes' = changes + 1
  /\ changed' = TRUE
  /\ UNCHANGED <<evolutionVars, local, peerVersion, copying, lost, failures>>

CrackerOf(ip) == {c \in DOMAIN peerCrackers : peerCrackers[c] = ip}

\* A client of the peer reports a host.
PeerReport(ip) ==
  /\ Change
  /\ IF CrackerOf(ip) = {}
     THEN /\ peerCrackers' = InsertRow(peerCrackers, peerIds.crackers, ip)
          /\ peerReports' = InsertRow(peerReports, peerIds.reports, peerIds.crackers)
          /\ peerIds' = [crackers |-> peerIds.crackers + 1, reports |-> peerIds.reports + 1]
          /\ renewed' = renewed \cup {peerIds.crackers}
     ELSE /\ \E c \in CrackerOf(ip) :
               peerReports' = InsertRow(peerReports, peerIds.reports, c)
          /\ peerIds' = [peerIds EXCEPT !.reports = @ + 1]
          /\ UNCHANGED <<peerCrackers, renewed>>

\* The peer's maintenance expires a report, and the cracker if it was its last.
PeerExpire(r) ==
  LET c == peerReports[r]
      last == \A s \in DOMAIN peerReports \ {r} : peerReports[s] # c
  IN  /\ Change
      /\ peerReports' = DeleteRow(peerReports, r)
      /\ peerCrackers' = IF last THEN DeleteRow(peerCrackers, c) ELSE peerCrackers
      /\ UNCHANGED <<peerIds, renewed>>

PeerStep ==
  (\E ip \in Host : PeerReport(ip)) \/ (\E r \in DOMAIN peerReports : PeerExpire(r))

--------------------------------------------------------------------------------

BootstrapStep ==
  \/ AskSchema \/ CompareSchemas \/ GetHosts \/ InsertCracker \/ GetReports
  \/ InsertReport \/ CopyTables \/ Exit

CommandStep == SchemaStep \/ BootstrapStep

Next ==
  \/ CommandStep \/ FailCall \/ LoseReport \/ KillCommand
  \/ StartBootstrap
  \/ (Evolve \/ Recreate) /\ UNCHANGED <<local, peer, peerVersion, copying, history, counts>>
  \/ PeerStep

Spec == Init /\ [][Next]_vars

\* A command that is not killed goes on.
FairSpec == Spec /\ WF_vars(CommandStep)

--------------------------------------------------------------------------------
(* Properties.                                                                *)

TypeOK ==
  /\ EvolutionTypeOK
  /\ DOMAIN crackers \subseteq Id /\ DOMAIN reports \subseteq Id
  /\ \A c \in DOMAIN crackers : crackers[c] \in Host
  /\ \A c, d \in DOMAIN crackers : crackers[c] = crackers[d] => c = d
  /\ \A c \in DOMAIN peerCrackers : peerCrackers[c] \in Host
  /\ hosts \subseteq [id : Id, ip : Host] /\ host \in [id : Id, ip : Host] \cup {NULL}
  /\ queue \subseteq [id : Id, cracker : Id]
  /\ changed \in BOOLEAN /\ lost \in BOOLEAN /\ renewed \subseteq Id

\* At the end the database has what the peer has, unless the peer's tables changed
\* meanwhile, or a call or an insert failed.
CopyIsFaithful ==
  pc = "exit" /\ queue = {} /\ ~changed /\ ~lost =>
    crackers = peerCrackers /\ reports = peerReports

\* While a peer's tables change, each report that is copied still has its cracker,
\* unless the peer created that cracker, anew for its host, after its crackers were
\* read.
CopiedReportsHaveCrackers ==
  mode = "bootstrap" /\ pc \in {"insert", "reports", "tables", "exit"} =>
    \A r \in DOMAIN reports : reports[r] \in DOMAIN crackers \cup renewed

================================================================================
