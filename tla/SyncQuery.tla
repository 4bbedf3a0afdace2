------------------------------- MODULE SyncQuery -------------------------------
(***************************************************************************)
(* A denyhosts client that polls views.xmlrpc_get_new_hosts, next to the   *)
(* requests and jobs of ReportStore.                                       *)
(*                                                                         *)
(* A query (controllers.get_qualifying_crackers) is a coroutine too: one   *)
(* SELECT of the candidates, then two for each of them.  It takes no lock, *)
(* so it reads whatever the other tasks have written so far.  The client   *)
(* sends the time stamp of the last answer it got; the first time it       *)
(* sends 0.                                                                *)
(***************************************************************************)
EXTENDS ReportStore

CONSTANTS
  Threshold,    \* min_reports
  Resilience,   \* min_resilience
  MaxReported,  \* the values of config.max_reported_crackers; SIGHUP may change it
  QueriesFail,  \* whether the database operations of a query may fail
  AddedHosts,   \* what the client may send as hosts_added
  MaxPolls      \* bound: number of polls

ASSUME QueryAssumption ==
  /\ Threshold \in Nat \ {0} /\ Resilience \in Int /\ MaxReported \subseteq Nat \ {0}
  /\ AddedHosts \subseteq SUBSET Host
  /\ QueriesFail \in BOOLEAN /\ MaxPolls \in Nat

VARIABLES
  qpc,    \* the operation the query performs next
  polls,  \* number of polls so far
  since,  \* the client: time stamp of the last answer
  told,   \* the client: hosts it was told of or reported itself
  asOf,   \* result['timestamp']
  added,  \* hosts_added
  max,    \* max_crackers
  left,   \* candidates not examined yet
  cand,   \* the Cracker object being examined
  found,  \* result['hosts']
  late,   \* hosts of a report stamped no later than an answer that was not
          \* merged when that answer's candidates were read
  cut     \* hosts left out of an answer that was full

client == <<polls, since, told>>
search == <<asOf, added, max, left, cand, found>>
excuses == <<late, cut>>
queryVars == <<qpc, client, search, excuses>>

\* The 0 of a first poll: long before any report.
Never == -(MaxDelay + 1)

QInit ==
  /\ Init
  /\ qpc = "idle" /\ polls = 0 /\ since = Never /\ told = {}
  /\ asOf = 0 /\ added = {} /\ max = 0 /\ left = {} /\ cand = NULL /\ found = {}
  /\ late = {} /\ cut = {}

--------------------------------------------------------------------------------
(* The conditions of the algorithm.                                           *)

\* Conditions (a) and (b): the WHERE of the first SELECT.
Candidates(prev) ==
  {c \in DOMAIN crackers :
     /\ crackers[c].current >= Threshold
     /\ crackers[c].resil >= Resilience
     /\ crackers[c].latest >= prev}

\* Condition (c): of the reports in the order of their first time, the one that
\* reaches the threshold is not older than prev.
ReachedSince(rows, prev) ==
  Cardinality({r \in rows : reports[r].first < prev}) < Threshold

\* The report shows the resilience that is asked for.
Resilient(r, first) == reports[r].latest - first >= Resilience

\* Condition (d): some report shows it since prev, none did up to prev.
ResilientSince(rows, first, prev) ==
  /\ \E r \in rows : reports[r].latest >= prev /\ Resilient(r, first)
  /\ \A r \in rows : reports[r].latest <= prev => ~Resilient(r, first)

Qualifies(rows, first, prev) ==
  ReachedSince(rows, prev) \/ ResilientSince(rows, first, prev)

--------------------------------------------------------------------------------
(* The query.                                                                 *)

\* Mutant of Poll: the time stamp is that of a moment still to come.
PollAhead ==
  /\ qpc = "idle" /\ polls < MaxPolls
  /\ added' \in AddedHosts /\ max' \in MaxReported
  /\ asOf' = now + 1
  /\ polls' = polls + 1
  /\ qpc' = "select"
  /\ UNCHANGED <<since, told, left, cand, found, excuses>>

\* The answer's time stamp is taken before the first SELECT.
Poll ==
  /\ qpc = "idle" /\ polls < MaxPolls
  /\ added' \in AddedHosts /\ max' \in MaxReported
  /\ asOf' = now
  /\ polls' = polls + 1
  /\ qpc' = "select"
  /\ UNCHANGED <<since, told, left, cand, found, excuses>>

\* The next turn of the loop over the candidates, or its end.
Turn(rest, result) ==
  qpc' = IF rest = {} \/ Cardinality(result) >= max THEN "answer" ELSE "cracker"

HostsOf(q) == {todo[q][i] : i \in DOMAIN todo[q]}

\* The first SELECT.  The hosts the client just reported are skipped.
SelectCandidates ==
  /\ qpc = "select"
  /\ left' = {[id |-> c, ip |-> crackers[c].ip, first |-> crackers[c].first] :
                c \in {c \in Candidates(since) : crackers[c].ip \notin added}}
  /\ Turn(left', found)
  /\ late' = late \cup UNION {HostsOf(q) : q \in {q \in Request : pc[q] # "idle"}}
  /\ UNCHANGED <<client, asOf, added, max, cand, found, cut>>

\* Cracker.find, the youngest cracker first.  It may be gone.
FindCandidate ==
  /\ qpc = "cracker"
  /\ \E c \in left :
       /\ \A d \in left : d.first <= c.first
       /\ left' = left \ {c}
       /\ IF c.id \in DOMAIN crackers
          THEN cand' = [id |-> c.id, row |-> crackers[c.id]] /\ qpc' = "reports"
          ELSE Turn(left', found) /\ UNCHANGED cand
  /\ UNCHANGED <<client, asOf, added, max, found, excuses>>

\* The query ends, and so do its objects.
Forget ==
  /\ qpc' = "idle"
  /\ asOf' = 0 /\ added' = {} /\ max' = 0 /\ left' = {} /\ cand' = NULL /\ found' = {}

\* Fewer reports than the threshold: the log line before the test is an
\* IndexError, and the client gets fault 105 instead of an answer.
TooFewReports == Cardinality(ReportsOf(cand.id)) < Threshold

\* cracker.reports.get and the test of conditions (c) and (d).
ExamineReports ==
  LET rows == ReportsOf(cand.id) IN
  /\ qpc = "reports"
  /\ ~TooFewReports
  /\ found' = found \cup (IF Qualifies(rows, cand.row.first, since)
                          THEN {cand.row.ip} ELSE {})
  /\ cand' = NULL
  /\ Turn(left, found')
  /\ UNCHANGED <<client, asOf, added, max, left, excuses>>

\* Room for one legacy host: find() with limit 1 returns that host or None instead
\* of a list, and the loop over it is a TypeError.
OneLeft == Cardinality(found) = max - 1

\* The query raises: there is no such report or no list of legacy hosts, or a
\* database operation fails.  The client asks again from the same time stamp.
FailQuery ==
  /\ \/ qpc = "reports" /\ TooFewReports
     \/ qpc = "answer" /\ OneLeft
     \/ qpc # "idle" /\ QueriesFail
  /\ Forget
  /\ UNCHANGED <<client, excuses>>

\* Mutant of Answer: the time stamp is taken after the search.
AnswerAfterwards ==
  /\ qpc = "answer" /\ ~OneLeft
  /\ since' = now
  /\ told' = told \cup found \cup added
  /\ cut' = cut \cup {c.ip : c \in left}
  /\ Forget
  /\ UNCHANGED <<polls, late>>

\* The answer.  LegacySync adds the legacy hosts there is room for.
Answer ==
  /\ qpc = "answer" /\ ~OneLeft
  /\ since' = asOf
  /\ told' = told \cup found \cup added
  /\ cut' = cut \cup {c.ip : c \in left}
  /\ Forget
  /\ UNCHANGED <<polls, late>>

--------------------------------------------------------------------------------

\* Up to this moment a report stamped later is one for the next query.
Horizon == IF qpc \in {"idle", "select"} THEN since ELSE asOf

\* A step of the store; a report that arrives late is remembered as such.
StoreStep ==
  /\ Running
  /\ late' = late \cup UNION {HostsOf(q)' :
               q \in {q \in Request : /\ pc[q] = "idle" /\ pc'[q] # "idle"
                                      /\ sub'[q].when <= Horizon}}
  /\ UNCHANGED <<qpc, client, search, cut>>

QueryStep ==
  \/ Poll \/ SelectCandidates \/ FindCandidate \/ ExamineReports \/ Answer
  \/ FailQuery

QNext ==
  \/ StoreStep
  \/ Restart /\ Forget /\ UNCHANGED <<client, excuses>>
  \/ QueryStep /\ UNCHANGED vars

QSpec == QInit /\ [][QNext]_<<vars, queryVars>>

--------------------------------------------------------------------------------
(* Properties.                                                                *)

QTypeOK ==
  /\ qpc \in {"idle", "select", "cracker", "reports", "answer"}
  /\ polls \in 0..MaxPolls /\ since \in Never..now /\ asOf \in 0..now
  /\ max \in MaxReported \cup {0}
  /\ told \subseteq Host /\ found \subseteq Host /\ added \subseteq Host
  /\ late \subseteq Host \cup {BadHost} /\ cut \subseteq Host
  /\ left \subseteq [id : Id, ip : Host, first : Int]
  /\ cand \in CrackerObj \cup {NULL}

\* A host with enough reporters and a report that shows the resilience.
Due(c) ==
  /\ crackers[c].current >= Threshold
  /\ \E r \in ReportsOf(c) : Resilient(r, crackers[c].first)

\* Between two polls of a client, and while no request failed, a host that is due
\* was told to it or will be by the next poll.  The exceptions are the two ways
\* this code has to miss one: the report was late for an answer that carries
\* its time or a later one; the answer was full.
NothingMissed ==
  faults = 0 /\ qpc = "idle" /\ (\A q \in Request : pc[q] = "idle") =>
    \A c \in DOMAIN crackers : Due(c) =>
      \/ crackers[c].ip \in told \cup late \cup cut
      \/ /\ c \in Candidates(since)
         /\ Qualifies(ReportsOf(c), crackers[c].first, since)

================================================================================
