---------------------------- MODULE SyncQueryProofs ----------------------------
(***************************************************************************)
(* Theorems about SyncQuery: a query only reads, so everything proved of   *)
(* ReportStore holds with clients that poll; the query's types; and a      *)
(* client that polls misses no host, when reports come one at a time.      *)
(***************************************************************************)
EXTENDS SyncQuery, ReportLedgerProofs

USE DEF env, tables, crackerTable, reportTable, request, pass, locals

\* A query changes nothing that the store works with: to the store it is a
\* stuttering step (get_qualifying_crackers has SELECTs only).
THEOREM QueriesOnlyRead == QSpec => Spec
  <1>1. QInit => Init
    BY DEF QInit
  <1>2. [QNext]_<<vars, queryVars>> => [Next]_vars
    BY DEF QNext, StoreStep, Next
  <1>3. QED
    BY <1>1, <1>2, PTL DEF QSpec, Spec

\* So the tables a query reads are consistent, whatever it interrupts.
COROLLARY QueriesReadConsistentTables ==
  QSpec => [](CreateIsFresh /\ NoDanglingReport)
  BY QueriesOnlyRead, CreateNeverFails, ReportsHaveCrackers, PTL

--------------------------------------------------------------------------------
(* The types of the query.                                                    *)

\* While the reports of a cracker are read, the query holds the cracker.
QLocalsOK == qpc = "reports" => cand # NULL

\* The hosts of a request are addresses.
LEMMA HostsOfType ==
  ASSUME TypeOK, NEW q \in Request
  PROVE  HostsOf(q) \subseteq Host \cup {BadHost}
  <1>1. todo[q] \in Seq(Host \cup {BadHost})
    BY DEF TypeOK, MemoryOK
  <1>2. QED
    BY <1>1 DEF HostsOf

\* Steps of the store keep the types of the query: the clock does not go back.
LEMMA StoreQueryType ==
  ASSUME TypeOK, TypeOK', QTypeOK, QLocalsOK, StoreStep
  PROVE  QTypeOK' /\ QLocalsOK'
  <1>1. now \in Nat /\ now' \in Nat /\ now <= now'
    <2>1. now' = now \/ now' = now + 1
      <3>1. CASE Tick
        BY <3>1 DEF Tick
      <3>2. ASSUME NEW q \in Request, Accept(q) \/ RequestStep(q) \/ FailRequest(q)
            PROVE  now' = now
        BY <3>2 DEF Accept, RequestStep, FailRequest, Lock, FindCracker, CreateCracker,
           FindReports, InsertReport, LinkReport, TouchReport, SaveCracker, UnlockHost
      <3>3. ASSUME NEW j \in Job, JobStep(j) \/ FailJob(j)
            PROVE  now' = now
        BY <3>3 DEF StartJob, JobStep, FailJob, Lock, ScanReports, FetchCracker,
           FetchNoCracker, ClearReport, DeleteReport, CountReporters,
           WriteBackCracker, DropCracker, ReleaseHost
      <3>4. QED
        BY <3>1, <3>2, <3>3 DEF StoreStep, Running
    <2>2. QED
      BY <2>1 DEF TypeOK, ControlOK
  <1>2. \A q \in Request : HostsOf(q)' \subseteq Host \cup {BadHost}
    <2>1. \A q \in Request : todo'[q] \in Seq(Host \cup {BadHost})
      BY DEF TypeOK, MemoryOK
    <2>2. QED
      BY <2>1 DEF HostsOf
  <1>3. late' \subseteq Host \cup {BadHost}
    BY <1>2 DEF StoreStep, QTypeOK
  <1>4. UNCHANGED <<qpc, client, search, cut>>
    BY DEF StoreStep
  <1>5. QED
    BY <1>1, <1>3, <1>4, TimeAssumption DEF QTypeOK, QLocalsOK, client, search, Never

\* So do the steps of the query.
LEMMA QueryType ==
  ASSUME TypeOK, QTypeOK, QLocalsOK, QueryStep, UNCHANGED vars
  PROVE  QTypeOK' /\ QLocalsOK'
  <1> USE QueryAssumption, TimeAssumption DEF QTypeOK, QLocalsOK, client, search, excuses, Never
  <1>1. now' = now /\ now \in Nat
    BY DEF vars, TypeOK, ControlOK
  <1>2. DOMAIN crackers \subseteq Id /\ crackers \in [DOMAIN crackers -> CrackerRow]
    BY DEF TypeOK, TablesOK, Id
  <1>3. CASE Poll
    BY <1>1, <1>3 DEF Poll
  <1>4. CASE SelectCandidates
    <2>1. \A q \in Request : HostsOf(q) \subseteq Host \cup {BadHost}
      BY HostsOfType
    <2>2. late' \subseteq Host \cup {BadHost}
      BY <1>4, <2>1 DEF SelectCandidates
    <2>3. left' \subseteq [id : Id, ip : Host, first : Int]
      BY <1>2, <1>4 DEF SelectCandidates, Candidates, CrackerRow
    <2>4. qpc' \in {"answer", "cracker"}
      BY <1>4 DEF SelectCandidates, Turn
    <2>5. QED
      BY <1>1, <1>4, <2>2, <2>3, <2>4 DEF SelectCandidates
  <1>5. CASE FindCandidate
    <2>1. left' \subseteq left
      BY <1>5 DEF FindCandidate
    <2>2. \/ UNCHANGED cand /\ qpc' \in {"answer", "cracker"}
          \/ cand' \in CrackerObj /\ qpc' = "reports"
      BY <1>2, <1>5 DEF FindCandidate, Turn, CrackerObj
    <2>3. QED
      BY <1>1, <1>5, <2>1, <2>2, NullAssumption DEF FindCandidate
  <1>6. CASE ExamineReports
    <2>1. cand.row.ip \in Host
      BY <1>6 DEF ExamineReports, CrackerObj, CrackerRow
    <2>2. found' \subseteq Host
      BY <1>6, <2>1 DEF ExamineReports
    <2>3. qpc' \in {"answer", "cracker"}
      BY <1>6 DEF ExamineReports, Turn
    <2>4. QED
      BY <1>1, <1>6, <2>2, <2>3 DEF ExamineReports
  <1>7. CASE Answer
    BY <1>1, <1>7 DEF Answer, Forget
  <1>8. CASE FailQuery
    BY <1>1, <1>8 DEF FailQuery, Forget
  <1>9. QED
    BY <1>3, <1>4, <1>5, <1>6, <1>7, <1>8 DEF QueryStep

\* The variables of the query and what it holds between two steps have their types.
LEMMA QueryInvariant == QSpec => [](QTypeOK /\ QLocalsOK)
  <1> DEFINE Inv == QTypeOK /\ QLocalsOK
  <1>1. QInit => Inv
    BY QueryAssumption, TimeAssumption DEF QInit, Init, QTypeOK, QLocalsOK, Never
  <1>2. TypeOK /\ TypeOK' /\ Inv /\ [QNext]_<<vars, queryVars>> => Inv'
    <2> SUFFICES ASSUME TypeOK, TypeOK', Inv, [QNext]_<<vars, queryVars>>
                 PROVE  Inv'
      OBVIOUS
    <2>1. CASE StoreStep
      BY <2>1, StoreQueryType
    <2>2. CASE QueryStep /\ UNCHANGED vars
      BY <2>2, QueryType
    <2>3. CASE Restart /\ Forget /\ UNCHANGED <<client, excuses>>
      BY <2>3, TimeAssumption
      DEF Restart, Forget, client, excuses, QTypeOK, QLocalsOK, TypeOK, ControlOK, Never
    <2>4. CASE UNCHANGED <<vars, queryVars>>
      BY <2>4 DEF vars, queryVars, client, search, excuses, QTypeOK, QLocalsOK
    <2>5. QED
      BY <2>1, <2>2, <2>3, <2>4 DEF QNext
  <1>3. QSpec => []TypeOK
    BY QueriesOnlyRead, TypeCorrect, PTL
  <1> HIDE DEF Inv
  <1>4. QSpec => []Inv
    BY <1>1, <1>2, <1>3, PTL DEF QSpec
  <1>5. QED
    BY <1>4 DEF Inv

\* The variables of the query have their types; its time stamps are never in the
\* future, so a client that sends one back is never refused (fault 103).
THEOREM QueryTypeCorrect == QSpec => []QTypeOK
  BY QueryInvariant, PTL

--------------------------------------------------------------------------------
(* No host is missed when reports come one at a time and in order.            *)

USE TaskAssumption, NullAssumption
USE DEF Goto

\* A Cracker object has the first time of its row.
FirstsOK ==
  \A q \in Request : obj[q] # NULL /\ obj[q].id # NULL /\ obj[q].id \in DOMAIN crackers =>
    obj[q].row.first = crackers[obj[q].id].first

\* No report is of a later time than the one in service.
StampsOK ==
  /\ \A q \in Request : pc[q] # "idle" => sub[q].when <= now
  /\ \A r \in DOMAIN reports :
       /\ reports[r].latest <= now
       /\ \A q \in Request : pc[q] # "idle" => reports[r].latest <= sub[q].when

\* A cracker tells its latest report, and the resilience that its reports show; but for
\* the one whose report was merged and that is not saved yet.
UpToDate(c) ==
  \A r \in ReportsOf(c) :
    /\ reports[r].latest <= crackers[c].latest
    /\ reports[r].latest - crackers[c].first <= crackers[c].resil
UpToDateOK ==
  \A c \in DOMAIN crackers :
    UpToDate(c) \/ \E q \in Request : pc[q] = "save" /\ obj[q].id = c

\* The hosts of a report in service that is no later than the answer are remembered.
LatesOK ==
  \A q \in Request : pc[q] # "idle" /\ sub[q].when <= Horizon => HostsOf(q) \subseteq late

\* A report up to t shows the resilience.
Shown(c, t) == \E r \in ReportsOf(c) : reports[r].latest <= t /\ Resilient(r, crackers[c].first)

\* A host that showed it up to the last answer was told, or has an excuse.
Excused == told \cup late \cup cut
ToldOK == \A c \in DOMAIN crackers : Shown(c, since) => crackers[c].ip \in Excused

\* A host that showed it up to the answer under way is among the candidates or the results.
SearchOK ==
  /\ qpc # "idle" => since <= asOf
  /\ \A x \in left : x.id \in DOMAIN crackers /\ x.ip = crackers[x.id].ip
  /\ qpc = "reports" =>
       /\ cand.id \in DOMAIN crackers
       /\ cand.row.ip = crackers[cand.id].ip /\ cand.row.first = crackers[cand.id].first
  /\ qpc \in {"cracker", "reports", "answer"} =>
       \A c \in DOMAIN crackers : Shown(c, asOf) =>
         \/ crackers[c].ip \in Excused \cup found \cup added
         \/ \E x \in left : x.id = c
         \/ qpc = "reports" /\ cand.id = c

PollInv ==
  faults = 0 => FirstsOK /\ StampsOK /\ UpToDateOK /\ LatesOK /\ ToldOK /\ SearchOK

\* What a request changes of the reports: the row it inserts, links or touches.
LEMMA RowsMove ==
  ASSUME MergeInv, NEW q \in Request, Accept(q) \/ RequestStep(q), NEW r \in DOMAIN reports'
  PROVE  \/ r \in DOMAIN reports /\ reports'[r] = reports[r]
         \/ /\ pc[q] \in RequestCritical /\ reports'[r].latest = sub[q].when
            /\ \/ reports'[r].cracker = NULL
               \/ /\ reports'[r].cracker = obj[q].id /\ pc[q] \in {"link", "touch"}
                  /\ pc'[q] = "save" /\ obj' = obj
  <1>1. CASE InsertReport(q)
    <2>1. /\ RowsBut(nextReport) /\ pc[q] = "insert"
          /\ reports'[nextReport] = [cracker |-> NULL, ip |-> sub[q].client,
                                     first |-> sub[q].when, latest |-> sub[q].when]
      BY <1>1, InsertFacts
    <2>2. reports'[nextReport].cracker = NULL /\ reports'[nextReport].latest = sub[q].when
      BY <2>1
    <2>3. QED
      BY <2>1, <2>2 DEF RowsBut, RequestCritical
  <1>2. CASE LinkReport(q)
    <2>0. PICK i : i = rpt[q].id
      OBVIOUS
    <2>1. /\ RowsBut(i) /\ pc[q] = "link" /\ pc'[q] = "save" /\ obj' = obj
          /\ reports'[i] = [cracker |-> obj[q].id, ip |-> sub[q].client,
                            first |-> sub[q].when, latest |-> sub[q].when]
      BY <1>2, <2>0, LinkFacts
    <2>2. reports'[i].cracker = obj[q].id /\ reports'[i].latest = sub[q].when
      BY <2>1
    <2>3. QED
      BY <2>1, <2>2 DEF RowsBut, RequestCritical
  <1>3. CASE TouchReport(q)
    <2>0. PICK i : i = rpt[q].id
      OBVIOUS
    <2>1. /\ RowsBut(i) /\ pc[q] = "touch" /\ pc'[q] = "save" /\ obj' = obj
          /\ reports'[i] = [reports[i] EXCEPT !.latest = sub[q].when]
          /\ reports[i] \in ReportRow /\ reports[i].cracker = obj[q].id
      BY <1>3, <2>0, TouchFacts
    <2>2. reports'[i].cracker = obj[q].id /\ reports'[i].latest = sub[q].when
      BY <2>1 DEF ReportRow
    <2>3. QED
      BY <2>1, <2>2 DEF RowsBut, RequestCritical
  <1>4. CASE UNCHANGED reports
    BY <1>4
  <1>5. QED
    BY <1>1, <1>2, <1>3, <1>4 DEF Accept, RequestStep, Lock, FindCracker, CreateCracker, FindReports,
                                  SaveCracker, UnlockHost

\* What a request changes of the crackers: the row it saves, and a new one.
LEMMA CrackersMove ==
  ASSUME MergeInv, FirstsOK, NEW q \in Request, Accept(q) \/ RequestStep(q)
  PROVE  /\ \A c \in DOMAIN crackers :
              /\ c \in DOMAIN crackers'
              /\ crackers'[c].ip = crackers[c].ip /\ crackers'[c].first = crackers[c].first
              /\ \/ crackers'[c] = crackers[c]
                 \/ /\ pc[q] = "save" /\ obj[q].id = c
                    /\ crackers'[c].latest = sub[q].when
                    /\ crackers'[c].resil = sub[q].when - crackers[c].first
         /\ \A c \in DOMAIN crackers' : c \notin DOMAIN crackers =>
              /\ c = nextCracker /\ pc[q] = "create"
              /\ crackers'[c].first = obj[q].row.first
         /\ pc[q] = "save" => SaveCracker(q)
  <1>1. CASE CreateCracker(q)
    <2> DEFINE row == obj[q].row
    <2>1. /\ pc[q] = "create" /\ crackers' = InsertRow(crackers, nextCracker, row)
          /\ nextCracker \notin DOMAIN crackers
      BY <1>1 DEF CreateCracker, MergeInv, IndInv, TypeOK, TablesOK, Id
    <2> HIDE DEF row
    <2>2. /\ DOMAIN crackers' = DOMAIN crackers \cup {nextCracker}
          /\ crackers'[nextCracker] = row
          /\ \A c \in DOMAIN crackers : crackers'[c] = crackers[c]
      BY <2>1 DEF InsertRow
    <2>3. QED
      BY <2>1, <2>2 DEF row
  <1>2. CASE SaveCracker(q)
    <2>0. PICK d : d = obj[q].id
      OBVIOUS
    <2> DEFINE row == [obj[q].row EXCEPT !.total = @ + 1, !.latest = sub[q].when,
                         !.resil = sub[q].when - obj[q].row.first]
    <2>1. pc[q] = "save" /\ crackers' = UpdateRow(crackers, d, row)
      BY <1>2, <2>0 DEF SaveCracker
    <2>2. /\ obj[q].row \in CrackerRow /\ obj[q] # NULL /\ d # NULL /\ d \in DOMAIN crackers
          /\ obj[q].row.ip = crackers[d].ip
      BY <2>0, <2>1, RequestHolds
      DEF RequestCritical, MergeInv, IndInv, LocalsOK, StoreOK, ObjectsOK, Task
    <2>3. obj[q].row.first = crackers[d].first
      BY <2>0, <2>2 DEF FirstsOK
    <2>4. /\ row.ip = crackers[d].ip /\ row.first = crackers[d].first /\ row.latest = sub[q].when
          /\ row.resil = sub[q].when - crackers[d].first
      BY <2>2, <2>3 DEF CrackerRow
    <2> HIDE DEF row
    <2>5. /\ DOMAIN crackers' = DOMAIN crackers /\ crackers'[d] = row
          /\ \A c \in DOMAIN crackers \ {d} : crackers'[c] = crackers[c]
      BY <2>1, <2>2 DEF UpdateRow
    <2>6. QED
      BY <1>2, <2>0, <2>1, <2>4, <2>5
  <1>3. CASE UNCHANGED crackers /\ pc[q] # "save"
    BY <1>3
  <1>4. QED
    BY <1>1, <1>2, <1>3 DEF Accept, RequestStep, Lock, FindCracker, FindReports, InsertReport,
                            LinkReport, TouchReport, UnlockHost

\* A request in service keeps its stamp, and its list shrinks.
LEMMA ServiceKept ==
  ASSUME MergeInv, NEW q \in Request, RequestStep(q)
  PROVE  /\ pc[q] # "idle" /\ UNCHANGED <<now, faults>>
         /\ pc'[q] # "idle" => sub'[q] = sub[q] /\ HostsOf(q)' \subseteq HostsOf(q)
  <1>1. /\ q \in Task /\ DOMAIN pc = Task /\ DOMAIN todo = Request /\ DOMAIN sub = Request
        /\ todo[q] \in Seq(Host \cup {BadHost})
    BY DEF MergeInv, IndInv, TypeOK, ControlOK, MemoryOK, Task
  <1>2. CASE UnlockHost(q)
    <2>1. /\ pc[q] = "unlock" /\ UNCHANGED <<now, faults>>
          /\ \/ pc'[q] = "idle"
             \/ Continues(Tail(todo[q])) /\ todo'[q] = Tail(todo[q]) /\ sub'[q] = sub[q]
      BY <1>1, <1>2 DEF UnlockHost, Finish
    <2>2. todo[q] # <<>>
      BY <2>1 DEF MergeInv, IndInv, LocalsOK, Continues
    <2>3. \A i \in DOMAIN Tail(todo[q]) : i + 1 \in DOMAIN todo[q] /\ Tail(todo[q])[i] = todo[q][i + 1]
      <3>1. /\ Len(todo[q]) \in Nat \ {0} /\ DOMAIN todo[q] = 1..Len(todo[q])
            /\ Tail(todo[q]) \in Seq(Host \cup {BadHost}) /\ Len(Tail(todo[q])) = Len(todo[q]) - 1
            /\ \A i \in 1..Len(Tail(todo[q])) : Tail(todo[q])[i] = todo[q][i + 1]
        BY <1>1, <2>2
      <3>2. DOMAIN Tail(todo[q]) = 1..Len(Tail(todo[q]))
        BY <3>1
      <3>3. QED
        BY <3>1, <3>2
    <2>4. QED
      BY <2>1, <2>3 DEF HostsOf
  <1>3. CASE UNCHANGED <<todo, sub, now, faults>> /\ pc[q] # "idle"
    BY <1>3 DEF HostsOf
  <1>4. QED
    BY <1>2, <1>3 DEF RequestStep, Lock, FindCracker, CreateCracker, FindReports, InsertReport,
                      LinkReport, TouchReport, SaveCracker

--------------------------------------------------------------------------------
(* Steps of the store, with one request at a time and stamps in order.        *)

LEMMA QueryNumbers ==
  ASSUME MergeInv
  PROVE  /\ now \in Nat
         /\ \A r \in DOMAIN reports : reports[r].latest \in Int
         /\ \A c \in DOMAIN crackers :
              /\ c # NULL /\ crackers[c].first \in Int /\ crackers[c].latest \in Int
              /\ crackers[c].resil \in Int
         /\ \A q \in Request : pc[q] # "idle" => sub[q].when \in Int
  <1>1. \A q \in Request : pc[q] # "idle" => sub[q] \in Stamp
    BY RequestHolds DEF MergeInv, IndInv
  <1>2. now \in Nat /\ reports \in [DOMAIN reports -> ReportRow]
    BY DEF MergeInv, IndInv, TypeOK, TablesOK, ControlOK
  <1>3. DOMAIN crackers \subseteq Int /\ crackers \in [DOMAIN crackers -> CrackerRow]
    BY DEF MergeInv, IndInv, TypeOK, TablesOK, Id
  <1>4. \A r \in DOMAIN reports : reports[r].latest \in Int
    BY <1>2 DEF ReportRow
  <1>5. \A c \in DOMAIN crackers :
          /\ c # NULL /\ crackers[c].first \in Int /\ crackers[c].latest \in Int
          /\ crackers[c].resil \in Int
    BY <1>3 DEF CrackerRow
  <1>6. QED
    BY <1>1, <1>2, <1>4, <1>5 DEF Stamp

LEMMA FirstsStep ==
  ASSUME MergeInv, FirstsOK, NEW q \in Request, Accept(q) \/ RequestStep(q)
  PROVE  FirstsOK'
  <1>1. SUFFICES ASSUME NEW p \in Request, obj'[p] # NULL, obj'[p].id # NULL, obj'[p].id \in DOMAIN crackers'
                 PROVE  obj'[p].row.first = crackers'[obj'[p].id].first
    BY DEF FirstsOK
  <1>2. /\ q \in Task /\ p \in Task /\ DOMAIN obj = Task /\ nextCracker \in Nat
        /\ obj[p] \in CrackerObj \cup {NULL} /\ obj[q] \in CrackerObj \cup {NULL}
    BY DEF MergeInv, IndInv, TypeOK, TablesOK, MemoryOK, Task, Id
  <1>3. ASSUME obj'[p].id = obj[p].id, obj'[p].row.first = obj[p].row.first, obj[p] # NULL
        PROVE  obj'[p].row.first = crackers'[obj'[p].id].first
    <2>1. obj[p].id < nextCracker
      BY <1>1, <1>2, <1>3 DEF MergeInv, IndInv, StoreOK, ObjectsOK
    <2>2. obj[p].id \in DOMAIN crackers
      BY <1>1, <1>2, <1>3, <2>1, CrackersMove
    <2>3. obj[p].row.first = crackers[obj[p].id].first
      BY <1>1, <1>3, <2>2 DEF FirstsOK
    <2>4. QED
      BY <1>3, <2>2, <2>3, CrackersMove
  <1>4. CASE p # q
    <2>1. obj'[p] = obj[p]
      BY <1>2, <1>4, RequestAlone DEF MergeInv, IndInv
    <2>2. QED
      BY <1>1, <1>3, <2>1
  <1>5. CASE p = q /\ obj'[q] = obj[q]
    BY <1>1, <1>3, <1>5
  <1>6. CASE p = q /\ FindCracker(q)
    <2>1. UNCHANGED crackers
      BY <1>6 DEF FindCracker
    <2>2. CASE \E c \in DOMAIN crackers : obj'[q] = [id |-> c, row |-> crackers[c]]
      <3>1. PICK c \in DOMAIN crackers : obj'[q] = [id |-> c, row |-> crackers[c]]
        BY <2>2
      <3>2. obj'[q].id = c /\ obj'[q].row = crackers[c]
        BY <3>1
      <3>3. QED
        BY <1>6, <2>1, <3>2
    <2>3. CASE obj'[q] = [id |-> NULL,
                          row |-> [ip |-> HostOf(q), first |-> sub[q].when,
                                   latest |-> sub[q].when, resil |-> 0,
                                   total |-> 0, current |-> 0]]
      <3>1. obj'[q].id = NULL
        BY <2>3
      <3>2. QED
        BY <1>1, <1>6, <3>1
    <2>4. QED
      BY <1>2, <1>6, <2>2, <2>3 DEF FindCracker
  <1>7. CASE p = q /\ CreateCracker(q)
    <2> DEFINE old == obj[q]
               row == obj[q].row
    <2>1. pc[q] = "create" /\ obj'[q] = [old EXCEPT !.id = nextCracker]
      BY <1>2, <1>7 DEF CreateCracker
    <2>2. old \in CrackerObj
      BY <2>1, RequestHolds DEF MergeInv, IndInv, RequestCritical
    <2>3. obj'[q].id = nextCracker /\ obj'[q].row = row
      BY <2>1, <2>2 DEF CrackerObj
    <2> HIDE DEF row, old
    <2>4. crackers' = InsertRow(crackers, nextCracker, row)
      BY <1>7 DEF CreateCracker, row
    <2>5. crackers'[nextCracker] = row
      BY <2>4 DEF InsertRow
    <2>6. QED
      BY <1>7, <2>3, <2>5
  <1>8. CASE p = q /\ (FindReports(q) \/ SaveCracker(q))
    <2> DEFINE old == obj[q]
               row == obj[q].row
    <2>1. /\ pc[q] \in {"reports", "save"}
          /\ \/ obj'[q] = old \/ obj'[q] = [old EXCEPT !.row.current = @ + 1]
             \/ \E new : /\ obj'[q] = [old EXCEPT !.row = new]
                        /\ new = [row EXCEPT !.total = @ + 1, !.latest = sub[q].when,
                                              !.resil = sub[q].when - row.first]
      BY <1>2, <1>8 DEF FindReports, SaveCracker
    <2>2. old \in CrackerObj /\ row \in CrackerRow /\ old # NULL
      BY <2>1, RequestHolds DEF MergeInv, IndInv, RequestCritical
    <2>3. obj'[q].id = old.id /\ obj'[q].row.first = row.first
      <3>1. CASE obj'[q] = old
        BY <3>1
      <3>2. CASE obj'[q] = [old EXCEPT !.row.current = @ + 1]
        BY <2>2, <3>2 DEF CrackerObj, CrackerRow
      <3>3. CASE \E new : /\ obj'[q] = [old EXCEPT !.row = new]
                         /\ new = [row EXCEPT !.total = @ + 1, !.latest = sub[q].when,
                                               !.resil = sub[q].when - row.first]
        <4>1. PICK new : /\ obj'[q] = [old EXCEPT !.row = new]
                         /\ new = [row EXCEPT !.total = @ + 1, !.latest = sub[q].when,
                                               !.resil = sub[q].when - row.first]
          BY <3>3
        <4>2. new.first = row.first
          BY <2>2, <4>1 DEF CrackerRow
        <4>3. obj'[q].id = old.id /\ obj'[q].row = new
          BY <2>2, <4>1 DEF CrackerObj
        <4>4. QED
          BY <4>2, <4>3
      <3>4. QED
        BY <2>1, <3>1, <3>2, <3>3
    <2>4. QED
      BY <1>3, <1>8, <2>2, <2>3
  <1>9. CASE p = q /\ UnlockHost(q)
    BY <1>1, <1>2, <1>9 DEF UnlockHost
  <1>10. QED
    BY <1>4, <1>5, <1>6, <1>7, <1>8, <1>9 DEF Accept, RequestStep, Lock, InsertReport, LinkReport,
                                              TouchReport

LEMMA StampsOrder ==
  ASSUME MergeInv, StampsOK, MaxDelay = 0, \A p, q \in Request : p = q,
         NEW q \in Request, Accept(q) \/ RequestStep(q)
  PROVE  StampsOK'
  <1>1. CASE Accept(q)
    <2>1. q \in DOMAIN sub
      BY DEF MergeInv, IndInv, TypeOK, MemoryOK
    <2>2. PICK client_ \in Client, delay \in 0..MaxDelay :
            sub'[q] = [client |-> client_, when |-> now - delay]
      BY <1>1, <2>1 DEF Accept
    <2>3. sub'[q].when = now /\ now \in Nat
      BY <2>2, QueryNumbers
    <2>4. UNCHANGED <<now, reports>>
      BY <1>1 DEF Accept
    <2>5. QED
      BY <2>3, <2>4 DEF StampsOK
  <1>2. CASE RequestStep(q)
    <2>1. /\ pc[q] # "idle" /\ now' = now
          /\ pc'[q] # "idle" => sub'[q] = sub[q]
      BY <1>2, ServiceKept
    <2>2. ASSUME NEW r \in DOMAIN reports'
          PROVE  reports'[r].latest <= now /\ reports'[r].latest <= sub[q].when
      <3>1. \/ r \in DOMAIN reports /\ reports'[r] = reports[r]
            \/ reports'[r].latest = sub[q].when
        BY <2>2, RowsMove
      <3>2. sub[q].when \in Int
        BY <2>1, QueryNumbers
      <3>3. QED
        BY <2>1, <3>1, <3>2 DEF StampsOK
    <2>3. QED
      BY <2>1, <2>2 DEF StampsOK
  <1>3. QED
    BY <1>1, <1>2

LEMMA UpToDateStep ==
  ASSUME MergeInv, FirstsOK, StampsOK, UpToDateOK, \A p, q \in Request : p = q,
         NEW q \in Request, Accept(q) \/ RequestStep(q)
  PROVE  UpToDateOK'
  <1>1. SUFFICES ASSUME NEW c \in DOMAIN crackers'
                 PROVE  UpToDate(c)' \/ (pc'[q] = "save" /\ obj'[q].id = c)
    BY DEF UpToDateOK
  <1>2. CASE c \notin DOMAIN crackers
    <2>1. c = nextCracker /\ pc[q] = "create"
      BY <1>1, <1>2, CrackersMove
    <2>2. c # NULL /\ ReportsOf(c) = {}
      <3>1. nextCracker \in Id
        BY DEF MergeInv, IndInv, TypeOK, TablesOK
      <3>2. c # NULL
        BY <2>1, <3>1 DEF Id
      <3>3. QED
        BY <1>2, <3>2 DEF MergeInv, IndInv, StoreOK, NoDanglingReport, ReportsOf
    <2>3. ASSUME NEW r \in ReportsOf(c)' PROVE FALSE
      <3>1. r \in DOMAIN reports' /\ reports'[r].cracker = c
        BY <2>3 DEF ReportsOf
      <3>2. r \in DOMAIN reports /\ reports'[r] = reports[r]
        BY <2>1, <2>2, <3>1, RowsMove
      <3>3. QED
        BY <2>2, <3>1, <3>2 DEF ReportsOf
    <2>4. QED
      BY <2>3 DEF UpToDate
  <1>3. CASE c \in DOMAIN crackers /\ pc[q] = "save" /\ obj[q].id = c
    <2>1. SaveCracker(q) /\ UNCHANGED reports
      <3>1. SaveCracker(q)
        BY <1>3, CrackersMove
      <3>2. QED
        BY <3>1 DEF SaveCracker
    <2>2. /\ crackers'[c].first = crackers[c].first
          /\ \/ crackers'[c] = crackers[c]
             \/ crackers'[c].latest = sub[q].when /\ crackers'[c].resil = sub[q].when - crackers[c].first
      BY <1>3, CrackersMove
    <2>3. crackers'[c].latest = sub[q].when /\ crackers'[c].resil = sub[q].when - crackers[c].first
      <3> DEFINE row == [obj[q].row EXCEPT !.total = @ + 1, !.latest = sub[q].when,
                           !.resil = sub[q].when - obj[q].row.first]
      <3>1. crackers' = UpdateRow(crackers, c, row)
        BY <1>3, <2>1 DEF SaveCracker
      <3>2. obj[q].row \in CrackerRow /\ obj[q] # NULL /\ c # NULL
        BY <1>3, RequestHolds DEF RequestCritical, MergeInv, IndInv, LocalsOK
      <3>3. row.latest = sub[q].when /\ row.resil = sub[q].when - crackers[c].first
        BY <1>3, <3>2 DEF CrackerRow, FirstsOK
      <3> HIDE DEF row
      <3>4. crackers'[c] = row
        BY <1>3, <3>1 DEF UpdateRow
      <3>5. QED
        BY <3>3, <3>4
    <2>4. /\ sub[q].when \in Int /\ crackers[c].first \in Int
          /\ \A r \in DOMAIN reports : reports[r].latest \in Int /\ reports[r].latest <= sub[q].when
      BY <1>3, QueryNumbers DEF StampsOK
    <2>5. \A r \in ReportsOf(c)' : reports'[r].latest <= sub[q].when /\ reports'[r].latest \in Int
      BY <2>1, <2>4 DEF ReportsOf
    <2>6. QED
      BY <2>2, <2>3, <2>4, <2>5 DEF UpToDate
  <1>4. CASE c \in DOMAIN crackers /\ ~(pc[q] = "save" /\ obj[q].id = c)
    <2>1. UpToDate(c) /\ crackers'[c] = crackers[c]
      BY <1>4, CrackersMove DEF UpToDateOK
    <2>2. c # NULL
      BY <1>4, QueryNumbers
    <2>3. CASE \A r \in ReportsOf(c)' : r \in ReportsOf(c) /\ reports'[r] = reports[r]
      BY <2>1, <2>3 DEF UpToDate
    <2>4. CASE \E r \in ReportsOf(c)' : ~(r \in ReportsOf(c) /\ reports'[r] = reports[r])
      <3>1. PICK r \in ReportsOf(c)' : ~(r \in ReportsOf(c) /\ reports'[r] = reports[r])
        BY <2>4
      <3>2. r \in DOMAIN reports' /\ reports'[r].cracker = c
        BY <3>1 DEF ReportsOf
      <3>3. ~(r \in DOMAIN reports /\ reports'[r] = reports[r])
        BY <3>1, <3>2 DEF ReportsOf
      <3>4. reports'[r].cracker = obj[q].id /\ pc'[q] = "save" /\ obj' = obj
        BY <2>2, <3>2, <3>3, RowsMove
      <3>5. QED
        BY <3>2, <3>4
    <2>5. QED
      BY <2>3, <2>4
  <1>5. QED
    BY <1>2, <1>3, <1>4

\* A host that shows the resilience in time without an excuse did so before.
LEMMA ShownKept ==
  ASSUME MergeInv, FirstsOK, LatesOK, NEW q \in Request, Accept(q) \/ RequestStep(q),
         NEW t \in Int, t <= Horizon, Horizon \in Int,
         NEW c \in DOMAIN crackers', Shown(c, t)', crackers'[c].ip \notin late
  PROVE  c \in DOMAIN crackers /\ crackers'[c].ip = crackers[c].ip /\ Shown(c, t)
  <1>1. PICK r \in ReportsOf(c)' : reports'[r].latest <= t /\ Resilient(r, crackers[c].first)'
    BY DEF Shown
  <1>2. r \in DOMAIN reports' /\ reports'[r].cracker = c
    BY <1>1 DEF ReportsOf
  <1>3. CASE r \in DOMAIN reports /\ reports'[r] = reports[r]
    <2>1. r \in ReportsOf(c) /\ reports[r].latest <= t
      BY <1>1, <1>2, <1>3 DEF ReportsOf
    <2>2. c \in DOMAIN crackers
      <3>1. c # NULL
        <4>1. nextCracker' \in Id /\ DOMAIN crackers' \subseteq 1..(nextCracker' - 1)
          BY MergeStep DEF MergeInv, IndInv, TypeOK, TablesOK, Next, Running
        <4>2. QED
          BY <4>1 DEF Id
      <3>2. QED
        BY <1>2, <1>3, <3>1 DEF MergeInv, IndInv, StoreOK, NoDanglingReport
    <2>3. crackers'[c].ip = crackers[c].ip /\ crackers'[c].first = crackers[c].first
      BY <2>2, CrackersMove
    <2>4. Resilient(r, crackers[c].first)
      BY <1>1, <1>3, <2>3 DEF Resilient
    <2>5. QED
      BY <2>1, <2>2, <2>3, <2>4 DEF Shown
  <1>4. CASE ~(r \in DOMAIN reports /\ reports'[r] = reports[r])
    <2>1. \/ reports'[r].cracker = NULL
          \/ reports'[r].cracker = obj[q].id /\ pc[q] \in {"link", "touch"}
      BY <1>2, <1>4, RowsMove
    <2>2. pc[q] \in RequestCritical /\ reports'[r].latest = sub[q].when
      BY <1>2, <1>4, RowsMove
    <2>3. c # NULL
      <3>1. nextCracker' \in Id /\ DOMAIN crackers' \subseteq 1..(nextCracker' - 1)
        BY MergeStep DEF MergeInv, IndInv, TypeOK, TablesOK, Next, Running
      <3>2. QED
        BY <3>1 DEF Id
    <2>4. c = obj[q].id /\ pc[q] \in {"link", "touch"}
      BY <1>2, <2>1, <2>3
    <2>5. c \in DOMAIN crackers /\ crackers[c].ip = obj[q].row.ip /\ obj[q].row.ip = HostOf(q)
      BY <2>3, <2>4 DEF RequestCritical, MergeInv, IndInv, LocalsOK, StoreOK, ObjectsOK, Task
    <2>6. crackers'[c].ip = crackers[c].ip
      BY <2>5, CrackersMove
    <2>7. pc[q] # "idle" /\ sub[q].when \in Int
      BY <2>4, QueryNumbers
    <2>8. sub[q].when <= Horizon
      BY <1>1, <2>2, <2>7
    <2>9. HostsOf(q) \subseteq late
      BY <2>7, <2>8 DEF LatesOK
    <2>10. HostOf(q) \in HostsOf(q)
      <3>1. todo[q] \in Seq(Host \cup {BadHost}) /\ Continues(todo[q])
        BY <2>7 DEF MergeInv, IndInv, LocalsOK, TypeOK, MemoryOK
      <3>2. 1 \in DOMAIN todo[q] /\ Head(todo[q]) = todo[q][1]
        BY <3>1 DEF Continues
      <3>3. QED
        BY <3>2 DEF HostOf, HostsOf
    <2>11. QED
      BY <2>5, <2>6, <2>9, <2>10
  <1>5. QED
    BY <1>3, <1>4

LEMMA LatesStep ==
  ASSUME MergeInv, LatesOK, StoreStep, NEW q \in Request, Accept(q) \/ RequestStep(q)
  PROVE  LatesOK'
  <1>1. UNCHANGED <<qpc, since, asOf>> /\ Horizon' = Horizon /\ late \subseteq late'
    BY DEF StoreStep, client, search, Horizon
  <1>2. SUFFICES ASSUME NEW p \in Request, pc'[p] # "idle", sub'[p].when <= Horizon
                 PROVE  HostsOf(p)' \subseteq late'
    BY <1>1 DEF LatesOK
  <1>3. CASE p # q
    <2>1. pc'[p] = pc[p] /\ sub'[p] = sub[p] /\ todo'[p] = todo[p]
      BY <1>3, RequestAlone DEF MergeInv, IndInv, Task
    <2>2. HostsOf(p)' = HostsOf(p)
      BY <2>1 DEF HostsOf
    <2>3. QED
      BY <1>1, <1>2, <2>1, <2>2 DEF LatesOK
  <1>4. CASE p = q /\ RequestStep(q)
    <2>1. pc[q] # "idle" /\ sub'[q] = sub[q] /\ HostsOf(q)' \subseteq HostsOf(q)
      BY <1>2, <1>4, ServiceKept
    <2>2. QED
      BY <1>1, <1>2, <1>4, <2>1 DEF LatesOK
  <1>5. CASE p = q /\ Accept(q)
    <2>1. pc[q] = "idle"
      BY <1>5 DEF Accept
    <2>2. QED
      BY <1>2, <1>5, <2>1 DEF StoreStep
  <1>6. QED
    BY <1>3, <1>4, <1>5

LEMMA StoreKeepsPoll ==
  ASSUME Job = {}, \A p, q \in Request : p = q, MaxDelay = 0,
         MergeInv, QTypeOK, PollInv, StoreStep
  PROVE  PollInv'
  <1>1. /\ UNCHANGED <<qpc, client, search, cut>> /\ Horizon' = Horizon /\ late \subseteq late'
        /\ faults \in Nat /\ now \in Nat /\ since \in Int /\ asOf \in Int /\ Horizon \in Int
    BY TimeAssumption
    DEF StoreStep, client, search, Horizon, MergeInv, IndInv, TypeOK, ControlOK, QTypeOK, Never
  <1>2. SUFFICES ASSUME faults' = 0 PROVE PollInv'
    BY DEF PollInv
  <1>3. CASE \E q \in Request : FailRequest(q)
    <2>1. faults' = faults + 1
      BY <1>3 DEF FailRequest
    <2>2. QED
      BY <1>1, <1>2, <2>1
  <1>4. CASE Tick
    <2>1. /\ UNCHANGED <<crackers, reports, pc, sub, todo, obj, faults>> /\ now' = now + 1
      BY <1>4 DEF Tick
    <2>2. /\ UNCHANGED <<qpc, since, told, asOf, added, left, cand, found, cut>>
      BY <1>1 DEF client, search
    <2>3. FirstsOK /\ StampsOK /\ UpToDateOK /\ LatesOK /\ ToldOK /\ SearchOK
      BY <1>2, <2>1 DEF PollInv
    <2>4. /\ \A q : HostsOf(q)' = HostsOf(q)
          /\ \A c : UpToDate(c)' <=> UpToDate(c)
          /\ \A c, t : Shown(c, t)' <=> Shown(c, t)
      BY <2>1 DEF HostsOf, UpToDate, Shown, ReportsOf, Resilient
    <2>5. FirstsOK' /\ UpToDateOK'
      BY <2>1, <2>3, <2>4 DEF FirstsOK, UpToDateOK
    <2>6. StampsOK'
      <3>1. \A q \in Request : pc[q] # "idle" => sub[q].when \in Int
        BY QueryNumbers
      <3>2. \A r \in DOMAIN reports : reports[r].latest \in Int
        BY QueryNumbers
      <3>3. QED
        BY <1>1, <2>1, <2>3, <3>1, <3>2 DEF StampsOK
    <2>7. LatesOK'
      BY <1>1, <2>1, <2>3, <2>4 DEF LatesOK
    <2>9. /\ \A c : Shown(c, since)' <=> Shown(c, since)
          /\ \A c : Shown(c, asOf)' <=> Shown(c, asOf)
      BY <2>1, <2>2 DEF Shown, ReportsOf, Resilient
    <2>10. Excused \subseteq Excused'
      BY <1>1, <2>2 DEF Excused
    <2>11. ToldOK' /\ SearchOK'
      BY <2>1, <2>2, <2>3, <2>9, <2>10 DEF ToldOK, SearchOK
    <2>12. QED
      BY <2>5, <2>6, <2>7, <2>11 DEF PollInv
  <1>5. ASSUME NEW q \in Request, Accept(q) \/ RequestStep(q)
        PROVE  PollInv'
    <2>1. faults' = faults
      BY <1>5, ServiceKept DEF Accept
    <2>2. FirstsOK /\ StampsOK /\ UpToDateOK /\ LatesOK /\ ToldOK /\ SearchOK
      BY <1>2, <2>1 DEF PollInv
    <2>3. FirstsOK' /\ StampsOK' /\ UpToDateOK' /\ LatesOK'
      BY <1>5, <2>2, FirstsStep, StampsOrder, UpToDateStep, LatesStep
    <2>4. /\ UNCHANGED <<qpc, since, told, asOf, added, left, cand, found, cut>>
          /\ Excused \subseteq Excused' /\ late \subseteq Excused
      BY <1>1 DEF client, search, Excused
    <2>5. since <= Horizon
      BY <1>1, <2>2 DEF Horizon, SearchOK
    <2>6. ToldOK'
      <3>1. SUFFICES ASSUME NEW c \in DOMAIN crackers', Shown(c, since)', crackers'[c].ip \notin Excused'
                     PROVE  FALSE
        BY DEF ToldOK
      <3>2. PICK t \in Int : t = since
        BY <1>1
      <3>3. Shown(c, t)' /\ crackers'[c].ip \notin late
        BY <2>4, <3>1, <3>2 DEF Shown
      <3>4. c \in DOMAIN crackers /\ crackers'[c].ip = crackers[c].ip /\ Shown(c, t)
        BY <1>1, <1>5, <2>2, <2>5, <3>2, <3>3, ShownKept
      <3>5. crackers[c].ip \in Excused
        BY <2>2, <3>2, <3>4 DEF ToldOK
      <3>6. QED
        BY <2>4, <3>1, <3>4, <3>5
    <2>7. \A c \in DOMAIN crackers :
            /\ c \in DOMAIN crackers' /\ crackers'[c].ip = crackers[c].ip
            /\ crackers'[c].first = crackers[c].first
      BY <1>5, <2>2, CrackersMove
    <2>8. \A x \in left : x.id \in DOMAIN crackers' /\ x.ip = crackers'[x.id].ip
      BY <2>2, <2>7 DEF SearchOK
    <2>9. qpc = "reports" =>
            /\ cand.id \in DOMAIN crackers'
            /\ cand.row.ip = crackers'[cand.id].ip /\ cand.row.first = crackers'[cand.id].first
      BY <2>2, <2>7 DEF SearchOK
    <2>10. ASSUME qpc \in {"cracker", "reports", "answer"}, NEW c \in DOMAIN crackers', Shown(c, asOf)',
                  crackers'[c].ip \notin Excused' \cup found \cup added
           PROVE  (\E x \in left : x.id = c) \/ (qpc = "reports" /\ cand.id = c)
      <3>1. PICK t \in Int : t = asOf
        BY <1>1
      <3>2. Shown(c, t)' /\ crackers'[c].ip \notin late /\ t <= Horizon
        BY <1>1, <2>4, <2>10, <3>1 DEF Shown, Horizon
      <3>3. c \in DOMAIN crackers /\ crackers'[c].ip = crackers[c].ip /\ Shown(c, t)
        BY <1>1, <1>5, <2>2, <2>10, <3>2, ShownKept
      <3>4. crackers[c].ip \notin Excused \cup found \cup added
        BY <2>4, <2>10, <3>3
      <3>5. QED
        BY <2>2, <2>10, <3>1, <3>3, <3>4 DEF SearchOK
    <2>11. SearchOK'
      BY <2>2, <2>4, <2>8, <2>9, <2>10 DEF SearchOK
    <2>12. QED
      BY <2>3, <2>6, <2>11 DEF PollInv
  <1>6. QED
    BY <1>3, <1>4, <1>5 DEF StoreStep, Running

--------------------------------------------------------------------------------
(* Steps of the query.                                                        *)

\* When a report shows the resilience and nothing of its host is under way, the host is a
\* candidate (conditions (a) and (b)), and condition (d) holds for it.
LEMMA ShownQualifies ==
  ASSUME Threshold = 1, Job = {}, MergeInv, CountsOK, QTypeOK, faults = 0, UpToDateOK,
         NEW c \in DOMAIN crackers, NEW r \in ReportsOf(c), Resilient(r, crackers[c].first),
         ~Shown(c, since), \A q \in Request : pc[q] # "idle" => crackers[c].ip \notin HostsOf(q)
  PROVE  c \in Candidates(since)
  <1>1. ASSUME NEW q \in Request, pc[q] # "idle" PROVE HostOf(q) # crackers[c].ip
    <2>1. todo[q] \in Seq(Host \cup {BadHost}) /\ Continues(todo[q])
      BY <1>1 DEF MergeInv, IndInv, LocalsOK, TypeOK, MemoryOK
    <2>2. 1 \in DOMAIN todo[q] /\ Head(todo[q]) = todo[q][1]
      BY <2>1 DEF Continues
    <2>3. HostOf(q) \in HostsOf(q)
      BY <2>2 DEF HostOf, HostsOf
    <2>4. QED
      BY <1>1, <2>3
  <1>2. crackers[c].ip \notin busy
    <2>1. busy = {HostOf(t) : t \in {u \in Task : InCritical(u)}} /\ Task = Request
      BY DEF MergeInv, IndInv, LocksOK, LocksAreHeld, Task
    <2>2. \A q \in Request : InCritical(q) => pc[q] # "idle"
      BY DEF InCritical, RequestCritical, JobCritical
    <2>3. QED
      BY <1>1, <2>1, <2>2
  <1>3. crackers[c].current >= 1
    <2>1. crackers[c].current > 0
      BY <1>2 DEF CountsOK, FreeExact, Exact
    <2>2. crackers[c].current \in Nat
      BY DEF MergeInv, IndInv, TypeOK, TablesOK, CrackerRow
    <2>3. QED
      BY <2>1, <2>2
  <1>4. UpToDate(c)
    <2>1. ASSUME NEW q \in Request, pc[q] = "save", obj[q].id = c PROVE FALSE
      <3>1. crackers[c].ip = HostOf(q)
        BY <2>1 DEF RequestCritical, MergeInv, IndInv, LocalsOK, StoreOK, ObjectsOK, Task
      <3>2. QED
        BY <1>1, <2>1, <3>1
    <2>2. QED
      BY <2>1 DEF UpToDateOK
  <1>5. /\ reports[r].latest \in Int /\ since \in Int /\ Resilience \in Int
        /\ crackers[c].first \in Int /\ crackers[c].latest \in Int /\ crackers[c].resil \in Int
    BY QueryNumbers, QueryAssumption, TimeAssumption DEF ReportsOf, QTypeOK, Never, MergeInv, IndInv,
       TypeOK, ControlOK
  <1>6. ~(reports[r].latest <= since)
    BY DEF Shown
  <1>7. crackers[c].latest >= since /\ crackers[c].resil >= Resilience
    BY <1>4, <1>5, <1>6 DEF UpToDate, Resilient
  <1>8. QED
    BY <1>3, <1>7 DEF Candidates

LEMMA QueryKeepsPoll ==
  ASSUME Job = {}, Threshold = 1, MergeInv, CountsOK, QTypeOK, QLocalsOK, PollInv, QueryStep, UNCHANGED vars
  PROVE  PollInv'
  <1>1. UNCHANGED <<crackers, reports, pc, sub, todo, obj, faults, now>>
    BY DEF vars
  <1>2. /\ since \in Int /\ asOf \in Int /\ now \in Nat /\ since <= now
    BY TimeAssumption DEF MergeInv, IndInv, TypeOK, ControlOK, QTypeOK, Never
  <1>3. SUFFICES ASSUME faults = 0 PROVE PollInv'
    BY <1>1 DEF PollInv
  <1>4. FirstsOK /\ StampsOK /\ UpToDateOK /\ LatesOK /\ ToldOK /\ SearchOK
    BY <1>3 DEF PollInv
  <1>5. /\ \A q : HostsOf(q)' = HostsOf(q)
        /\ \A c : UpToDate(c)' <=> UpToDate(c)
    BY <1>1 DEF HostsOf, UpToDate, ReportsOf
  <1>6. FirstsOK' /\ StampsOK' /\ UpToDateOK'
    BY <1>1, <1>4, <1>5 DEF FirstsOK, StampsOK, UpToDateOK
  <1>7. /\ since' = since => \A c : Shown(c, since)' <=> Shown(c, since)
        /\ asOf' = asOf => \A c : Shown(c, asOf)' <=> Shown(c, asOf)
        /\ since' = asOf => \A c : Shown(c, since)' <=> Shown(c, asOf)
    BY <1>1 DEF Shown, ReportsOf, Resilient
  <1>8. \A q \in Request : pc[q] # "idle" => sub[q].when \in Int
    BY QueryNumbers
  <1>9. CASE Poll
    <2>1. /\ UNCHANGED <<since, told, late, cut, left>> /\ qpc = "idle" /\ qpc' = "select" /\ asOf' = now
      BY <1>9 DEF Poll, excuses
    <2>2. LatesOK'
      BY <1>1, <1>4, <1>5, <2>1 DEF LatesOK, Horizon
    <2>3. ToldOK'
      BY <1>1, <1>4, <1>7, <2>1 DEF ToldOK, Excused
    <2>4. SearchOK'
      BY <1>1, <1>2, <1>4, <2>1 DEF SearchOK
    <2>5. QED
      BY <1>6, <2>2, <2>3, <2>4 DEF PollInv
  <1>10. CASE SelectCandidates
    <2>1. /\ UNCHANGED <<since, told, cut, asOf, added, found>> /\ qpc = "select"
          /\ qpc' \in {"cracker", "answer"}
          /\ left' = {[id |-> c, ip |-> crackers[c].ip, first |-> crackers[c].first] :
                        c \in {c \in Candidates(since) : crackers[c].ip \notin added}}
      BY <1>10 DEF SelectCandidates, Turn, client
    <2>2. late \subseteq late' /\ \A q \in Request : pc[q] # "idle" => HostsOf(q) \subseteq late'
      BY <1>10 DEF SelectCandidates
    <2>3. LatesOK'
      BY <1>1, <1>5, <2>2 DEF LatesOK
    <2>4. Excused \subseteq Excused' /\ late' \subseteq Excused'
      BY <2>1, <2>2 DEF Excused
    <2>5. ToldOK'
      BY <1>1, <1>4, <1>7, <2>1, <2>4 DEF ToldOK
    <2>6. ASSUME NEW c \in DOMAIN crackers, Shown(c, asOf), crackers[c].ip \notin Excused' \cup added
          PROVE  \E x \in left' : x.id = c
      <3>1. PICK r \in ReportsOf(c) : Resilient(r, crackers[c].first)
        BY <2>6 DEF Shown
      <3>2. ~Shown(c, since)
        BY <1>4, <2>4, <2>6 DEF ToldOK
      <3>3. \A q \in Request : pc[q] # "idle" => crackers[c].ip \notin HostsOf(q)
        BY <2>2, <2>4, <2>6
      <3>4. c \in Candidates(since)
        BY <1>3, <1>4, <3>1, <3>2, <3>3, ShownQualifies
      <3> DEFINE x == [id |-> c, ip |-> crackers[c].ip, first |-> crackers[c].first]
      <3>5. x \in left' /\ x.id = c
        BY <2>1, <2>6, <3>4
      <3>6. QED
        BY <3>5
    <2>7. \A x \in left' : x.id \in DOMAIN crackers /\ x.ip = crackers[x.id].ip
      BY <2>1 DEF Candidates
    <2>8. SearchOK'
      BY <1>1, <1>4, <1>7, <2>1, <2>6, <2>7 DEF SearchOK
    <2>9. QED
      BY <1>6, <2>3, <2>5, <2>8 DEF PollInv
  <1>11. CASE FindCandidate
    <2>1. PICK x \in left :
            /\ left' = left \ {x} /\ x.id \in DOMAIN crackers
            /\ cand' = [id |-> x.id, row |-> crackers[x.id]] /\ qpc' = "reports"
      BY <1>4, <1>11 DEF FindCandidate, SearchOK
    <2>2. UNCHANGED <<since, told, late, cut, asOf, added, found>> /\ qpc = "cracker"
      BY <1>11 DEF FindCandidate, client, excuses
    <2>3. cand'.id = x.id /\ cand'.row = crackers[x.id]
      BY <2>1
    <2>4. LatesOK'
      BY <1>1, <1>4, <1>5, <2>1, <2>2 DEF LatesOK, Horizon
    <2>5. ToldOK'
      BY <1>1, <1>4, <1>7, <2>2 DEF ToldOK, Excused
    <2>6. SearchOK'
      <3>1. \A y \in left' : y.id \in DOMAIN crackers /\ y.ip = crackers[y.id].ip
        BY <1>4, <2>1 DEF SearchOK
      <3>2. ASSUME NEW c \in DOMAIN crackers, Shown(c, asOf), crackers[c].ip \notin Excused \cup found \cup added
            PROVE  (\E y \in left' : y.id = c) \/ cand'.id = c
        <4>1. PICK y \in left : y.id = c
          BY <1>4, <2>2, <3>2 DEF SearchOK
        <4>2. QED
          BY <2>1, <2>3, <4>1
      <3>3. Excused' = Excused
        BY <2>2 DEF Excused
      <3>4. QED
        BY <1>1, <1>4, <1>7, <2>1, <2>2, <2>3, <3>1, <3>2, <3>3 DEF SearchOK
    <2>7. QED
      BY <1>6, <2>4, <2>5, <2>6 DEF PollInv
  <1>12. CASE ExamineReports
    <2>1. /\ UNCHANGED <<since, told, late, cut, asOf, added, left>> /\ qpc = "reports"
          /\ qpc' \in {"cracker", "answer"}
          /\ found' = found \cup (IF Qualifies(ReportsOf(cand.id), cand.row.first, since)
                                  THEN {cand.row.ip} ELSE {})
      BY <1>12 DEF ExamineReports, Turn, client, excuses
    <2>2. PICK d \in DOMAIN crackers :
            d = cand.id /\ cand.row.ip = crackers[d].ip /\ cand.row.first = crackers[d].first
      BY <1>4, <2>1 DEF SearchOK
    <2>3. LatesOK'
      BY <1>1, <1>4, <1>5, <2>1 DEF LatesOK, Horizon
    <2>4. ToldOK'
      BY <1>1, <1>4, <1>7, <2>1 DEF ToldOK, Excused
    <2>5. ASSUME Shown(d, asOf), crackers[d].ip \notin Excused
          PROVE  crackers[d].ip \in found'
      <3>1. PICK r \in ReportsOf(d) : Resilient(r, crackers[d].first)
        BY <2>5 DEF Shown
      <3>2. ~Shown(d, since)
        BY <1>4, <2>5 DEF ToldOK
      <3>3. reports[r].latest \in Int
        BY QueryNumbers DEF ReportsOf
      <3>4. reports[r].latest >= since
        BY <1>2, <3>1, <3>2, <3>3 DEF Shown
      <3>5. ResilientSince(ReportsOf(d), crackers[d].first, since)
        BY <3>1, <3>2, <3>4 DEF ResilientSince, Shown
      <3>6. QED
        BY <2>1, <2>2, <3>5 DEF Qualifies
    <2>6. SearchOK'
      <3>1. ASSUME NEW c \in DOMAIN crackers, Shown(c, asOf), crackers[c].ip \notin Excused \cup found' \cup added
            PROVE  \E y \in left : y.id = c
        <4>1. (\E x \in left : x.id = c) \/ cand.id = c
          BY <1>4, <2>1, <3>1 DEF SearchOK
        <4>2. cand.id # c
          BY <2>2, <2>5, <3>1
        <4>3. QED
          BY <4>1, <4>2
      <3>2. Excused' = Excused
        BY <2>1 DEF Excused
      <3>3. QED
        BY <1>1, <1>4, <1>7, <2>1, <3>1, <3>2 DEF SearchOK
    <2>7. QED
      BY <1>6, <2>3, <2>4, <2>6 DEF PollInv
  <1>13. CASE Answer
    <2>1. /\ qpc = "answer" /\ qpc' = "idle" /\ since' = asOf /\ told' = told \cup found \cup added
          /\ cut' = cut \cup {x.ip : x \in left} /\ left' = {} /\ late' = late
      BY <1>13 DEF Answer, Forget
    <2>2. LatesOK'
      BY <1>1, <1>4, <1>5, <2>1 DEF LatesOK, Horizon
    <2>3. ToldOK'
      <3>1. SUFFICES ASSUME NEW c \in DOMAIN crackers, Shown(c, asOf) PROVE crackers[c].ip \in Excused'
        BY <1>1, <1>7, <2>1 DEF ToldOK
      <3>2. CASE crackers[c].ip \in Excused \cup found \cup added
        BY <2>1, <3>2 DEF Excused
      <3>3. CASE \E x \in left : x.id = c
        <4>1. PICK x \in left : x.id = c
          BY <3>3
        <4>2. x.ip = crackers[c].ip
          BY <1>4, <4>1 DEF SearchOK
        <4>3. QED
          BY <2>1, <4>1, <4>2 DEF Excused
      <3>4. QED
        BY <1>4, <2>1, <3>1, <3>2, <3>3 DEF SearchOK
    <2>4. SearchOK'
      BY <2>1 DEF SearchOK
    <2>5. QED
      BY <1>6, <2>2, <2>3, <2>4 DEF PollInv
  <1>14. CASE FailQuery
    <2>1. /\ qpc # "idle" /\ qpc' = "idle" /\ UNCHANGED <<since, told, late, cut>> /\ left' = {}
      BY <1>14 DEF FailQuery, Forget, client, excuses
    <2>2. LatesOK'
      <3>1. Horizon' = since /\ since <= Horizon
        BY <1>2, <1>4, <2>1 DEF Horizon, SearchOK
      <3>2. \A q \in Request : pc[q] # "idle" /\ sub[q].when <= since => sub[q].when <= Horizon
        BY <1>2, <1>8, <3>1 DEF Horizon
      <3>3. QED
        BY <1>1, <1>4, <1>5, <2>1, <3>1, <3>2 DEF LatesOK
    <2>3. ToldOK'
      BY <1>1, <1>4, <1>7, <2>1 DEF ToldOK, Excused
    <2>4. SearchOK'
      BY <2>1 DEF SearchOK
    <2>5. QED
      BY <1>6, <2>2, <2>3, <2>4 DEF PollInv
  <1>15. QED
    BY <1>9, <1>10, <1>11, <1>12, <1>13, <1>14 DEF QueryStep

LEMMA PollInit == QInit => PollInv
  <1> SUFFICES ASSUME QInit PROVE PollInv
    OBVIOUS
  <1>1. /\ DOMAIN crackers = {} /\ DOMAIN reports = {} /\ \A q \in Request : pc[q] = "idle" /\ obj[q] = NULL
        /\ qpc = "idle" /\ left = {}
    BY DEF QInit, Init, Task
  <1>2. QED
    BY <1>1 DEF PollInv, FirstsOK, StampsOK, UpToDateOK, LatesOK, ToldOK, SearchOK

\* When reports are served one at a time, with stamps of their arrival, no maintenance and
\* a threshold of one reporter, a client that polls misses a host only in the two ways
\* that get_qualifying_crackers and its answer have to miss one (the report was late, the
\* answer full), though a query takes no lock and reports are merged between its SELECTs.
THEOREM PollsMissNothing ==
  ASSUME Job = {}, \A p, q \in Request : p = q, MaxDelay = 0, Threshold = 1
  PROVE  QSpec => []NothingMissed
  <1> DEFINE Inv == MergeInv /\ CountsOK /\ QTypeOK /\ QLocalsOK
  <1>1. ASSUME Inv, PollInv PROVE NothingMissed
    <2>1. SUFFICES ASSUME faults = 0, qpc = "idle", \A q \in Request : pc[q] = "idle",
                          NEW c \in DOMAIN crackers, Due(c), crackers[c].ip \notin Excused
                   PROVE  /\ c \in Candidates(since)
                          /\ Qualifies(ReportsOf(c), crackers[c].first, since)
      BY DEF NothingMissed, Excused
    <2>2. UpToDateOK /\ ToldOK
      BY <1>1, <2>1 DEF PollInv
    <2>3. PICK r \in ReportsOf(c) : Resilient(r, crackers[c].first)
      BY <2>1 DEF Due
    <2>4. ~Shown(c, since)
      BY <2>1, <2>2 DEF ToldOK
    <2>5. c \in Candidates(since)
      BY <1>1, <2>1, <2>2, <2>3, <2>4, ShownQualifies
    <2>6. reports[r].latest \in Int /\ since \in Int
      BY <1>1, QueryNumbers, TimeAssumption DEF ReportsOf, QTypeOK, Never, MergeInv, IndInv, TypeOK, ControlOK
    <2>7. ResilientSince(ReportsOf(c), crackers[c].first, since)
      BY <2>3, <2>4, <2>6 DEF ResilientSince, Shown
    <2>8. QED
      BY <2>5, <2>7 DEF Qualifies
  <1>2. ASSUME Inv, PollInv, [QNext]_<<vars, queryVars>> PROVE PollInv'
    <2>1. CASE StoreStep
      BY <1>2, <2>1, StoreKeepsPoll
    <2>2. CASE QueryStep /\ UNCHANGED vars
      BY <1>2, <2>2, QueryKeepsPoll
    <2>3. CASE Restart
      <3>1. faults' = faults + 1 /\ faults \in Nat
        BY <1>2, <2>3 DEF Restart, MergeInv, IndInv, TypeOK, ControlOK
      <3>2. faults' # 0
        BY <3>1
      <3>3. QED
        BY <3>2 DEF PollInv
    <2>4. CASE UNCHANGED <<vars, queryVars>>
      <3>1. UNCHANGED <<crackers, reports, pc, sub, todo, obj, faults, now>>
        BY <2>4 DEF vars
      <3>2. UNCHANGED <<qpc, since, told, asOf, added, left, cand, found, late, cut>>
        BY <2>4 DEF queryVars, client, search, excuses
      <3>3. /\ \A q : HostsOf(q)' = HostsOf(q)
            /\ \A c : UpToDate(c)' <=> UpToDate(c)
            /\ \A c : Shown(c, since)' <=> Shown(c, since)
            /\ \A c : Shown(c, asOf)' <=> Shown(c, asOf)
            /\ Excused' = Excused /\ Horizon' = Horizon
        BY <3>1, <3>2 DEF HostsOf, UpToDate, Shown, ReportsOf, Resilient, Excused, Horizon
      <3>4. /\ FirstsOK' <=> FirstsOK
            /\ StampsOK' <=> StampsOK
            /\ UpToDateOK' <=> UpToDateOK
            /\ LatesOK' <=> LatesOK
            /\ ToldOK' <=> ToldOK
            /\ SearchOK' <=> SearchOK
        BY <3>1, <3>2, <3>3 DEF FirstsOK, StampsOK, UpToDateOK, LatesOK, ToldOK, SearchOK
      <3>5. QED
        BY <1>2, <3>1, <3>4 DEF PollInv
    <2>5. QED
      BY <1>2, <2>1, <2>2, <2>3, <2>4 DEF QNext
  <1>3. QSpec => []Inv
    <2>1. QSpec => [](MergeInv /\ CountsOK)
      BY QueriesOnlyRead, StoreCounts, PTL
    <2>2. QSpec => [](QTypeOK /\ QLocalsOK)
      BY QueryInvariant
    <2>3. QED
      BY <2>1, <2>2, PTL
  <1> HIDE DEF Inv
  <1>4. QSpec => [](Inv /\ PollInv)
    <2>1. Inv /\ PollInv /\ [QNext]_<<vars, queryVars>> => PollInv'
      BY <1>2
    <2>2. QED
      BY <1>3, <2>1, PollInit, PTL DEF QSpec
  <1>5. QED
    BY <1>1, <1>4, PTL
================================================================================
