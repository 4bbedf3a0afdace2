----------------------------- MODULE LegacySyncProofs -----------------------------
(***************************************************************************)
(* Theorems about LegacySync, for any hosts, downloads, failures, stops    *)
(* and purges: the time of the last synchronisation never runs ahead of    *)
(* the hosts, and a client that polls misses a host only in the ways that  *)
(* the model names.                                                        *)
(***************************************************************************)
EXTENDS LegacySync, FiniteSetTheorems, TLAPS

USE LegacyAssumption
USE DEF server, downloads, pass, client, history, clock

--------------------------------------------------------------------------------
(* The inductive invariant.                                                   *)

\* TypeOK, part by part.
TableTypes ==
  /\ DOMAIN legacy \subseteq Id /\ \A i \in DOMAIN legacy : legacy[i] \in LegacyRow
  /\ \A i, k \in DOMAIN legacy : legacy[i].ip = legacy[k].ip => i = k
TimeTypes ==
  /\ now \in 1..MaxTime /\ published \in [Host -> 1..now \cup {NULL}]
  /\ lastSync \in 0..now /\ writes \subseteq 0..now
  /\ asOf \in 0..now /\ since \in 0..now /\ heard \in 0..now
  /\ at \in [Download -> 0..now]
TaskTypes ==
  /\ up \in BOOLEAN /\ job \in Download \cup {NULL} /\ purge \in {"idle", "stamp"}
  /\ pc \in [Download -> {"idle", "answer", "find", "save"}]
  /\ reply \in [Download -> Answers \cup {NULL}] /\ todo \in [Download -> SUBSET Host]
  /\ obj \in [Download -> [ip : Host, id : Id \cup {NULL}] \cup {NULL}]
  /\ mpc \in {"idle", "delete", "dead"} /\ qpc \in {"idle", "extras"}
SetTypes ==
  doomed \subseteq Id /\ told \subseteq Host /\ lost \subseteq Host /\ missed \subseteq Host

\* There are finitely many ids in use.
FinitelyMany == IsFiniteSet(DOMAIN legacy) /\ IsFiniteSet(doomed)

\* What a download holds at each of its labels; nothing happens while the server is
\* down, the purge of the table apart.
TasksOK ==
  /\ \A d \in Download :
       /\ pc[d] = "answer" => reply[d] \in Answers /\ reply[d].stamp <= now
       /\ pc[d] = "save"   => /\ obj[d] \in [ip : Host, id : Id \cup {NULL}]
                              /\ obj[d].ip \in todo[d]
       /\ pc[d] # "save"   => obj[d] = NULL
       /\ pc[d] \in {"idle", "answer"} => todo[d] = {}
  /\ ~up => writes = {} /\ \A d \in Download : pc[d] = "idle"
  /\ purge = "stamp" => ~up

\* An entry that a download looked up is there, or was deleted.
FoundOK ==
  \A d \in Download : pc[d] = "save" /\ obj[d].id # NULL =>
    /\ obj[d].ip \in Known \cup lost
    /\ obj[d].id \in DOMAIN legacy => legacy[obj[d].id].ip = obj[d].ip

\* Hosts that are dealt with, and those published before a time.
Safe     == Known \cup Pending \cup lost
Early(t) == {h \in Host : published[h] # NULL /\ published[h] < t}

\* What was published before any time that is, or may come to be, the time of the last
\* synchronisation.
SyncOK ==
  /\ Early(lastSync) \subseteq Safe
  /\ \A t \in writes : Early(t) \subseteq Safe
  /\ \A d \in Download :
       pc[d] = "answer" => Early(reply[d].stamp) \subseteq Safe \cup reply[d].hosts

ClientOK == heard = since /\ LegacyNotMissed

LegacyInv ==
  /\ TableTypes /\ TimeTypes /\ TaskTypes /\ SetTypes
  /\ FinitelyMany /\ TasksOK /\ FoundOK /\ SyncOK /\ ClientOK

LEMMA TypesTogether == LegacyInv => TypeOK
  BY DEF LegacyInv, TableTypes, TimeTypes, TaskTypes, SetTypes, TypeOK

--------------------------------------------------------------------------------
(* What becomes of the table.                                                 *)

\* AUTOINCREMENT: there is an id that nobody uses.
LEMMA NewIdIsNew ==
  ASSUME FinitelyMany
  PROVE  NewId \in Id /\ NewId \notin UsedIds
  <1> DEFINE D == {d \in Download : obj[d] # NULL}
             S == {obj[d].id : d \in D}
             U == UsedIds
  <1>1. IsFiniteSet(S)
    <2>1. IsFiniteSet(D)
      BY FS_Subset
    <2>2. [d \in D |-> obj[d].id] \in Surjection(D, S)
      BY DEF Surjection
    <2> HIDE DEF D, S
    <2>3. QED
      BY <2>1, <2>2, FS_Surjection
  <1>2. IsFiniteSet(U)
    <2>1. U = (DOMAIN legacy \cup doomed) \cup S
      BY DEF UsedIds
    <2> HIDE DEF S, U
    <2>2. IsFiniteSet(DOMAIN legacy \cup doomed)
      BY FS_Union DEF FinitelyMany
    <2>3. QED
      BY <1>1, <2>1, <2>2, FS_Union
  <1> DEFINE n == Cardinality(U)
  <1> HIDE DEF U
  <1>3. n \in Nat
    BY <1>2, FS_CardinalityType
  <1>4. \E i \in 1..(n + 1) : i \notin U
    <2>1. SUFFICES ASSUME 1..(n + 1) \subseteq U PROVE FALSE
      OBVIOUS
    <2>2. Cardinality(1..(n + 1)) <= n
      BY <1>2, <2>1, FS_Subset
    <2>3. Cardinality(1..(n + 1)) = n + 1
      <3> HIDE DEF n
      <3>1. 1 \in Int /\ n + 1 \in Int /\ ~(1 > n + 1) /\ (n + 1) - 1 + 1 = n + 1
        BY <1>3
      <3>2. QED
        BY <3>1, FS_Interval
    <2> HIDE DEF n
    <2>4. QED
      BY <1>3, <2>2, <2>3
  <1>5. NewId = CHOOSE i \in 1..(n + 1) : i \notin U
    BY DEF NewId, U
  <1> HIDE DEF n
  <1>6. NewId \in 1..(n + 1) /\ NewId \notin U
    BY <1>4, <1>5
  <1>7. QED
    BY <1>3, <1>6 DEF Id, U

\* legacy.save(): the entry of the host is new, or updated, or it is gone.
LEMMA SaveFacts ==
  ASSUME LegacyInv, NEW d \in Download, SaveLegacy(d)
  PROVE  /\ pc[d] = "save" /\ obj[d] \in [ip : Host, id : Id \cup {NULL}] /\ obj[d].ip \in todo[d]
         /\ \/ \E n \in Id :
                 /\ DOMAIN legacy' = DOMAIN legacy \cup {n}
                 /\ legacy'[n] = [ip |-> obj[d].ip, retrieved |-> at[d]]
                 /\ \A i \in DOMAIN legacy : i # n => legacy'[i] = legacy[i] /\ legacy[i].ip # obj[d].ip
                 /\ \/ n \notin UsedIds
                    \/ n \in DOMAIN legacy /\ legacy[n].ip = obj[d].ip
                 /\ lost' = lost \ {obj[d].ip}
                 /\ missed' = IF at[d] <= heard THEN missed \cup {obj[d].ip} ELSE missed \ {obj[d].ip}
            \/ /\ DOMAIN legacy' = DOMAIN legacy /\ \A i \in DOMAIN legacy : legacy'[i] = legacy[i]
               /\ obj[d].ip \in Known \cup lost /\ UNCHANGED history
  <1> DEFINE h == obj[d].ip
             k == obj[d].id
             row == [ip |-> h, retrieved |-> at[d]]
  <1>1. /\ pc[d] = "save" /\ obj[d] \in [ip : Host, id : Id \cup {NULL}] /\ obj[d].ip \in todo[d]
        /\ k \in Id \cup {NULL}
    BY DEF LegacyInv, TasksOK, SaveLegacy
  <1>2. CASE k = NULL
    <2>1. \A i \in DOMAIN legacy : legacy[i].ip # h
      BY <1>2 DEF SaveLegacy, Clashes, Entry
    <2>2. /\ legacy' = InsertRow(legacy, NewId, row) /\ lost' = lost \ {h}
          /\ missed' = IF at[d] <= heard THEN missed \cup {h} ELSE missed \ {h}
      BY <1>2 DEF SaveLegacy
    <2>3. PICK n \in Id : n = NewId /\ n \notin UsedIds
      BY NewIdIsNew DEF LegacyInv
    <2>4. legacy' = [i \in DOMAIN legacy \cup {n} |-> IF i = n THEN row ELSE legacy[i]]
      BY <2>2, <2>3 DEF InsertRow
    <2> HIDE DEF h, k, row
    <2>5. /\ DOMAIN legacy' = DOMAIN legacy \cup {n} /\ legacy'[n] = row
          /\ \A i \in DOMAIN legacy : i # n => legacy'[i] = legacy[i]
      BY <2>4
    <2>6. QED
      BY <1>1, <2>1, <2>2, <2>3, <2>5 DEF h, row
  <1>3. CASE k # NULL
    <2>1. legacy' = UpdateRow(legacy, k, row)
      BY <1>3 DEF SaveLegacy
    <2>2. legacy' = [i \in DOMAIN legacy |-> IF i = k THEN row ELSE legacy[i]]
      BY <2>1 DEF UpdateRow
    <2>3. FoundOK /\ TableTypes
      BY DEF LegacyInv
    <2>4. h \in Known \cup lost /\ (k \in DOMAIN legacy => legacy[k].ip = h)
      BY <1>1, <1>3, <2>3 DEF FoundOK
    <2>5. CASE k \in DOMAIN legacy
      <3>1. /\ lost' = lost \ {h}
            /\ missed' = IF at[d] <= heard THEN missed \cup {h} ELSE missed \ {h}
        BY <2>5 DEF SaveLegacy
      <3>2. legacy[k].ip = h /\ \A i \in DOMAIN legacy : i # k => legacy[i].ip # h
        BY <2>3, <2>4, <2>5 DEF TableTypes
      <3> HIDE DEF h, k, row
      <3>3. /\ DOMAIN legacy' = DOMAIN legacy \cup {k} /\ legacy'[k] = row
            /\ \A i \in DOMAIN legacy : i # k => legacy'[i] = legacy[i]
        BY <2>2, <2>5
      <3>4. k \in Id
        BY <1>1, <1>3
      <3>5. QED
        BY <1>1, <2>5, <3>1, <3>2, <3>3, <3>4 DEF h, row
    <2>6. CASE k \notin DOMAIN legacy
      <3>1. UNCHANGED history
        BY <1>3, <2>6 DEF SaveLegacy
      <3> HIDE DEF h, k, row
      <3>2. DOMAIN legacy' = DOMAIN legacy /\ \A i \in DOMAIN legacy : legacy'[i] = legacy[i]
        BY <2>2, <2>6
      <3>3. QED
        BY <1>1, <2>4, <3>1, <3>2 DEF h
    <2>7. QED
      BY <2>5, <2>6
  <1>4. QED
    BY <1>2, <1>3

\* The other statements leave the table alone or delete entries, whose hosts are lost.
Shrinks ==
  /\ DOMAIN legacy' \subseteq DOMAIN legacy
  /\ \A i \in DOMAIN legacy' : legacy'[i] = legacy[i]
  /\ \A i \in DOMAIN legacy \ DOMAIN legacy' : legacy[i].ip \in lost'

LEMMA DeleteFacts ==
  ASSUME LegacyInv, DeleteLegacy \/ PurgeTable \/ \E h \in Host : PurgeIp(h)
  PROVE  /\ Shrinks /\ lost \subseteq lost' /\ lost' \subseteq Host
         /\ UNCHANGED <<clock, downloads, client, missed>>
  <1>1. \A i \in DOMAIN legacy : legacy[i].ip \in Host
    BY DEF LegacyInv, TableTypes, LegacyRow
  <1>2. lost \subseteq Host
    BY DEF LegacyInv, SetTypes
  <1>3. CASE DeleteLegacy
    <2>1. PICK i \in doomed : /\ legacy' = DeleteRow(legacy, i)
                              /\ lost' = lost \cup Ips(DOMAIN legacy \cap {i})
      BY <1>3 DEF DeleteLegacy
    <2>2. legacy' = [k \in DOMAIN legacy \ {i} |-> legacy[k]]
      BY <2>1 DEF DeleteRow, Restrict
    <2>3. DOMAIN legacy' = DOMAIN legacy \ {i}
      BY <2>2
    <2>4. \A k \in DOMAIN legacy' : legacy'[k] = legacy[k]
      BY <2>2, <2>3
    <2>5. Shrinks
      BY <2>1, <2>3, <2>4 DEF Shrinks, Ips
    <2>6. lost' \subseteq Host
      BY <1>1, <1>2, <2>1 DEF Ips
    <2>7. QED
      BY <1>3, <2>1, <2>5, <2>6 DEF DeleteLegacy
  <1>4. CASE PurgeTable
    <2>1. DOMAIN legacy' = {} /\ lost' = lost \cup {legacy[i].ip : i \in DOMAIN legacy}
      BY <1>4 DEF PurgeTable, Known, Ips
    <2>2. QED
      BY <1>1, <1>2, <1>4, <2>1 DEF Shrinks, PurgeTable
  <1>5. CASE \E h \in Host : PurgeIp(h)
    <2>1. PICK h \in Host : PurgeIp(h)
      BY <1>5
    <2>2. legacy' = [k \in DOMAIN legacy \ Entry(h) |-> legacy[k]] /\ lost' = lost \cup {h}
      BY <2>1 DEF PurgeIp, Restrict
    <2>3. DOMAIN legacy' = DOMAIN legacy \ Entry(h) /\ \A k \in DOMAIN legacy' : legacy'[k] = legacy[k]
      BY <2>2
    <2>4. Shrinks
      BY <2>2, <2>3 DEF Shrinks, Entry
    <2>5. QED
      BY <1>2, <1>5, <2>1, <2>2, <2>4 DEF PurgeIp
  <1>6. QED
    BY <1>3, <1>4, <1>5

LEMMA TableSteps ==
  ASSUME LegacyInv, [Next]_vars
  PROVE  \/ legacy' = legacy
         \/ \E d \in Download : SaveLegacy(d)
         \/ Shrinks
  <1>1. CASE \E d \in Download : Ask(d) \/ Receive(d) \/ FindLegacy(d) \/ ClashLegacy(d) \/ FailDownload(d)
    BY <1>1 DEF Ask, Receive, FindLegacy, ClashLegacy, FailDownload, Abandon
  <1>2. CASE UNCHANGED vars
    BY <1>2 DEF vars
  <1>3. CASE \/ StoreSyncTime \/ LoseSyncTime \/ FailRead \/ Reload \/ ScanLegacy \/ FailPass
             \/ Poll \/ Answer \/ FailPoll \/ Stop \/ Start \/ PurgeSyncTime \/ FailPurge \/ Tick
             \/ \E h \in Host : Publish(h)
    BY <1>3
    DEF StoreSyncTime, LoseSyncTime, FailRead, Reload, ScanLegacy, FailPass, Poll, Answer, FailPoll,
        Stop, Start, PurgeSyncTime, FailPurge, Tick, Publish
  <1>4. QED
    BY <1>1, <1>2, <1>3, DeleteFacts DEF Next, DownloadStep

--------------------------------------------------------------------------------
(* Each part of the invariant is kept.                                        *)

LEMMA TableStep ==
  ASSUME LegacyInv, [Next]_vars
  PROVE  TableTypes'
  <1>1. TableTypes
    BY DEF LegacyInv
  <1>2. CASE legacy' = legacy
    BY <1>1, <1>2 DEF TableTypes
  <1>3. CASE Shrinks
    BY <1>1, <1>3 DEF TableTypes, Shrinks
  <1>4. CASE \E d \in Download : SaveLegacy(d)
    <2>1. PICK d \in Download : SaveLegacy(d)
      BY <1>4
    <2>2. obj[d].ip \in Host /\ at[d] \in Nat
      <3>1. obj[d] \in [ip : Host, id : Id \cup {NULL}]
        BY <2>1, SaveFacts
      <3>2. at[d] \in 0..now /\ now \in Nat
        BY DEF LegacyInv, TimeTypes
      <3>3. QED
        BY <3>1, <3>2
    <2> DEFINE row == [ip |-> obj[d].ip, retrieved |-> at[d]]
    <2>3. row \in LegacyRow /\ row.ip = obj[d].ip
      BY <2>2 DEF LegacyRow
    <2>4. CASE \E n \in Id :
                 /\ DOMAIN legacy' = DOMAIN legacy \cup {n} /\ legacy'[n] = row
                 /\ \A i \in DOMAIN legacy : i # n => legacy'[i] = legacy[i] /\ legacy[i].ip # obj[d].ip
      <3> HIDE DEF row
      <3>1. QED
        BY <1>1, <2>3, <2>4 DEF TableTypes
    <2>5. CASE DOMAIN legacy' = DOMAIN legacy /\ \A i \in DOMAIN legacy : legacy'[i] = legacy[i]
      BY <1>1, <2>5 DEF TableTypes
    <2>6. QED
      BY <2>1, <2>4, <2>5, SaveFacts
  <1>5. QED
    BY <1>2, <1>3, <1>4, TableSteps

LEMMA FinitelyManyStep ==
  ASSUME LegacyInv, [Next]_vars
  PROVE  FinitelyMany'
  <1>1. IsFiniteSet(DOMAIN legacy) /\ IsFiniteSet(doomed)
    BY DEF LegacyInv, FinitelyMany
  <1>2. IsFiniteSet(DOMAIN legacy')
    <2>1. CASE legacy' = legacy
      BY <1>1, <2>1
    <2>2. CASE Shrinks
      BY <1>1, <2>2, FS_Subset DEF Shrinks
    <2>3. CASE \E d \in Download : SaveLegacy(d)
      <3>1. DOMAIN legacy' = DOMAIN legacy \/ \E n \in Id : DOMAIN legacy' = DOMAIN legacy \cup {n}
        BY <2>3, SaveFacts
      <3>2. ASSUME NEW n, DOMAIN legacy' = DOMAIN legacy \cup {n}
            PROVE  IsFiniteSet(DOMAIN legacy')
        BY <1>1, <3>2, FS_AddElement
      <3>3. QED
        BY <1>1, <3>1, <3>2
    <2>4. QED
      BY <2>1, <2>2, <2>3, TableSteps
  <1>3. doomed' \subseteq doomed \/ doomed' \subseteq DOMAIN legacy
    <2>1. CASE \E d \in Download : DownloadStep(d) \/ FailDownload(d)
      BY <2>1 DEF DownloadStep, Ask, Receive, FindLegacy, SaveLegacy, ClashLegacy, FailDownload, Abandon
    <2>2. CASE ScanLegacy \/ DeleteLegacy \/ FailPass
      BY <2>2 DEF ScanLegacy, DeleteLegacy, FailPass
    <2>3. CASE UNCHANGED vars
      BY <2>3 DEF vars
    <2>4. CASE \/ StoreSyncTime \/ LoseSyncTime \/ FailRead \/ Reload \/ Poll \/ Answer \/ FailPoll
               \/ Stop \/ Start \/ PurgeTable \/ PurgeSyncTime \/ FailPurge \/ Tick
               \/ \E h \in Host : PurgeIp(h) \/ Publish(h)
      BY <2>4
      DEF StoreSyncTime, LoseSyncTime, FailRead, Reload, Poll, Answer, FailPoll, Stop, Start,
          PurgeTable, PurgeSyncTime, FailPurge, Tick, PurgeIp, Publish
    <2>5. QED
      BY <2>1, <2>2, <2>3, <2>4 DEF Next
  <1>4. IsFiniteSet(doomed')
    BY <1>1, <1>3, FS_Subset
  <1>5. QED
    BY <1>2, <1>4 DEF FinitelyMany

\* A run of the download ends.
LEMMA AbandonFacts ==
  ASSUME LegacyInv, NEW d \in Download, ClashLegacy(d) \/ FailDownload(d)
  PROVE  Abandon(d)
  BY DEF ClashLegacy, FailDownload

LEMMA TimeStep ==
  ASSUME LegacyInv, [Next]_vars
  PROVE  TimeTypes'
  <1>1. TimeTypes /\ now \in Nat
    BY DEF LegacyInv, TimeTypes
  <1>2. ASSUME NEW d \in Download, Ask(d)
        PROVE  TimeTypes'
    BY <1>1, <1>2 DEF Ask, TimeTypes
  <1>3. ASSUME NEW d \in Download, Receive(d)
        PROVE  TimeTypes'
    <2>1. reply[d] \in Answers /\ reply[d].stamp <= now
      BY <1>3 DEF LegacyInv, TasksOK, Receive
    <2>2. writes' \subseteq 0..now
      <3>1. reply[d].stamp \in 0..now
        BY <1>1, <2>1 DEF Answers
      <3>2. QED
        BY <1>1, <1>3, <3>1 DEF Receive, TimeTypes
    <2>3. at' \in [Download -> 0..now]
      BY <1>1, <1>3 DEF Receive, Turn, TimeTypes
    <2>4. QED
      BY <1>1, <1>3, <2>2, <2>3 DEF Receive, TimeTypes
  <1>4. ASSUME NEW d \in Download, FindLegacy(d)
        PROVE  TimeTypes'
    BY <1>1, <1>4 DEF FindLegacy, TimeTypes
  <1>5. ASSUME NEW d \in Download, SaveLegacy(d)
        PROVE  TimeTypes'
    <2>1. at' \in [Download -> 0..now]
      BY <1>1, <1>5 DEF SaveLegacy, Turn, TimeTypes
    <2>2. QED
      BY <1>1, <1>5, <2>1 DEF SaveLegacy, TimeTypes
  <1>6. ASSUME NEW d \in Download, Abandon(d)
        PROVE  TimeTypes'
    <2>1. at' \in [Download -> 0..now]
      BY <1>1, <1>6 DEF Abandon, TimeTypes
    <2>2. QED
      BY <1>1, <1>6, <2>1 DEF Abandon, TimeTypes
  <1>7. CASE StoreSyncTime \/ LoseSyncTime
    BY <1>1, <1>7 DEF StoreSyncTime, LoseSyncTime, TimeTypes
  <1>8. CASE FailRead \/ Reload \/ ScanLegacy \/ DeleteLegacy \/ FailPass \/ Start \/ PurgeTable \/ FailPurge
             \/ UNCHANGED vars
    BY <1>1, <1>8
    DEF FailRead, Reload, ScanLegacy, DeleteLegacy, FailPass, Start, PurgeTable, FailPurge, TimeTypes, vars
  <1>9. CASE Poll \/ Answer \/ FailPoll
    <2>1. asOf' \in 0..now /\ since' \in 0..now /\ heard' \in 0..now
      BY <1>1, <1>9 DEF Poll, Answer, FailPoll, TimeTypes
    <2>2. QED
      BY <1>1, <1>9, <2>1 DEF Poll, Answer, FailPoll, TimeTypes
  <1>10. CASE Stop
    <2>1. at' \in [Download -> 0..now] /\ asOf' = 0 /\ writes' = {}
      BY <1>1, <1>10 DEF Stop
    <2>2. QED
      BY <1>1, <1>10, <2>1 DEF Stop, TimeTypes
  <1>11. CASE PurgeSyncTime
    BY <1>1, <1>11 DEF PurgeSyncTime, TimeTypes
  <1>12. ASSUME NEW h \in Host, PurgeIp(h) \/ Publish(h)
         PROVE  TimeTypes'
    <2>1. published' \in [Host -> 1..now \cup {NULL}]
      BY <1>1, <1>12 DEF PurgeIp, Publish, TimeTypes
    <2>2. QED
      BY <1>1, <1>12, <2>1 DEF PurgeIp, Publish, TimeTypes
  <1>13. CASE Tick
    <2>1. now' = now + 1 /\ now' \in 1..MaxTime /\ 0..now \subseteq 0..now' /\ 1..now \subseteq 1..now'
      BY <1>1, <1>13 DEF Tick, TimeTypes
    <2>2. published \in [Host -> 1..now' \cup {NULL}] /\ at \in [Download -> 0..now']
      BY <1>1, <2>1 DEF TimeTypes
    <2>3. QED
      BY <1>1, <1>13, <2>1, <2>2 DEF Tick, TimeTypes
  <1>14. QED
    BY <1>2, <1>3, <1>4, <1>5, <1>6, <1>7, <1>8, <1>9, <1>10, <1>11, <1>12, <1>13, AbandonFacts
    DEF Next, DownloadStep

LEMMA TaskStep ==
  ASSUME LegacyInv, [Next]_vars
  PROVE  TaskTypes'
  <1>1. TaskTypes /\ TimeTypes /\ TableTypes /\ TasksOK
    BY DEF LegacyInv
  <1>2. ASSUME NEW d \in Download, Ask(d)
        PROVE  TaskTypes'
    <2>1. Answered(lastSync) \in Answers
      BY <1>1 DEF Answered, Answers, TimeTypes
    <2>2. reply' \in [Download -> Answers \cup {NULL}]
      BY <1>1, <1>2, <2>1 DEF Ask, TaskTypes
    <2>3. pc' \in [Download -> {"idle", "answer", "find", "save"}]
      BY <1>1, <1>2 DEF Ask, Goto, TaskTypes
    <2>4. QED
      BY <1>1, <1>2, <2>2, <2>3 DEF Ask, TaskTypes
  <1>3. ASSUME NEW d \in Download, Receive(d)
        PROVE  TaskTypes'
    <2>1. reply[d].hosts \subseteq Host
      BY <1>1, <1>3 DEF TasksOK, Receive, Answers
    <2>2. reply' \in [Download -> Answers \cup {NULL}] /\ todo' \in [Download -> SUBSET Host]
      BY <1>1, <1>3, <2>1 DEF Receive, TaskTypes
    <2>3. pc' \in [Download -> {"idle", "answer", "find", "save"}]
      BY <1>1, <1>3 DEF Receive, Turn, Goto, TaskTypes
    <2>4. QED
      BY <1>1, <1>3, <2>2, <2>3 DEF Receive, TaskTypes
  <1>4. ASSUME NEW d \in Download, FindLegacy(d)
        PROVE  TaskTypes'
    <2>1. PICK h \in todo[d] : obj' = [obj EXCEPT ![d] =
             [ip |-> h, id |-> IF Entry(h) = {} THEN NULL ELSE CHOOSE i \in Entry(h) : TRUE]]
      BY <1>4 DEF FindLegacy
    <2> DEFINE i == IF Entry(h) = {} THEN NULL ELSE CHOOSE i \in Entry(h) : TRUE
    <2>2. i \in Id \cup {NULL} /\ h \in Host
      BY <1>1 DEF Entry, TableTypes, TaskTypes
    <2>3. obj' = [obj EXCEPT ![d] = [ip |-> h, id |-> i]]
      BY <2>1
    <2> HIDE DEF i
    <2>4. obj' \in [Download -> [ip : Host, id : Id \cup {NULL}] \cup {NULL}]
      BY <1>1, <2>2, <2>3 DEF TaskTypes
    <2>5. pc' \in [Download -> {"idle", "answer", "find", "save"}]
      BY <1>1, <1>4 DEF FindLegacy, Goto, TaskTypes
    <2>6. QED
      BY <1>1, <1>4, <2>4, <2>5 DEF FindLegacy, TaskTypes
  <1>5. ASSUME NEW d \in Download, SaveLegacy(d)
        PROVE  TaskTypes'
    <2>1. todo' \in [Download -> SUBSET Host]
      BY <1>1, <1>5 DEF SaveLegacy, TaskTypes
    <2>2. obj' \in [Download -> [ip : Host, id : Id \cup {NULL}] \cup {NULL}]
      BY <1>1, <1>5 DEF SaveLegacy, TaskTypes
    <2>3. pc' \in [Download -> {"idle", "answer", "find", "save"}]
      BY <1>1, <1>5 DEF SaveLegacy, Turn, Goto, TaskTypes
    <2>4. QED
      BY <1>1, <1>5, <2>1, <2>2, <2>3 DEF SaveLegacy, TaskTypes
  <1>6. ASSUME NEW d \in Download, Abandon(d)
        PROVE  TaskTypes'
    <2>1. todo' \in [Download -> SUBSET Host] /\ reply' \in [Download -> Answers \cup {NULL}]
      BY <1>1, <1>6 DEF Abandon, TaskTypes
    <2>2. obj' \in [Download -> [ip : Host, id : Id \cup {NULL}] \cup {NULL}]
      BY <1>1, <1>6 DEF Abandon, TaskTypes
    <2>3. pc' \in [Download -> {"idle", "answer", "find", "save"}]
      BY <1>1, <1>6 DEF Abandon, Goto, TaskTypes
    <2>4. QED
      BY <1>1, <1>6, <2>1, <2>2, <2>3 DEF Abandon, TaskTypes
  <1>7. CASE StoreSyncTime \/ LoseSyncTime \/ Tick \/ UNCHANGED vars
    BY <1>1, <1>7 DEF StoreSyncTime, LoseSyncTime, Tick, TaskTypes, vars
  <1>8. CASE FailRead \/ Reload \/ ScanLegacy \/ DeleteLegacy \/ FailPass
    BY <1>1, <1>8 DEF FailRead, Reload, ScanLegacy, DeleteLegacy, FailPass, TaskTypes
  <1>9. CASE Poll \/ Answer \/ FailPoll
    BY <1>1, <1>9 DEF Poll, Answer, FailPoll, TaskTypes
  <1>10. CASE Stop
    <2>1. /\ pc' \in [Download -> {"idle", "answer", "find", "save"}]
          /\ todo' \in [Download -> SUBSET Host]
          /\ reply' \in [Download -> Answers \cup {NULL}]
          /\ obj' \in [Download -> [ip : Host, id : Id \cup {NULL}] \cup {NULL}]
      BY <1>10 DEF Stop
    <2>2. up' \in BOOLEAN
      BY <1>10 DEF Stop
    <2>3. QED
      BY <1>1, <1>10, <2>1, <2>2 DEF Stop, TaskTypes
  <1>11. CASE Start
    <2>1. up' \in BOOLEAN
      BY <1>11 DEF Start
    <2>2. QED
      BY <1>1, <1>11, <2>1 DEF Start, TaskTypes
  <1>12. CASE PurgeTable \/ PurgeSyncTime \/ FailPurge
    BY <1>1, <1>12 DEF PurgeTable, PurgeSyncTime, FailPurge, TaskTypes
  <1>13. CASE \E h \in Host : PurgeIp(h) \/ Publish(h)
    BY <1>1, <1>13 DEF PurgeIp, Publish, TaskTypes
  <1>14. QED
    BY <1>2, <1>3, <1>4, <1>5, <1>6, <1>7, <1>8, <1>9, <1>10, <1>11, <1>12, <1>13, AbandonFacts
    DEF Next, DownloadStep

LEMMA SetStep ==
  ASSUME LegacyInv, [Next]_vars
  PROVE  SetTypes'
  <1>1. SetTypes /\ TaskTypes /\ TableTypes
    BY DEF LegacyInv
  <1>2. ASSUME NEW d \in Download, Ask(d) \/ Receive(d) \/ FindLegacy(d)
        PROVE  SetTypes'
    BY <1>1, <1>2 DEF Ask, Receive, FindLegacy, SetTypes
  <1>3. ASSUME NEW d \in Download, SaveLegacy(d)
        PROVE  SetTypes'
    <2>1. obj[d].ip \in Host
      BY <1>3, SaveFacts
    <2>2. lost' \subseteq lost /\ missed' \subseteq missed \cup {obj[d].ip}
      BY <1>3, SaveFacts
    <2>3. QED
      BY <1>1, <1>3, <2>1, <2>2 DEF SaveLegacy, SetTypes
  <1>4. ASSUME NEW d \in Download, Abandon(d)
        PROVE  SetTypes'
    BY <1>1, <1>4 DEF Abandon, SetTypes, TaskTypes
  <1>5. CASE StoreSyncTime \/ LoseSyncTime \/ Tick \/ FailRead \/ Reload \/ UNCHANGED vars
    BY <1>1, <1>5 DEF StoreSyncTime, LoseSyncTime, Tick, FailRead, Reload, SetTypes, vars
  <1>6. CASE ScanLegacy \/ FailPass
    BY <1>1, <1>6 DEF ScanLegacy, FailPass, SetTypes, TableTypes
  <1>7. CASE DeleteLegacy \/ PurgeTable \/ \E h \in Host : PurgeIp(h)
    <2>1. lost' \subseteq Host
      BY <1>7, DeleteFacts
    <2>2. QED
      BY <1>1, <1>7, <2>1 DEF DeleteLegacy, PurgeTable, PurgeIp, SetTypes
  <1>8. CASE Answer
    <2>1. PICK room, S \in SUBSET Extras : told' = told \cup Ips(S) /\ missed' = (missed \ Ips(S)) \cup Ips(Extras \ S)
      BY <1>8 DEF Answer
    <2>2. Ips(Extras) \subseteq Host
      BY <1>1 DEF Ips, Extras, TableTypes, LegacyRow
    <2>3. Ips(S) \subseteq Ips(Extras) /\ Ips(Extras \ S) \subseteq Ips(Extras)
      BY DEF Ips
    <2>4. QED
      BY <1>1, <1>8, <2>1, <2>2, <2>3 DEF Answer, SetTypes
  <1>9. CASE Poll \/ FailPoll
    BY <1>1, <1>9 DEF Poll, FailPoll, SetTypes
  <1>10. CASE Stop
    <2>1. UNION {todo[d] : d \in Download} \subseteq Host
      BY <1>1 DEF TaskTypes
    <2>2. QED
      BY <1>1, <1>10, <2>1 DEF Stop, SetTypes
  <1>11. CASE Start \/ PurgeSyncTime \/ FailPurge
    BY <1>1, <1>11 DEF Start, PurgeSyncTime, FailPurge, SetTypes
  <1>12. CASE \E h \in Host : Publish(h)
    BY <1>1, <1>12 DEF Publish, SetTypes
  <1>13. QED
    BY <1>2, <1>3, <1>4, <1>5, <1>6, <1>7, <1>8, <1>9, <1>10, <1>11, <1>12, AbandonFacts
    DEF Next, DownloadStep

LEMMA TasksStep ==
  ASSUME LegacyInv, [Next]_vars
  PROVE  TasksOK'
  <1>1. TasksOK /\ TaskTypes /\ TimeTypes /\ TableTypes
    BY DEF LegacyInv
  <1>2. ASSUME NEW d \in Download, Ask(d)
        PROVE  TasksOK'
    <2>1. reply'[d] = Answered(lastSync) /\ \A e \in Download : e # d => reply'[e] = reply[e]
      BY <1>1, <1>2 DEF Ask, TaskTypes
    <2>2. Answered(lastSync) \in Answers /\ Answered(lastSync).stamp <= now
      BY <1>1 DEF Answered, Answers, TimeTypes
    <2>3. pc'[d] = "answer" /\ \A e \in Download : e # d => pc'[e] = pc[e]
      BY <1>1, <1>2 DEF Ask, Goto, TaskTypes
    <2>4. up /\ up' /\ UNCHANGED <<now, purge, writes, todo, obj>> /\ pc[d] = "idle"
      BY <1>2 DEF Ask
    <2>5. QED
      BY <1>1, <2>1, <2>2, <2>3, <2>4 DEF TasksOK
  <1>3. ASSUME NEW d \in Download, Receive(d)
        PROVE  TasksOK'
    <2>1. /\ todo'[d] = reply[d].hosts
          /\ \A e \in Download : e # d => todo'[e] = todo[e] /\ reply'[e] = reply[e]
      BY <1>1, <1>3 DEF Receive, TaskTypes
    <2>2. pc'[d] = (IF reply[d].hosts = {} THEN "idle" ELSE "find") /\ \A e \in Download : e # d => pc'[e] = pc[e]
      BY <1>1, <1>3 DEF Receive, Turn, Goto, TaskTypes
    <2>3. up /\ UNCHANGED <<now, up, purge, obj>> /\ pc[d] = "answer"
      BY <1>1, <1>3 DEF Receive, TasksOK
    <2>4. QED
      BY <1>1, <2>1, <2>2, <2>3 DEF TasksOK
  <1>4. ASSUME NEW d \in Download, FindLegacy(d)
        PROVE  TasksOK'
    <2>1. PICK h \in todo[d] : obj' = [obj EXCEPT ![d] =
             [ip |-> h, id |-> IF Entry(h) = {} THEN NULL ELSE CHOOSE i \in Entry(h) : TRUE]]
      BY <1>4 DEF FindLegacy
    <2> DEFINE i == IF Entry(h) = {} THEN NULL ELSE CHOOSE i \in Entry(h) : TRUE
    <2>2. i \in Id \cup {NULL} /\ h \in Host
      BY <1>1 DEF Entry, TableTypes, TaskTypes
    <2>3. obj' = [obj EXCEPT ![d] = [ip |-> h, id |-> i]]
      BY <2>1
    <2> HIDE DEF i
    <2>4. /\ obj'[d] \in [ip : Host, id : Id \cup {NULL}] /\ obj'[d].ip \in todo[d]
          /\ \A e \in Download : e # d => obj'[e] = obj[e]
      BY <1>1, <2>2, <2>3 DEF TaskTypes
    <2>5. pc'[d] = "save" /\ \A e \in Download : e # d => pc'[e] = pc[e]
      BY <1>1, <1>4 DEF FindLegacy, Goto, TaskTypes
    <2>6. up /\ UNCHANGED <<now, up, purge, writes, todo, reply>>
      BY <1>1, <1>4 DEF FindLegacy, TasksOK
    <2>7. QED
      BY <1>1, <2>4, <2>5, <2>6 DEF TasksOK
  <1>5. ASSUME NEW d \in Download, SaveLegacy(d)
        PROVE  TasksOK'
    <2>1. /\ obj'[d] = NULL /\ todo'[d] = todo[d] \ {obj[d].ip}
          /\ \A e \in Download : e # d => todo'[e] = todo[e] /\ obj'[e] = obj[e]
      BY <1>1, <1>5 DEF SaveLegacy, TaskTypes
    <2>2. pc'[d] = (IF todo[d] \ {obj[d].ip} = {} THEN "idle" ELSE "find")
          /\ \A e \in Download : e # d => pc'[e] = pc[e]
      BY <1>1, <1>5 DEF SaveLegacy, Turn, Goto, TaskTypes
    <2>3. up /\ UNCHANGED <<now, up, purge, writes, reply>>
      BY <1>1, <1>5 DEF SaveLegacy, TasksOK
    <2>4. QED
      BY <1>1, <2>1, <2>2, <2>3 DEF TasksOK
  <1>6. ASSUME NEW d \in Download, Abandon(d)
        PROVE  TasksOK'
    <2>1. /\ obj'[d] = NULL /\ todo'[d] = {} /\ pc'[d] = "idle"
          /\ \A e \in Download : e # d => todo'[e] = todo[e] /\ obj'[e] = obj[e]
      BY <1>1, <1>6 DEF Abandon, Goto, TaskTypes
    <2>2. \A e \in Download : e # d => pc'[e] = pc[e] /\ reply'[e] = reply[e]
      BY <1>1, <1>6 DEF Abandon, Goto, TaskTypes
    <2>3. UNCHANGED <<now, up, purge, writes>>
      BY <1>6 DEF Abandon
    <2>4. QED
      BY <1>1, <2>1, <2>2, <2>3 DEF TasksOK
  <1>7. CASE StoreSyncTime \/ LoseSyncTime
    <2>1. writes # {} /\ up /\ UNCHANGED <<now, up, purge, downloads>>
      BY <1>1, <1>7 DEF StoreSyncTime, LoseSyncTime, TasksOK
    <2>2. QED
      BY <1>1, <2>1 DEF TasksOK
  <1>8. CASE Tick
    <2>1. now <= now' /\ UNCHANGED <<up, purge, downloads, writes>>
      BY <1>1, <1>8 DEF Tick, TimeTypes
    <2>2. \A d \in Download : pc[d] = "answer" => reply[d].stamp <= now'
      <3>1. \A d \in Download : pc[d] = "answer" => reply[d].stamp \in Nat /\ reply[d].stamp <= now
        BY <1>1 DEF TasksOK, Answers
      <3>2. now \in Nat /\ now' \in Nat
        BY <1>1, <1>8 DEF Tick, TimeTypes
      <3>3. QED
        BY <2>1, <3>1, <3>2
    <2>3. QED
      BY <1>1, <2>1, <2>2 DEF TasksOK
  <1>9. CASE FailRead \/ Reload \/ ScanLegacy \/ DeleteLegacy \/ FailPass \/ Poll \/ Answer \/ FailPoll
             \/ UNCHANGED vars
    <2>1. UNCHANGED <<now, up, purge, writes, pc, reply, todo, obj>>
      BY <1>9 DEF FailRead, Reload, ScanLegacy, DeleteLegacy, FailPass, Poll, Answer, FailPoll, vars
    <2>2. QED
      BY <1>1, <2>1 DEF TasksOK
  <1>10. CASE Stop
    <2>1. /\ up' = FALSE /\ writes' = {} /\ pc' = [d \in Download |-> "idle"]
          /\ todo' = [d \in Download |-> {}] /\ obj' = [d \in Download |-> NULL]
      BY <1>10 DEF Stop
    <2>2. QED
      BY <2>1 DEF TasksOK
  <1>11. CASE Start
    <2>1. up' = TRUE /\ purge = "idle" /\ UNCHANGED <<now, purge, writes, pc, reply, todo, obj>>
      BY <1>11 DEF Start
    <2>2. QED
      BY <1>1, <2>1 DEF TasksOK
  <1>12. CASE PurgeTable \/ PurgeSyncTime \/ FailPurge
    <2>1. ~up /\ UNCHANGED <<now, up, writes, pc, reply, todo, obj>>
      BY <1>1, <1>12 DEF PurgeTable, PurgeSyncTime, FailPurge, TasksOK
    <2>2. QED
      BY <1>1, <2>1 DEF TasksOK
  <1>13. CASE \E h \in Host : PurgeIp(h) \/ Publish(h)
    <2>1. UNCHANGED <<now, up, purge, writes, pc, reply, todo, obj>>
      BY <1>13 DEF PurgeIp, Publish
    <2>2. QED
      BY <1>1, <2>1 DEF TasksOK
  <1>14. QED
    BY <1>2, <1>3, <1>4, <1>5, <1>6, <1>7, <1>8, <1>9, <1>10, <1>11, <1>12, <1>13, AbandonFacts
    DEF Next, DownloadStep

\* A host in the table, or deleted from it, is one or the other until the purge
\* command asks for everything again.
LEMMA KnownOrLost ==
  ASSUME LegacyInv, [Next]_vars, ~PurgeSyncTime
  PROVE  Known \cup lost \subseteq (Known \cup lost)'
  <1>1. CASE DeleteLegacy \/ PurgeTable \/ \E h \in Host : PurgeIp(h)
    BY <1>1, DeleteFacts DEF Shrinks, Known, Ips
  <1>2. ASSUME NEW d \in Download, SaveLegacy(d)
        PROVE  Known \cup lost \subseteq (Known \cup lost)'
    <2> DEFINE h == obj[d].ip
               row == [ip |-> h, retrieved |-> at[d]]
    <2>1. row.ip = h
      OBVIOUS
    <2>2. ASSUME NEW n \in Id,
                 DOMAIN legacy' = DOMAIN legacy \cup {n} /\ legacy'[n] = row,
                 \A i \in DOMAIN legacy : i # n => legacy'[i] = legacy[i],
                 n \notin UsedIds \/ (n \in DOMAIN legacy /\ legacy[n].ip = h),
                 lost' = lost \ {h}
          PROVE  Known \cup lost \subseteq (Known \cup lost)'
      <3>1. n \in DOMAIN legacy => legacy[n].ip = h
        BY <2>2 DEF UsedIds
      <3> HIDE DEF h, row
      <3>2. QED
        BY <2>1, <2>2, <3>1 DEF Known, Ips
    <2>3. ASSUME DOMAIN legacy' = DOMAIN legacy, \A i \in DOMAIN legacy : legacy'[i] = legacy[i],
                 lost' = lost
          PROVE  Known \cup lost \subseteq (Known \cup lost)'
      BY <2>3 DEF Known, Ips
    <2>4. \/ \E n \in Id :
               /\ DOMAIN legacy' = DOMAIN legacy \cup {n} /\ legacy'[n] = row
               /\ \A i \in DOMAIN legacy : i # n => legacy'[i] = legacy[i]
               /\ n \notin UsedIds \/ (n \in DOMAIN legacy /\ legacy[n].ip = h)
               /\ lost' = lost \ {h}
          \/ /\ DOMAIN legacy' = DOMAIN legacy /\ \A i \in DOMAIN legacy : legacy'[i] = legacy[i]
             /\ lost' = lost
      <3>1. CASE \E n \in Id :
                    /\ DOMAIN legacy' = DOMAIN legacy \cup {n}
                    /\ legacy'[n] = row
                    /\ \A i \in DOMAIN legacy : i # n => legacy'[i] = legacy[i] /\ legacy[i].ip # h
                    /\ n \notin UsedIds \/ (n \in DOMAIN legacy /\ legacy[n].ip = h)
                    /\ lost' = lost \ {h}
        <4> HIDE DEF h, row
        <4>1. QED
          BY <3>1
      <3>2. QED
        BY <1>2, <3>1, SaveFacts
    <2> HIDE DEF h, row
    <2>5. QED
      BY <2>2, <2>3, <2>4
  <1>3. ASSUME NEW d \in Download, Abandon(d)
        PROVE  Known \cup lost \subseteq (Known \cup lost)'
    BY <1>3 DEF Abandon, Known, Ips
  <1>4. CASE \E d \in Download : Ask(d) \/ Receive(d) \/ FindLegacy(d)
    BY <1>4 DEF Ask, Receive, FindLegacy, Known, Ips
  <1>5. CASE UNCHANGED vars
    BY <1>5 DEF vars, Known, Ips
  <1>6. CASE \/ StoreSyncTime \/ LoseSyncTime \/ FailRead \/ Reload \/ ScanLegacy \/ FailPass
             \/ Poll \/ Answer \/ FailPoll \/ Stop \/ Start \/ FailPurge \/ Tick
             \/ \E h \in Host : Publish(h)
    <2>1. legacy' = legacy /\ lost \subseteq lost'
      BY <1>6
      DEF StoreSyncTime, LoseSyncTime, FailRead, Reload, ScanLegacy, FailPass, Poll, Answer, FailPoll,
          Stop, Start, FailPurge, Tick, Publish
    <2>2. QED
      BY <2>1 DEF Known, Ips
  <1>7. QED
    BY <1>1, <1>2, <1>3, <1>4, <1>5, <1>6, AbandonFacts DEF Next, DownloadStep

\* What a download is about to save it has just looked up, or knew before.
LEMMA SaveOrFind ==
  ASSUME LegacyInv, [Next]_vars, NEW e \in Download, pc'[e] = "save"
  PROVE  (pc[e] = "save" /\ obj'[e] = obj[e]) \/ FindLegacy(e)
  <1>1. pc \in [Download -> {"idle", "answer", "find", "save"}] /\ DOMAIN obj = Download
    BY DEF LegacyInv, TaskTypes
  <1>2. CASE \E d \in Download : Ask(d) \/ Receive(d)
    BY <1>1, <1>2 DEF Ask, Receive, Turn, Goto
  <1>3. ASSUME NEW d \in Download, SaveLegacy(d)
        PROVE  pc[e] = "save" /\ obj'[e] = obj[e]
    BY <1>1, <1>3 DEF SaveLegacy, Turn, Goto
  <1>4. ASSUME NEW d \in Download, Abandon(d)
        PROVE  pc[e] = "save" /\ obj'[e] = obj[e]
    BY <1>1, <1>4 DEF Abandon, Goto
  <1>5. ASSUME NEW d \in Download, FindLegacy(d)
        PROVE  (pc[e] = "save" /\ obj'[e] = obj[e]) \/ FindLegacy(e)
    <2>1. CASE d = e
      BY <1>5, <2>1
    <2>2. CASE d # e
      <3>1. obj'[e] = obj[e]
        BY <1>1, <1>5, <2>2 DEF FindLegacy
      <3>2. pc'[e] = pc[e]
        BY <1>1, <1>5, <2>2 DEF FindLegacy, Goto
      <3>3. QED
        BY <3>1, <3>2
    <2>3. QED
      BY <2>1, <2>2
  <1>6. CASE Stop
    BY <1>6 DEF Stop
  <1>7. CASE \/ StoreSyncTime \/ LoseSyncTime \/ FailRead \/ Reload \/ ScanLegacy \/ FailPass
             \/ DeleteLegacy \/ Poll \/ Answer \/ FailPoll \/ Start \/ FailPurge \/ Tick
             \/ PurgeTable \/ PurgeSyncTime \/ UNCHANGED vars
             \/ \E h \in Host : PurgeIp(h) \/ Publish(h)
    BY <1>7
    DEF StoreSyncTime, LoseSyncTime, FailRead, Reload, ScanLegacy, FailPass, DeleteLegacy, Poll, Answer,
        FailPoll, Start, FailPurge, Tick, PurgeTable, PurgeSyncTime, PurgeIp, Publish, vars
  <1>8. QED
    BY <1>2, <1>3, <1>4, <1>5, <1>6, <1>7, AbandonFacts DEF Next, DownloadStep

LEMMA FoundStep ==
  ASSUME LegacyInv, [Next]_vars
  PROVE  FoundOK'
  <1>1. FoundOK /\ TasksOK /\ TableTypes
    BY DEF LegacyInv
  <1>2. CASE PurgeSyncTime
    BY <1>1, <1>2 DEF PurgeSyncTime, TasksOK, FoundOK
  <1>3. CASE ~PurgeSyncTime
    <2>1. SUFFICES ASSUME NEW e \in Download, pc'[e] = "save", obj'[e].id # NULL
                   PROVE  /\ obj'[e].ip \in (Known \cup lost)'
                          /\ obj'[e].id \in DOMAIN legacy' => legacy'[obj'[e].id].ip = obj'[e].ip
      BY DEF FoundOK
    <2>2. Known \cup lost \subseteq (Known \cup lost)'
      BY <1>3, KnownOrLost
    <2>3. CASE pc[e] = "save" /\ obj'[e] = obj[e]
      <3> DEFINE k == obj[e].id
                 g == obj[e].ip
      <3>1. /\ g \in Known \cup lost /\ (k \in DOMAIN legacy => legacy[k].ip = g)
            /\ obj[e] \in [ip : Host, id : Id \cup {NULL}]
        BY <1>1, <2>1, <2>3 DEF FoundOK, TasksOK
      <3>2. k \in UsedIds
        <4>1. obj[e] # NULL
          BY <3>1
        <4>2. QED
          BY <4>1 DEF UsedIds
      <3> HIDE DEF k, g
      <3>3. (k \in DOMAIN legacy => legacy[k].ip = g) /\ k \in UsedIds
        BY <3>1, <3>2
      <3>4. k \in DOMAIN legacy' => legacy'[k].ip = g
        <4>1. CASE legacy' = legacy
          BY <3>3, <4>1
        <4>2. CASE Shrinks
          BY <3>3, <4>2 DEF Shrinks
        <4>3. ASSUME NEW d \in Download, SaveLegacy(d)
              PROVE  k \in DOMAIN legacy' => legacy'[k].ip = g
          <5> DEFINE row == [ip |-> obj[d].ip, retrieved |-> at[d]]
          <5>1. row.ip = obj[d].ip
            OBVIOUS
          <5>2. CASE \E n \in Id :
                       /\ DOMAIN legacy' = DOMAIN legacy \cup {n} /\ legacy'[n] = row
                       /\ \A i \in DOMAIN legacy : i # n => legacy'[i] = legacy[i] /\ legacy[i].ip # obj[d].ip
                       /\ n \notin UsedIds \/ (n \in DOMAIN legacy /\ legacy[n].ip = obj[d].ip)
            <6> HIDE DEF row
            <6>1. QED
              BY <3>3, <5>1, <5>2
          <5>3. CASE DOMAIN legacy' = DOMAIN legacy /\ \A i \in DOMAIN legacy : legacy'[i] = legacy[i]
            BY <3>3, <5>3
          <5>4. QED
            BY <4>3, <5>2, <5>3, SaveFacts
        <4>4. QED
          BY <4>1, <4>2, <4>3, TableSteps
      <3>5. QED
        BY <2>2, <2>3, <3>1, <3>4 DEF k, g
    <2>4. CASE FindLegacy(e)
      <3>1. PICK h \in todo[e] : obj' = [obj EXCEPT ![e] =
             [ip |-> h, id |-> IF Entry(h) = {} THEN NULL ELSE CHOOSE i \in Entry(h) : TRUE]]
        BY <2>4 DEF FindLegacy
      <3> DEFINE i == IF Entry(h) = {} THEN NULL ELSE CHOOSE i \in Entry(h) : TRUE
      <3>2. obj'[e].id = i /\ obj'[e].ip = h
        BY <3>1 DEF LegacyInv, TaskTypes
      <3>3. i \in Entry(h)
        BY <2>1, <3>2
      <3> HIDE DEF i
      <3>4. i \in DOMAIN legacy /\ legacy[i].ip = h /\ legacy' = legacy
        BY <2>4, <3>3 DEF Entry, FindLegacy
      <3>5. h \in Known
        BY <3>4 DEF Known, Ips
      <3>6. QED
        BY <2>2, <3>2, <3>4, <3>5
    <2>5. QED
      BY <2>1, <2>3, <2>4, SaveOrFind
  <1>4. QED
    BY <1>2, <1>3

\* A host that a download was about to store is stored, or lost.
LEMMA SafeGrows ==
  ASSUME LegacyInv, [Next]_vars, ~PurgeSyncTime
  PROVE  Safe \subseteq Safe'
  <1>1. Known \cup lost \subseteq (Known \cup lost)'
    BY KnownOrLost
  <1>2. todo \in [Download -> SUBSET Host] /\ TasksOK
    BY DEF LegacyInv, TaskTypes
  <1>3. ASSUME NEW e \in Download, NEW h \in todo[e]
        PROVE  h \in todo'[e] \/ h \in (Known \cup lost)'
    <2>1. ASSUME NEW d \in Download, SaveLegacy(d)
          PROVE  h \in todo'[e] \/ h \in (Known \cup lost)'
      <3>1. CASE h \in todo'[e]
        BY <3>1
      <3>2. CASE h \notin todo'[e]
        <4>1. h = obj[d].ip
          BY <1>2, <2>1, <3>2 DEF SaveLegacy
        <4>2. CASE obj[d].ip \in Known \cup lost
          BY <1>1, <4>1, <4>2
        <4>3. ASSUME NEW n, n \in DOMAIN legacy', legacy'[n] = [ip |-> obj[d].ip, retrieved |-> at[d]]
              PROVE  h \in Known'
          <5>1. legacy'[n].ip = h
            BY <4>1, <4>3
          <5>2. QED
            BY <4>3, <5>1 DEF Known, Ips
        <4>4. QED
          BY <2>1, <4>2, <4>3, SaveFacts
      <3>3. QED
        BY <3>1, <3>2
    <2>2. ASSUME NEW d \in Download, Abandon(d)
          PROVE  h \in todo'[e] \/ h \in lost'
      BY <1>2, <2>2 DEF Abandon
    <2>3. ASSUME NEW d \in Download, Receive(d)
          PROVE  h \in todo'[e]
      <3>1. todo[d] = {}
        BY <1>2, <2>3 DEF Receive, TasksOK
      <3>2. QED
        BY <1>2, <2>3, <3>1 DEF Receive
    <2>4. CASE Stop
      BY <1>2, <2>4 DEF Stop
    <2>5. CASE \/ StoreSyncTime \/ LoseSyncTime \/ FailRead \/ Reload \/ ScanLegacy \/ FailPass
               \/ DeleteLegacy \/ Poll \/ Answer \/ FailPoll \/ Start \/ FailPurge \/ Tick
               \/ PurgeTable \/ UNCHANGED vars
               \/ (\E h_1 \in Host : PurgeIp(h_1) \/ Publish(h_1))
               \/ (\E d \in Download : Ask(d) \/ FindLegacy(d))
      BY <2>5
      DEF StoreSyncTime, LoseSyncTime, FailRead, Reload, ScanLegacy, FailPass, DeleteLegacy, Poll, Answer,
          FailPoll, Start, FailPurge, Tick, PurgeTable, PurgeIp, Publish, Ask, FindLegacy, vars
    <2>6. QED
      BY <2>1, <2>2, <2>3, <2>4, <2>5, AbandonFacts DEF Next, DownloadStep
  <1>4. Pending \subseteq Safe'
    BY <1>3 DEF Pending, Safe
  <1>5. QED
    BY <1>1, <1>4 DEF Safe

\* What is published later does not count as published before.
LEMMA EarlyShrinks ==
  ASSUME LegacyInv, [Next]_vars
  PROVE  \A t \in 0..now : {h \in Host : published'[h] # NULL /\ published'[h] < t} \subseteq Early(t)
  <1>1. published \in [Host -> 1..now \cup {NULL}] /\ now \in Nat
    BY DEF LegacyInv, TimeTypes
  <1>2. ASSUME NEW h \in Host
        PROVE  published'[h] = published[h] \/ published'[h] = now
    <2>1. CASE \E g \in Host : Publish(g)
      BY <1>1, <2>1 DEF Publish
    <2>2. CASE \E d \in Download : DownloadStep(d) \/ FailDownload(d)
      BY <2>2 DEF DownloadStep, Ask, Receive, FindLegacy, SaveLegacy, ClashLegacy, FailDownload, Abandon
    <2>3. CASE \/ StoreSyncTime \/ LoseSyncTime \/ FailRead \/ Reload \/ ScanLegacy \/ FailPass
               \/ DeleteLegacy \/ Poll \/ Answer \/ FailPoll \/ Stop \/ Start \/ FailPurge \/ Tick
               \/ PurgeTable \/ PurgeSyncTime \/ UNCHANGED vars
               \/ (\E g \in Host : PurgeIp(g))
      BY <2>3
      DEF StoreSyncTime, LoseSyncTime, FailRead, Reload, ScanLegacy, FailPass, DeleteLegacy, Poll, Answer,
          FailPoll, Stop, Start, FailPurge, Tick, PurgeTable, PurgeSyncTime, PurgeIp, vars
    <2>4. QED
      BY <2>1, <2>2, <2>3 DEF Next
  <1>3. \A t \in 0..now : ~(now < t)
    BY <1>1
  <1>4. QED
    BY <1>2, <1>3 DEF Early

\* The steps that do not touch the time of the last synchronisation, or only lose a
\* value of it.
LEMMA SyncFrame ==
  ASSUME LegacyInv, [Next]_vars
  PROVE  \/ \E d \in Download : Ask(d) \/ Receive(d)
         \/ StoreSyncTime \/ PurgeSyncTime
         \/ /\ lastSync' = lastSync /\ writes' \subseteq writes
            /\ \A e \in Download : pc'[e] = "answer" => pc[e] = "answer" /\ reply'[e] = reply[e]
  <1>1. /\ pc \in [Download -> {"idle", "answer", "find", "save"}] /\ DOMAIN reply = Download
    BY DEF LegacyInv, TaskTypes
  <1>2. CASE \E d \in Download : FindLegacy(d) \/ SaveLegacy(d)
    BY <1>1, <1>2 DEF FindLegacy, SaveLegacy, Turn, Goto
  <1>3. ASSUME NEW d \in Download, Abandon(d)
        PROVE  /\ lastSync' = lastSync /\ writes' \subseteq writes
               /\ \A e \in Download : pc'[e] = "answer" => pc[e] = "answer" /\ reply'[e] = reply[e]
    BY <1>1, <1>3 DEF Abandon, Goto
  <1>4. CASE Stop
    BY <1>4 DEF Stop
  <1>5. CASE \/ LoseSyncTime \/ FailRead \/ Reload \/ ScanLegacy \/ FailPass
             \/ DeleteLegacy \/ Poll \/ Answer \/ FailPoll \/ Start \/ FailPurge \/ Tick
             \/ PurgeTable \/ UNCHANGED vars
             \/ (\E h \in Host : PurgeIp(h) \/ Publish(h))
    BY <1>5
    DEF LoseSyncTime, FailRead, Reload, ScanLegacy, FailPass, DeleteLegacy, Poll, Answer,
        FailPoll, Start, FailPurge, Tick, PurgeTable, PurgeIp, Publish, vars
  <1>6. QED
    BY <1>2, <1>3, <1>4, <1>5, AbandonFacts DEF Next, DownloadStep

LEMMA SyncStep ==
  ASSUME LegacyInv, [Next]_vars
  PROVE  SyncOK'
  <1>1. SyncOK /\ TasksOK /\ TimeTypes /\ TaskTypes
    BY DEF LegacyInv
  <1> DEFINE Later(t) == {h \in Host : published'[h] # NULL /\ published'[h] < t}
  <1>2. ASSUME NEW t \in 0..now
        PROVE  Later(t) \subseteq Early(t)
    BY EarlyShrinks
  <1>3. SyncOK' <=> /\ Later(lastSync') \subseteq Safe'
                    /\ \A t \in writes' : Later(t) \subseteq Safe'
                    /\ \A d \in Download :
                         pc'[d] = "answer" => Later(reply'[d].stamp) \subseteq Safe' \cup reply'[d].hosts
    BY DEF SyncOK, Early
  <1>4. lastSync \in 0..now /\ writes \subseteq 0..now /\ now \in 0..now
    BY <1>1 DEF TimeTypes
  <1>5. ASSUME NEW d \in Download, pc[d] = "answer"
        PROVE  reply[d].stamp \in 0..now
    <2>1. reply[d].stamp \in Nat /\ reply[d].stamp <= now
      BY <1>1, <1>5 DEF TasksOK, Answers
    <2>2. now \in Nat
      BY <1>4
    <2>3. QED
      BY <2>1, <2>2
  <1>6. CASE PurgeSyncTime
    <2>1. lastSync' = 0 /\ writes' = {} /\ \A d \in Download : pc'[d] = "idle"
      BY <1>1, <1>6 DEF PurgeSyncTime, TasksOK
    <2>2. published' = published
      BY <1>6 DEF PurgeSyncTime
    <2>3. Later(0) = {}
      BY <1>1, <2>2 DEF TimeTypes
    <2> HIDE DEF Later
    <2>4. QED
      BY <1>3, <2>1, <2>3
  <1>7. CASE ~PurgeSyncTime
    <2> HIDE DEF Later
    <2>1. Safe \subseteq Safe'
      BY <1>7, SafeGrows
    <2>2. /\ Later(lastSync) \subseteq Safe'
          /\ \A t \in writes : Later(t) \subseteq Safe'
          /\ \A d \in Download :
               pc[d] = "answer" => Later(reply[d].stamp) \subseteq Safe' \cup reply[d].hosts
      <3>1. Later(lastSync) \subseteq Safe'
        BY <1>1, <1>2, <1>4, <2>1 DEF SyncOK
      <3>2. \A t \in writes : Later(t) \subseteq Safe'
        BY <1>1, <1>2, <1>4, <2>1 DEF SyncOK
      <3>3. ASSUME NEW d \in Download, pc[d] = "answer"
            PROVE  Later(reply[d].stamp) \subseteq Safe' \cup reply[d].hosts
        BY <1>1, <1>2, <1>5, <2>1, <3>3 DEF SyncOK
      <3>4. QED
        BY <3>1, <3>2, <3>3
    <2>3. ASSUME NEW d \in Download, Ask(d)
          PROVE  SyncOK'
      <3>1. /\ pc[d] = "idle" /\ UNCHANGED <<lastSync, writes, published>>
            /\ reply'[d] = [hosts |-> {h \in Host : published[h] # NULL /\ published[h] >= lastSync},
                            stamp |-> now]
            /\ \A e \in Download : e # d => reply'[e] = reply[e] /\ pc'[e] = pc[e]
        BY <1>1, <2>3 DEF Ask, Goto, Answered, TaskTypes
      <3>2. \A h \in Host : published[h] # NULL /\ ~(published[h] >= lastSync) => published[h] < lastSync
        BY <1>1 DEF TimeTypes
      <3>3. Later(now) \subseteq Later(lastSync) \cup reply'[d].hosts
        BY <3>1, <3>2 DEF Later
      <3>4. reply'[d].stamp = now
        BY <3>1
      <3>5. QED
        BY <1>3, <2>2, <3>1, <3>3, <3>4
    <2>4. ASSUME NEW d \in Download, Receive(d)
          PROVE  SyncOK'
      <3>1. /\ pc[d] = "answer" /\ lastSync' = lastSync /\ writes' = writes \cup {reply[d].stamp}
            /\ todo'[d] = reply[d].hosts /\ pc'[d] # "answer"
            /\ \A e \in Download : e # d => reply'[e] = reply[e] /\ pc'[e] = pc[e]
        BY <1>1, <2>4 DEF Receive, Turn, Goto, TaskTypes
      <3>2. reply[d].hosts \subseteq Safe'
        BY <3>1 DEF Safe, Pending
      <3>3. Later(reply[d].stamp) \subseteq Safe'
        BY <2>2, <3>1, <3>2
      <3>4. QED
        BY <1>3, <2>2, <3>1, <3>3
    <2>5. CASE StoreSyncTime
      <3>1. lastSync' \in writes /\ writes' \subseteq writes /\ UNCHANGED <<pc, reply>>
        BY <2>5 DEF StoreSyncTime
      <3>2. QED
        BY <1>3, <2>2, <3>1
    <2>6. CASE /\ lastSync' = lastSync /\ writes' \subseteq writes
               /\ \A e \in Download : pc'[e] = "answer" => pc[e] = "answer" /\ reply'[e] = reply[e]
      BY <1>3, <2>2, <2>6
    <2>7. QED
      BY <1>7, <2>3, <2>4, <2>5, <2>6, SyncFrame
  <1>8. QED
    BY <1>6, <1>7

LEMMA ClientStep ==
  ASSUME LegacyInv, [Next]_vars
  PROVE  ClientOK'
  <1>1. heard = since /\ TableTypes
        /\ \A i \in DOMAIN legacy : legacy[i].ip \in told \cup missed \/ legacy[i].retrieved > since
    BY DEF LegacyInv, ClientOK, LegacyNotMissed
  <1>2. CASE Answer
    <2>1. /\ heard' = since' /\ legacy' = legacy
          /\ \E S \in SUBSET Extras : told' = told \cup Ips(S) /\ missed' = (missed \ Ips(S)) \cup Ips(Extras \ S)
      BY <1>2 DEF Answer
    <2>2. PICK S \in SUBSET Extras : told' = told \cup Ips(S) /\ missed' = (missed \ Ips(S)) \cup Ips(Extras \ S)
      BY <2>1
    <2>3. ASSUME NEW i \in DOMAIN legacy
          PROVE  legacy[i].ip \in told' \cup missed'
      <3>1. CASE legacy[i].ip \in told \cup missed
        BY <2>2, <3>1
      <3>2. CASE i \in S
        BY <2>2, <3>2 DEF Ips
      <3>3. CASE i \in Extras \ S
        BY <2>2, <3>3 DEF Ips
      <3>4. QED
        BY <1>1, <3>1, <3>2, <3>3 DEF Extras
    <2>4. QED
      BY <2>1, <2>3 DEF ClientOK, LegacyNotMissed
  <1>3. ASSUME NEW d \in Download, SaveLegacy(d)
        PROVE  ClientOK'
    <2>1. UNCHANGED <<since, told, heard>>
      BY <1>3 DEF SaveLegacy
    <2> DEFINE g == obj[d].ip
               row == [ip |-> g, retrieved |-> at[d]]
    <2>2. row.ip = g /\ row.retrieved = at[d] /\ at[d] \in Int /\ heard \in Int
      <3>1. at[d] \in 0..now /\ heard \in 0..now
        BY DEF LegacyInv, TimeTypes
      <3>2. QED
        BY <3>1
    <2>3. CASE \E n \in Id :
                 /\ DOMAIN legacy' = DOMAIN legacy \cup {n}
                 /\ legacy'[n] = row
                 /\ \A i \in DOMAIN legacy : i # n => legacy'[i] = legacy[i] /\ legacy[i].ip # g
                 /\ missed' = IF at[d] <= heard THEN missed \cup {g} ELSE missed \ {g}
      <3> HIDE DEF g, row
      <3>1. PICK n \in Id :
                 /\ DOMAIN legacy' = DOMAIN legacy \cup {n}
                 /\ legacy'[n] = row
                 /\ \A i \in DOMAIN legacy : i # n => legacy'[i] = legacy[i] /\ legacy[i].ip # g
                 /\ missed' = IF at[d] <= heard THEN missed \cup {g} ELSE missed \ {g}
        BY <2>3
      <3>2. legacy'[n].ip \in missed' \/ legacy'[n].retrieved > since'
        BY <1>1, <2>1, <2>2, <3>1
      <3>3. ASSUME NEW i \in DOMAIN legacy, i # n
            PROVE  legacy'[i].ip \in told' \cup missed' \/ legacy'[i].retrieved > since'
        BY <1>1, <2>1, <3>1, <3>3
      <3>4. QED
        BY <1>1, <2>1, <3>1, <3>2, <3>3 DEF ClientOK, LegacyNotMissed
    <2>4. CASE /\ DOMAIN legacy' = DOMAIN legacy /\ \A i \in DOMAIN legacy : legacy'[i] = legacy[i]
               /\ UNCHANGED history
      BY <1>1, <2>1, <2>4 DEF ClientOK, LegacyNotMissed
    <2>5. QED
      BY <1>3, <2>3, <2>4, SaveFacts
  <1>4. CASE DeleteLegacy \/ PurgeTable \/ \E h \in Host : PurgeIp(h)
    <2>1. Shrinks /\ UNCHANGED <<client, missed>>
      BY <1>4, DeleteFacts
    <2>2. QED
      BY <1>1, <2>1 DEF Shrinks, ClientOK, LegacyNotMissed
  <1>5. CASE UNCHANGED <<legacy, since, told, heard, missed>>
    BY <1>1, <1>5 DEF ClientOK, LegacyNotMissed
  <1>6. CASE \E d \in Download : Ask(d) \/ Receive(d) \/ FindLegacy(d) \/ Abandon(d)
    BY <1>5, <1>6 DEF Ask, Receive, FindLegacy, Abandon
  <1>7. CASE \/ StoreSyncTime \/ LoseSyncTime \/ FailRead \/ Reload \/ ScanLegacy \/ FailPass
             \/ Poll \/ FailPoll \/ Stop \/ Start \/ FailPurge \/ Tick
             \/ PurgeSyncTime \/ UNCHANGED vars
             \/ (\E h \in Host : Publish(h))
    BY <1>5, <1>7
    DEF StoreSyncTime, LoseSyncTime, FailRead, Reload, ScanLegacy, FailPass, Poll,
        FailPoll, Stop, Start, FailPurge, Tick, PurgeSyncTime, Publish, vars
  <1>8. QED
    BY <1>2, <1>3, <1>4, <1>6, <1>7, AbandonFacts DEF Next, DownloadStep

--------------------------------------------------------------------------------
(* The theorems.                                                              *)

LEMMA LegacyStart == Init => LegacyInv
  <1> SUFFICES ASSUME Init PROVE LegacyInv
    OBVIOUS
  <1>1. DOMAIN legacy = {} /\ doomed = {}
    BY DEF Init
  <1>2. TableTypes /\ FinitelyMany
    BY <1>1, FS_EmptySet DEF TableTypes, FinitelyMany
  <1>3. TimeTypes
    <2>1. published \in [Host -> 1..now \cup {NULL}] /\ at \in [Download -> 0..now]
      BY DEF Init
    <2>2. QED
      BY <2>1 DEF Init, TimeTypes
  <1>4. TaskTypes
    <2>1. /\ pc \in [Download -> {"idle", "answer", "find", "save"}]
          /\ todo \in [Download -> SUBSET Host]
          /\ reply \in [Download -> Answers \cup {NULL}]
          /\ obj \in [Download -> [ip : Host, id : Id \cup {NULL}] \cup {NULL}]
      BY DEF Init
    <2>2. up \in BOOLEAN
      BY DEF Init
    <2>3. QED
      BY <2>1, <2>2 DEF Init, TaskTypes
  <1>5. SetTypes /\ TasksOK /\ FoundOK
    BY DEF Init, SetTypes, TasksOK, FoundOK
  <1>6. SyncOK /\ ClientOK
    BY <1>1 DEF Init, SyncOK, ClientOK, LegacyNotMissed, Early
  <1>7. QED
    BY <1>2, <1>3, <1>4, <1>5, <1>6 DEF LegacyInv

\* The inductive invariant: whatever time is about to become that of the last
\* synchronisation, the hosts published before it are dealt with.
THEOREM LegacyInvariant == Spec => []LegacyInv
  <1>1. LegacyInv /\ [Next]_vars => LegacyInv'
    <2> SUFFICES ASSUME LegacyInv, [Next]_vars PROVE LegacyInv'
      OBVIOUS
    <2>1. /\ TableTypes' /\ TimeTypes' /\ TaskTypes' /\ SetTypes' /\ FinitelyMany'
          /\ TasksOK' /\ FoundOK' /\ SyncOK' /\ ClientOK'
      BY TableStep, TimeStep, TaskStep, SetStep, FinitelyManyStep, TasksStep, FoundStep, SyncStep,
         ClientStep
    <2>2. QED
      BY <2>1 DEF LegacyInv
  <1>2. QED
    BY <1>1, LegacyStart, PTL DEF Spec

\* The tables, the downloads and the client have their types, and the table one entry
\* for a host.
THEOREM LegacyTypes == Spec => []TypeOK
  BY LegacyInvariant, TypesTogether, PTL

\* download_from_legacy_server: overlapping runs may write the time of the last
\* synchronisation in any order; the hosts published before it are never skipped.
THEOREM SyncTimeIsHonest == Spec => []NoHostSkipped
  <1>1. LegacyInv => NoHostSkipped
    BY DEF LegacyInv, SyncOK, Early, Safe, NoHostSkipped
  <1>2. QED
    BY <1>1, LegacyInvariant, PTL

\* get_qualifying_crackers: a client that polls is told of each entry, or will be, the
\* ones stored behind its time stamp or left out of a full answer apart.
THEOREM ClientsAreTold == Spec => []LegacyNotMissed
  <1>1. LegacyInv => LegacyNotMissed
    BY DEF LegacyInv, ClientOK
  <1>2. QED
    BY <1>1, LegacyInvariant, PTL
================================================================================
