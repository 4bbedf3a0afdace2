------------------------------ MODULE PeeringProofs ------------------------------
(***************************************************************************)
(* Theorems about Peering, for any servers, clients, reports and failures: *)
(* an answered report reached every peer that could be called, and, once   *)
(* nothing is under way, servers keep the same reports.                    *)
(***************************************************************************)
EXTENDS Peering, FiniteSetTheorems, TLAPS

USE PeeringAssumption
USE DEF store, tasks, calls

--------------------------------------------------------------------------------
(* The inductive invariant.                                                   *)

Labels   == {"none", "lock", "record", "send", "call", "done", "failed"}
Past     == [first : 0..now, latest : 0..now]
InList(q) == {q[i] : i \in DOMAIN q}

\* TypeOK, part by part.
StoreTypes ==
  /\ now \in 0..MaxTime /\ up \in [Server -> BOOLEAN] /\ faults \in 0..MaxFaults
  /\ entries \in [Server -> [Host -> [Client -> SUBSET Past]]]
  /\ busy \in [Server -> SUBSET Host] /\ raced \subseteq Client
CallTypes ==
  /\ report \in [Report -> Reports \cup {NULL}]
  /\ pc \in [Report -> [Server -> Labels]]
  /\ todo \in [Report -> [Server -> Seq(Host \cup {BadHost})]]
  /\ left \in [Report -> SUBSET Server] /\ failed \in [Report -> SUBSET Server]
  /\ to \in [Report -> Server \cup {NULL}]

\* Where the tasks of a report are, and what they have in hand.
TasksOK ==
  /\ \A r \in Report : report[r] = NULL => \A s \in Server : pc[r][s] = "none"
  /\ \A r \in Report : report[r] # NULL =>
       /\ report[r].when <= now
       /\ left[r] \subseteq Peers(report[r].home)
       /\ pc[r][report[r].home] # "none"
       /\ pc[r][report[r].home] = "call" => to[r] \in Peers(report[r].home)
       /\ \A s \in Server : pc[r][s] \in {"send", "call"} => s = report[r].home
  /\ \A r \in Report, s \in Server :
       /\ pc[r][s] \in {"lock", "record"} => todo[r][s] # <<>> /\ Head(todo[r][s]) # BadHost
       /\ pc[r][s] \in {"send", "call", "done"} => todo[r][s] = <<>>
       /\ pc[r][s] # "none" => InList(todo[r][s]) \subseteq InList(report[r].hosts)

\* A lock is held by the one task that records.
LocksOK ==
  /\ \A s \in Server, h \in Host :
       h \in busy[s] <=> \E r \in Report : pc[r][s] = "record" /\ Head(todo[r][s]) = h
  /\ \A s \in Server, q, r \in Report :
       pc[q][s] = "record" /\ pc[r][s] = "record" /\ Head(todo[q][s]) = Head(todo[r][s]) => q = r

\* Until the client is answered each peer is yet to be called, is being called, has
\* recorded the report, or could not be called; then it is one of the last two.
ReachOK ==
  \A r \in Report : report[r] # NULL /\ pc[r][report[r].home] # "failed" =>
    \A p \in Peers(report[r].home) :
      \/ p \in left[r] /\ pc[r][report[r].home] # "done"
      \/ pc[r][report[r].home] = "call" /\ p = to[r]
      \/ pc[r][p] = "done"
      \/ p \in failed[r]

\* The reports of a client, and one of them under way.
OfClient(c)  == {r \in Report : report[r] # NULL /\ report[r].client = c}
UnderWay(c)  == {r \in OfClient(c) : ~Quiet(r)}
Complete(r)  == \A s \in Server : pc[r][s] = "done"

\* A client that waits has one report under way at most.
OneAtATime == \A c \in Client \ raced : \A q, r \in UnderWay(c) : q = r

\* The reports of a client about a host, as they follow on one another.
Spread(E) == IsFiniteSet(E) /\ \A d, e \in E : d.latest = e.latest => d = e

\* What server s keeps when B was kept before report r: B, or what the report makes of it;
\* the latter if the task of the report there is past host h.
Had(c, h, B, r, s) ==
  /\ \/ entries[s][h][c] = B
     \/ h \in InList(report[r].hosts) /\ entries[s][h][c] \in Merged(B, report[r].when)
  /\ pc[r][s] \notin {"none", "failed"} /\ h \in InList(report[r].hosts) \ InList(todo[r][s])
     => entries[s][h][c] \in Merged(B, report[r].when)

\* B is what all servers keep of a client and a host, but for the report under way.
Common(c, h, B) ==
  /\ Spread(B)
  /\ UnderWay(c) = {} => \A s \in Server : entries[s][h][c] = B
  /\ \A r \in UnderWay(c) :
       /\ \A e \in B : e.latest <= report[r].when
       /\ \A s \in Server : Had(c, h, B, r, s)

\* If the reports of a client that are over were recorded everywhere.
AgreeOK ==
  \A c \in Client \ raced, h \in Host :
    (\A r \in OfClient(c) : Quiet(r) => Complete(r)) => \E B \in SUBSET Past : Common(c, h, B)

PeeringInv ==
  StoreTypes /\ CallTypes /\ TasksOK /\ LocksOK /\ ReachOK /\ OneAtATime /\ AgreeOK

--------------------------------------------------------------------------------
(* Recording a report.                                                        *)

\* The new reports of a client are of the time of the report and before.
LEMMA MergedTypes ==
  ASSUME NEW n \in Nat, NEW E \in SUBSET [first : 0..n, latest : 0..n],
         NEW when \in 0..n, NEW F \in Merged(E, when)
  PROVE  F \in SUBSET [first : 0..n, latest : 0..n]
  <1>1. CASE Cardinality(E) < 3
    <2>1. F = E \/ F = E \cup {[first |-> when, latest |-> when]}
      BY <1>1 DEF Merged
    <2>2. [first |-> when, latest |-> when] \in [first : 0..n, latest : 0..n]
      OBVIOUS
    <2>3. QED
      BY <2>1, <2>2
  <1>2. CASE ~(Cardinality(E) < 3)
    <2>1. PICK e \in E : F = (E \ {e}) \cup {[e EXCEPT !.latest = when]}
      BY <1>2 DEF Merged
    <2>2. [e EXCEPT !.latest = when] \in [first : 0..n, latest : 0..n]
      OBVIOUS
    <2>3. QED
      BY <2>1, <2>2
  <1>3. QED
    BY <1>1, <1>2

\* What becomes of reports that follow on one another, when a later one arrives: one is
\* added, the latest one is prolonged, or nothing changes.
LEMMA MergedCases ==
  ASSUME NEW n \in Nat, NEW E \in SUBSET [first : 0..n, latest : 0..n], Spread(E),
         NEW when \in 0..n, \A e \in E : e.latest <= when, NEW F \in Merged(E, when)
  PROVE  /\ Cardinality(E) \in Nat /\ Cardinality(F) \in Nat
         /\ \/ /\ Cardinality(E) < 3 /\ \A e \in E : when > e.latest + DAY
               /\ F = E \cup {[first |-> when, latest |-> when]}
               /\ \E f \in F : f.latest = when
            \/ /\ Cardinality(E) < 3 /\ ~\A e \in E : when > e.latest + DAY
               /\ F = E
            \/ /\ ~(Cardinality(E) < 3) /\ ~(Cardinality(F) < 3)
               /\ \E f \in F : f.latest = when
               /\ \E e \in E : /\ \A d \in E : d.latest <= e.latest
                               /\ F = (E \ {e}) \cup {[e EXCEPT !.latest = when]}
         /\ Spread(F) /\ \A f \in F : f.latest <= when
  <1>1. IsFiniteSet(E) /\ Cardinality(E) \in Nat
    BY FS_CardinalityType DEF Spread
  <1>2. CASE Cardinality(E) < 3 /\ \A e \in E : when > e.latest + DAY
    <2> DEFINE new == [first |-> when, latest |-> when]
    <2>1. F = E \cup {new} /\ new.latest = when
      BY <1>2 DEF Merged
    <2>2. \A e \in E : e.latest < when
      BY <1>2
    <2> HIDE DEF new
    <2>3. IsFiniteSet(F) /\ Cardinality(F) \in Nat
      BY <1>1, <2>1, FS_AddElement, FS_CardinalityType
    <2>4. Spread(F) /\ \A f \in F : f.latest <= when
      BY <2>1, <2>2, <2>3 DEF Spread
    <2>5. QED
      BY <1>1, <1>2, <2>1, <2>3, <2>4 DEF new
  <1>3. CASE Cardinality(E) < 3 /\ ~\A e \in E : when > e.latest + DAY
    <2>1. F = E
      BY <1>3 DEF Merged
    <2>2. QED
      BY <1>1, <1>3, <2>1
  <1>4. CASE ~(Cardinality(E) < 3)
    <2>1. PICK e \in E : /\ \A d \in E : d.latest <= e.latest
                         /\ F = (E \ {e}) \cup {[e EXCEPT !.latest = when]}
      BY <1>4 DEF Merged
    <2> DEFINE new == [e EXCEPT !.latest = when]
    <2>2. new.latest = when /\ F = (E \ {e}) \cup {new}
      BY <2>1
    <2>3. \A d \in E \ {e} : d.latest < when
      BY <2>1 DEF Spread
    <2> HIDE DEF new
    <2>4. IsFiniteSet(E \ {e}) /\ Cardinality(E \ {e}) = Cardinality(E) - 1
      BY <1>1, FS_RemoveElement
    <2>5. new \notin E \ {e}
      BY <2>2, <2>3
    <2>6. IsFiniteSet(F) /\ Cardinality(F) = Cardinality(E)
      <3>1. IsFiniteSet(F) /\ Cardinality(F) = Cardinality(E \ {e}) + 1
        BY <2>2, <2>4, <2>5, FS_AddElement
      <3>2. QED
        BY <1>1, <2>4, <3>1
    <2>7. Spread(F) /\ \A f \in F : f.latest <= when
      BY <2>2, <2>3, <2>6 DEF Spread
    <2>8. QED
      BY <1>1, <1>4, <2>1, <2>2, <2>6, <2>7
  <1>5. QED
    BY <1>2, <1>3, <1>4

\* Servers that record the same report about the same reports end up with the same.
LEMMA MergedIsUnique ==
  ASSUME NEW n \in Nat, NEW E \in SUBSET [first : 0..n, latest : 0..n], Spread(E),
         NEW when \in 0..n, \A e \in E : e.latest <= when,
         NEW F \in Merged(E, when), NEW G \in Merged(E, when)
  PROVE  F = G
  <1>1. CASE Cardinality(E) < 3
    BY <1>1 DEF Merged
  <1>2. CASE ~(Cardinality(E) < 3)
    <2>1. PICK e \in E : /\ \A d \in E : d.latest <= e.latest
                         /\ F = (E \ {e}) \cup {[e EXCEPT !.latest = when]}
      BY <1>2 DEF Merged
    <2>2. PICK g \in E : /\ \A d \in E : d.latest <= g.latest
                         /\ G = (E \ {g}) \cup {[g EXCEPT !.latest = when]}
      BY <1>2 DEF Merged
    <2>3. e.latest = g.latest
      BY <2>1, <2>2
    <2>4. e = g
      BY <2>3 DEF Spread
    <2>5. QED
      BY <2>1, <2>2, <2>4
  <1>3. QED
    BY <1>1, <1>2

\* A report that is handled a second time changes nothing.
LEMMA MergedAgain ==
  ASSUME NEW n \in Nat, NEW E \in SUBSET [first : 0..n, latest : 0..n], Spread(E),
         NEW when \in 0..n, \A e \in E : e.latest <= when,
         NEW F \in Merged(E, when), NEW G \in Merged(F, when)
  PROVE  G = F
  <1>1. /\ Spread(F) /\ F \in SUBSET [first : 0..n, latest : 0..n] /\ \A f \in F : f.latest <= when
    BY MergedCases, MergedTypes
  <1>2. CASE F = E
    BY <1>2, MergedIsUnique
  <1>3. CASE \E f \in F : f.latest = when
    <2>1. PICK f \in F : f.latest = when
      BY <1>3
    <2>2. CASE Cardinality(F) < 3
      <3>1. ~(when > f.latest + DAY)
        BY <2>1
      <3>2. QED
        BY <2>2, <3>1 DEF Merged
    <2>3. CASE ~(Cardinality(F) < 3)
      <3>1. PICK g \in F : /\ \A d \in F : d.latest <= g.latest
                           /\ G = (F \ {g}) \cup {[g EXCEPT !.latest = when]}
        BY <2>3 DEF Merged
      <3>2. g.latest = when /\ g \in [first : 0..n, latest : 0..n]
        BY <1>1, <2>1, <3>1
      <3>3. [g EXCEPT !.latest = when] = g
        BY <3>2
      <3>4. QED
        BY <3>1, <3>3
    <2>4. QED
      BY <2>2, <2>3
  <1>4. QED
    BY <1>2, <1>3, MergedCases

--------------------------------------------------------------------------------
(* The steps of the tasks.                                                    *)

LEMMA ListFacts ==
  ASSUME NEW S, NEW q \in Seq(S), q # <<>>
  PROVE  Head(q) \in S /\ Tail(q) \in Seq(S) /\ InList(q) = {Head(q)} \cup InList(Tail(q))
  <1>1. /\ Len(q) \in Nat \ {0} /\ DOMAIN q = 1..Len(q) /\ Head(q) = q[1] /\ Tail(q) \in Seq(S)
        /\ DOMAIN Tail(q) = 1..(Len(q) - 1)
        /\ \A i \in 1..(Len(q) - 1) : Tail(q)[i] = q[i + 1]
    OBVIOUS
  <1>2. Head(q) \in S
    BY <1>1
  <1>3. ASSUME NEW i \in 1..Len(q)
        PROVE  q[i] = Head(q) \/ q[i] \in InList(Tail(q))
    <2>1. CASE i = 1
      BY <1>1, <2>1
    <2>2. CASE i # 1
      <3>1. i - 1 \in 1..(Len(q) - 1) /\ (i - 1) + 1 = i
        BY <1>1, <2>2
      <3>2. Tail(q)[i - 1] = q[i]
        BY <1>1, <3>1
      <3>3. QED
        BY <1>1, <3>1, <3>2 DEF InList
    <2>3. QED
      BY <2>1, <2>2
  <1>4. ASSUME NEW i \in 1..(Len(q) - 1)
        PROVE  Tail(q)[i] \in InList(q)
    <2>1. i + 1 \in 1..Len(q)
      BY <1>1
    <2>2. QED
      BY <1>1, <2>1 DEF InList
  <1>5. Head(q) \in InList(q)
    BY <1>1 DEF InList
  <1>6. \A x : x \in InList(q) <=> \E i \in 1..Len(q) : x = q[i]
    BY <1>1 DEF InList
  <1>7. \A x : x \in InList(Tail(q)) <=> \E i \in 1..(Len(q) - 1) : x = Tail(q)[i]
    BY <1>1 DEF InList
  <1>8. QED
    BY <1>1, <1>2, <1>3, <1>4, <1>5, <1>6, <1>7

LEMMA NothingInList == InList(<<>>) = {}
  BY DEF InList

\* The task of report r on server t goes on to a label, with a list of hosts.
Step(r, t, label, list) ==
  /\ pc' \in [Report -> [Server -> Labels]]
  /\ todo' \in [Report -> [Server -> Seq(Host \cup {BadHost})]]
  /\ pc'[r][t] = label /\ todo'[r][t] = list
  /\ \A q \in Report, u \in Server :
       q # r \/ u # t => pc'[q][u] = pc[q][u] /\ todo'[q][u] = todo[q][u]

\* Where Turn leads.
NextLabel(t, home, list) ==
  IF list = <<>> THEN IF home = t THEN "send" ELSE "done"
  ELSE IF Head(list) = BadHost THEN "failed" ELSE "lock"

LEMMA GoesOn ==
  ASSUME CallTypes, NEW r \in Report, NEW t \in Server, NEW label \in Labels,
         pc' = [pc EXCEPT ![r][t] = label], todo' = todo
  PROVE  Step(r, t, label, todo[r][t])
  <1>1. pc \in [Report -> [Server -> Labels]] /\ todo \in [Report -> [Server -> Seq(Host \cup {BadHost})]]
    BY DEF CallTypes
  <1>2. pc' \in [Report -> [Server -> Labels]]
    BY <1>1
  <1>3. /\ pc'[r][t] = label
        /\ \A q \in Report, u \in Server : q # r \/ u # t => pc'[q][u] = pc[q][u]
    BY <1>1
  <1>4. QED
    BY <1>1, <1>2, <1>3 DEF Step

LEMMA Turns ==
  ASSUME CallTypes, NEW r \in Report, NEW t \in Server, NEW home,
         NEW list \in Seq(Host \cup {BadHost}), Turn(r, t, home, list)
  PROVE  Step(r, t, NextLabel(t, home, list), list)
  <1>1. pc \in [Report -> [Server -> Labels]] /\ todo \in [Report -> [Server -> Seq(Host \cup {BadHost})]]
    BY DEF CallTypes
  <1> DEFINE label == NextLabel(t, home, list)
  <1>2. pc' = [pc EXCEPT ![r][t] = label] /\ todo' = [todo EXCEPT ![r][t] = list]
    BY DEF Turn, NextLabel
  <1>3. label \in Labels
    BY DEF NextLabel, Labels
  <1> HIDE DEF label
  <1>4. pc' \in [Report -> [Server -> Labels]]
    BY <1>1, <1>2, <1>3
  <1>5. todo' \in [Report -> [Server -> Seq(Host \cup {BadHost})]]
    <2> DEFINE Q == Seq(Host \cup {BadHost})
    <2> HIDE DEF Q
    <2>1. todo \in [Report -> [Server -> Q]] /\ list \in Q
      BY <1>1 DEF Q
    <2>2. todo' \in [Report -> [Server -> Q]]
      BY <1>2, <2>1
    <2>3. QED
      BY <2>2 DEF Q
  <1>6. /\ pc'[r][t] = label
        /\ \A q \in Report, u \in Server : q # r \/ u # t => pc'[q][u] = pc[q][u]
    BY <1>1, <1>2
  <1>7. /\ todo'[r][t] = list
        /\ \A q \in Report, u \in Server : q # r \/ u # t => todo'[q][u] = todo[q][u]
    BY <1>1, <1>2
  <1>8. Step(r, t, label, list)
    BY <1>4, <1>5, <1>6, <1>7 DEF Step
  <1>9. QED
    BY <1>8 DEF label

\* What each action of a task does to the tasks.
LEMMA TaskFacts ==
  ASSUME PeeringInv, NEW r \in Report, NEW s \in Server
  PROVE  /\ Lock(r, s)   => Step(r, s, "record", todo[r][s])
         /\ FailRecord(r, s) => Step(r, s, "failed", todo[r][s])
         /\ Call(r, s)   => Step(r, s, "call", todo[r][s])
         /\ Return(r, s) \/ FailCall(r, s) => Step(r, s, "send", todo[r][s])
         /\ Answer(r, s) => Step(r, s, "done", todo[r][s])
         /\ Record(r, s) => Step(r, s, NextLabel(s, report[r].home, Tail(todo[r][s])), Tail(todo[r][s]))
         /\ Deliver(r, s) \/ Resend(r, s) =>
              Step(r, to[r], NextLabel(to[r], s, report[r].hosts), report[r].hosts)
  <1>1. CallTypes /\ TasksOK
    BY DEF PeeringInv
  <1>2. {"record", "failed", "call", "send", "done"} \subseteq Labels
    BY DEF Labels
  <1>3. /\ Lock(r, s)   => Step(r, s, "record", todo[r][s])
        /\ FailRecord(r, s) => Step(r, s, "failed", todo[r][s])
        /\ Call(r, s)   => Step(r, s, "call", todo[r][s])
    BY <1>1, <1>2, GoesOn DEF Lock, FailRecord, Call
  <1>4. /\ Return(r, s) \/ FailCall(r, s) => Step(r, s, "send", todo[r][s])
        /\ Answer(r, s) => Step(r, s, "done", todo[r][s])
    BY <1>1, <1>2, GoesOn DEF Return, FailCall, Hangup, Answer
  <1>5. ASSUME Record(r, s)
        PROVE  Step(r, s, NextLabel(s, report[r].home, Tail(todo[r][s])), Tail(todo[r][s]))
    <2>1. todo[r][s] # <<>> /\ todo[r][s] \in Seq(Host \cup {BadHost})
      BY <1>1, <1>5 DEF Record, TasksOK, CallTypes
    <2>2. Tail(todo[r][s]) \in Seq(Host \cup {BadHost})
      BY <2>1, ListFacts
    <2>3. QED
      BY <1>1, <1>5, <2>2, Turns DEF Record
  <1>6. ASSUME Deliver(r, s) \/ Resend(r, s)
        PROVE  Step(r, to[r], NextLabel(to[r], s, report[r].hosts), report[r].hosts)
    <2>1. report[r] # NULL
      BY <1>1, <1>6 DEF Deliver, Resend, TasksOK
    <2>2. report[r].hosts \in Seq(Host \cup {BadHost})
      BY <1>1, <2>1 DEF CallTypes, Reports
    <2>3. s = report[r].home /\ to[r] \in Server
      BY <1>1, <1>6, <2>1 DEF Deliver, Resend, TasksOK, Peers
    <2>4. QED
      BY <1>1, <1>6, <2>2, <2>3, Turns DEF Deliver, Resend
  <1>7. QED
    BY <1>3, <1>4, <1>5, <1>6

\* A task that is busy is that of a report.
LEMMA ActiveFacts ==
  ASSUME PeeringInv, NEW r \in Report, NEW s \in Server, pc[r][s] # "none"
  PROVE  /\ report[r] # NULL /\ report[r] \in Reports
         /\ report[r].hosts \in Seq(Host \cup {BadHost}) /\ report[r].home \in Server
         /\ report[r].client \in Client /\ report[r].when \in 0..now
         /\ pc[r][s] \in {"send", "call"} => s = report[r].home
         /\ pc[r][s] = "call" => to[r] \in Peers(s) /\ to[r] \in Server /\ to[r] # s
  <1>1. report[r] # NULL /\ report[r] \in Reports
    BY DEF PeeringInv, TasksOK, CallTypes
  <1>2. /\ report[r].hosts \in Seq(Host \cup {BadHost}) /\ report[r].home \in Server
        /\ report[r].client \in Client /\ report[r].when \in Nat
    BY <1>1 DEF Reports
  <1>3. report[r].when <= now /\ now \in Nat
    BY <1>1 DEF PeeringInv, TasksOK, StoreTypes
  <1>4. /\ pc[r][s] \in {"send", "call"} => s = report[r].home
        /\ pc[r][s] = "call" => to[r] \in Peers(s) /\ to[r] \in Server /\ to[r] # s
    BY <1>1 DEF PeeringInv, TasksOK, Peers
  <1>5. QED
    BY <1>1, <1>2, <1>3, <1>4

LEMMA NextLabelFits ==
  ASSUME NEW t \in Server, NEW home \in Server, NEW list \in Seq(Host \cup {BadHost})
  PROVE  /\ NextLabel(t, home, list) \in {"lock", "send", "done", "failed"}
         /\ NextLabel(t, home, list) = "lock" => list # <<>> /\ Head(list) # BadHost
         /\ NextLabel(t, home, list) \in {"send", "done"} => list = <<>>
         /\ NextLabel(t, home, list) = "send" => t = home
         /\ NextLabel(t, home, list) = "done" => t # home
  BY DEF NextLabel

\* A client's report starts a task on the server it is sent to.
LEMMA AddFacts ==
  ASSUME PeeringInv, NEW r \in Report, AddHosts(r)
  PROVE  \E s \in Server, c \in Client, hosts \in HostLists :
           /\ report[r] = NULL /\ up[s]
           /\ report' = [report EXCEPT ![r] =
                [home |-> s, client |-> c, when |-> now, hosts |-> hosts]]
           /\ report' \in [Report -> Reports \cup {NULL}]
           /\ report'[r] # NULL /\ report'[r].home = s /\ report'[r].client = c
           /\ report'[r].when = now /\ report'[r].hosts = hosts
           /\ \A q \in Report : q # r => report'[q] = report[q]
           /\ hosts \in Seq(Host \cup {BadHost})
           /\ Step(r, s, NextLabel(s, s, hosts), hosts)
           /\ left' = [left EXCEPT ![r] = Peers(s)]
           /\ raced' = IF \E q \in Report : ~Quiet(q) /\ report[q].client = c
                       THEN raced \cup {c} ELSE raced
  <1>1. CallTypes /\ now \in Nat
    BY DEF PeeringInv, StoreTypes
  <1>2. PICK s \in Server, c \in Client, hosts \in HostLists :
          /\ up[s]
          /\ report' = [report EXCEPT ![r] =
               [home |-> s, client |-> c, when |-> now, hosts |-> hosts]]
          /\ Turn(r, s, s, hosts)
          /\ left' = [left EXCEPT ![r] = Peers(s)]
          /\ raced' = IF \E q \in Report : ~Quiet(q) /\ report[q].client = c
                      THEN raced \cup {c} ELSE raced
    BY DEF AddHosts
  <1>3. report[r] = NULL
    BY DEF AddHosts
  <1>4. hosts \in Seq(Host \cup {BadHost})
    OBVIOUS
  <1>5. Step(r, s, NextLabel(s, s, hosts), hosts)
    BY <1>1, <1>2, <1>4, Turns
  <1> DEFINE new == [home |-> s, client |-> c, when |-> now, hosts |-> hosts]
  <1>6. /\ new.home = s /\ new.client = c /\ new.when = now /\ new.hosts = hosts
        /\ new \in Reports
    BY <1>1 DEF Reports
  <1>7. new # NULL
    BY <1>6 DEF Reports
  <1>8. report' = [report EXCEPT ![r] = new] /\ report \in [Report -> Reports \cup {NULL}]
    BY <1>1, <1>2 DEF CallTypes
  <1>9. /\ report' \in [Report -> Reports \cup {NULL}] /\ report'[r] = new
        /\ \A q \in Report : q # r => report'[q] = report[q]
    <2> HIDE DEF new
    <2>1. QED
      BY <1>6, <1>8
  <1>10. /\ report'[r] # NULL /\ report'[r].home = s /\ report'[r].client = c
         /\ report'[r].when = now /\ report'[r].hosts = hosts
    BY <1>6, <1>7, <1>9
  <1>11. QED
    BY <1>2, <1>3, <1>4, <1>5, <1>9, <1>10

--------------------------------------------------------------------------------
(* The tasks of a report.                                                     *)

\* A task that goes on leaves the tasks in order, if its label and its list fit.
LEMMA TasksStep ==
  ASSUME TasksOK, CallTypes, NEW r \in Report, NEW t \in Server,
         NEW label \in Labels \ {"none"}, NEW list,
         Step(r, t, label, list), report' = report, now' = now, report[r] # NULL,
         \A q \in Report : left'[q] \subseteq left[q],
         \A q \in Report : q # r => to'[q] = to[q],
         label \in {"send", "call"} => t = report[r].home,
         pc'[r][report[r].home] = "call" => to'[r] \in Peers(report[r].home),
         label \in {"lock", "record"} => list # <<>> /\ Head(list) # BadHost,
         label \in {"send", "call", "done"} => list = <<>>,
         InList(list) \subseteq InList(report[r].hosts)
  PROVE  TasksOK'
  <1>1. \A q \in Report : report[q] # NULL => report[q].home \in Server
    BY DEF CallTypes, Reports
  <1>2. ASSUME NEW q \in Report, report'[q] = NULL, NEW s \in Server
        PROVE  pc'[q][s] = "none"
    <2>1. q # r /\ pc[q][s] = "none"
      BY <1>2 DEF TasksOK
    <2>2. QED
      BY <2>1 DEF Step
  <1>3. ASSUME NEW q \in Report, report'[q] # NULL
        PROVE  /\ report'[q].when <= now'
               /\ left'[q] \subseteq Peers(report'[q].home)
               /\ pc'[q][report'[q].home] # "none"
               /\ pc'[q][report'[q].home] = "call" => to'[q] \in Peers(report'[q].home)
               /\ \A s \in Server : pc'[q][s] \in {"send", "call"} => s = report'[q].home
    <2>1. report'[q].when <= now' /\ left'[q] \subseteq Peers(report'[q].home)
      BY <1>3 DEF TasksOK
    <2>2. pc'[q][report'[q].home] # "none"
      BY <1>1, <1>3 DEF TasksOK, Step
    <2>3. CASE q = r
      <3>1. pc'[q][report'[q].home] = "call" => to'[q] \in Peers(report'[q].home)
        BY <2>3
      <3>2. ASSUME NEW s \in Server
            PROVE  pc'[q][s] \in {"send", "call"} => s = report'[q].home
        <4>1. s = t => pc'[r][s] = label
          BY DEF Step
        <4>2. s # t => pc'[r][s] = pc[r][s]
          BY DEF Step
        <4>3. pc[r][s] \in {"send", "call"} => s = report[r].home
          BY DEF TasksOK
        <4>4. QED
          BY <2>3, <4>1, <4>2, <4>3
      <3>3. QED
        BY <2>1, <2>2, <3>1, <3>2
    <2>4. CASE q # r
      <3>1. to'[q] = to[q] /\ \A s \in Server : pc'[q][s] = pc[q][s]
        BY <2>4 DEF Step
      <3>2. /\ pc[q][report[q].home] = "call" => to[q] \in Peers(report[q].home)
            /\ \A s \in Server : pc[q][s] \in {"send", "call"} => s = report[q].home
        BY <1>3 DEF TasksOK
      <3>3. QED
        BY <1>1, <1>3, <2>1, <2>2, <3>1, <3>2
    <2>5. QED
      BY <2>3, <2>4
  <1>4. ASSUME NEW q \in Report, NEW s \in Server
        PROVE  /\ pc'[q][s] \in {"lock", "record"} => todo'[q][s] # <<>> /\ Head(todo'[q][s]) # BadHost
               /\ pc'[q][s] \in {"send", "call", "done"} => todo'[q][s] = <<>>
               /\ pc'[q][s] # "none" => InList(todo'[q][s]) \subseteq InList(report'[q].hosts)
    <2>1. CASE q = r /\ s = t
      BY <2>1 DEF Step
    <2>2. CASE ~(q = r /\ s = t)
      <3>1. pc'[q][s] = pc[q][s] /\ todo'[q][s] = todo[q][s]
        BY <2>2 DEF Step
      <3>2. QED
        BY <3>1 DEF TasksOK
    <2>3. QED
      BY <2>1, <2>2
  <1>5. QED
    BY <1>2, <1>3, <1>4 DEF TasksOK

LEMMA TasksStay ==
  ASSUME PeeringInv, [Next]_vars
  PROVE  TasksOK'
  <1> USE DEF PeeringInv
  <1>1. ASSUME NEW r \in Report, NEW s \in Server,
               TaskStep(r, s) \/ FailRecord(r, s) \/ Resend(r, s)
        PROVE  TasksOK'
    <2>1. /\ report' = report /\ now' = now /\ pc[r][s] # "none"
      BY <1>1 DEF TaskStep, Lock, Record, Call, Deliver, Return, Answer, FailCall, Hangup,
                  FailRecord, Resend
    <2>2. /\ report[r] # NULL /\ report[r].hosts \in Seq(Host \cup {BadHost})
          /\ report[r].home \in Server
          /\ pc[r][s] \in {"send", "call"} => s = report[r].home
          /\ pc[r][s] = "call" => to[r] \in Peers(s) /\ to[r] \in Server /\ to[r] # s
      BY <2>1, ActiveFacts
    <2>3. /\ \A q \in Report : left'[q] \subseteq left[q]
          /\ \A q \in Report : q # r => to'[q] = to[q]
      <3>1. CASE Call(r, s)
        BY <3>1 DEF Call, CallTypes
      <3>2. CASE Return(r, s) \/ FailCall(r, s)
        BY <3>2 DEF Return, FailCall, Hangup, CallTypes
      <3>3. QED
        BY <1>1, <3>1, <3>2 DEF TaskStep, Lock, Record, Deliver, Answer, FailRecord, Resend
    <2>4. todo[r][s] \in Seq(Host \cup {BadHost}) /\ InList(todo[r][s]) \subseteq InList(report[r].hosts)
      <3>1. todo[r][s] \in Seq(Host \cup {BadHost})
        BY DEF CallTypes
      <3>2. QED
        BY <2>1, <3>1 DEF TasksOK
    <2>5. CASE Lock(r, s) \/ FailRecord(r, s)
      <3>1. PICK label \in {"record", "failed"} : Step(r, s, label, todo[r][s])
        BY <2>5, TaskFacts
      <3>2. to' = to /\ pc[r][s] \in {"lock", "record"}
        BY <2>5 DEF Lock, FailRecord
      <3>3. todo[r][s] # <<>> /\ Head(todo[r][s]) # BadHost
        BY <3>2 DEF TasksOK
      <3>4. label \in Labels \ {"none"}
        BY DEF Labels
      <3>5. pc'[r][report[r].home] = "call" => to'[r] \in Peers(report[r].home)
        BY <2>2, <3>1, <3>2 DEF Step, TasksOK
      <3>6. QED
        BY <2>1, <2>2, <2>3, <2>4, <3>1, <3>3, <3>4, <3>5, TasksStep
    <2>6. CASE Call(r, s)
      <3>1. Step(r, s, "call", todo[r][s])
        BY <2>6, TaskFacts
      <3>2. pc[r][s] = "send" /\ to'[r] \in left[r] /\ s = report[r].home
        BY <2>2, <2>6 DEF Call, CallTypes
      <3>3. todo[r][s] = <<>> /\ to'[r] \in Peers(report[r].home)
        BY <2>2, <3>2 DEF TasksOK
      <3>4. "call" \in Labels \ {"none"}
        BY DEF Labels
      <3>5. QED
        BY <2>1, <2>2, <2>3, <2>4, <3>1, <3>2, <3>3, <3>4, TasksStep
    <2>7. CASE Return(r, s) \/ FailCall(r, s)
      <3>1. Step(r, s, "send", todo[r][s])
        BY <2>7, TaskFacts
      <3>2. pc[r][s] = "call" /\ s = report[r].home
        BY <2>2, <2>7 DEF Return, FailCall
      <3>3. todo[r][s] = <<>>
        BY <3>2 DEF TasksOK
      <3>4. "send" \in Labels \ {"none"} /\ pc'[r][report[r].home] # "call"
        BY <3>1, <3>2 DEF Labels, Step
      <3>5. QED
        BY <2>1, <2>2, <2>3, <2>4, <3>1, <3>2, <3>3, <3>4, TasksStep
    <2>8. CASE Answer(r, s)
      <3>1. Step(r, s, "done", todo[r][s])
        BY <2>8, TaskFacts
      <3>2. pc[r][s] = "send" /\ s = report[r].home
        BY <2>2, <2>8 DEF Answer
      <3>3. todo[r][s] = <<>>
        BY <3>2 DEF TasksOK
      <3>4. "done" \in Labels \ {"none"} /\ pc'[r][report[r].home] # "call"
        BY <3>1, <3>2 DEF Labels, Step
      <3>5. QED
        BY <2>1, <2>2, <2>3, <2>4, <3>1, <3>2, <3>3, <3>4, TasksStep
    <2>9. CASE Record(r, s)
      <3> DEFINE list == Tail(todo[r][s])
                 label == NextLabel(s, report[r].home, list)
      <3>1. Step(r, s, label, list)
        BY <2>9, TaskFacts
      <3>2. pc[r][s] = "record" /\ to' = to
        BY <2>9 DEF Record
      <3>3. todo[r][s] # <<>>
        BY <3>2 DEF TasksOK
      <3>4. list \in Seq(Host \cup {BadHost}) /\ InList(list) \subseteq InList(report[r].hosts)
        BY <2>4, <3>3, ListFacts
      <3>5. /\ label \in {"lock", "send", "done", "failed"}
            /\ label = "lock" => list # <<>> /\ Head(list) # BadHost
            /\ label \in {"send", "done"} => list = <<>>
            /\ label = "send" => s = report[r].home
        BY <2>2, <3>4, NextLabelFits
      <3> HIDE DEF list, label
      <3>6. label \in Labels \ {"none"}
        BY <3>5 DEF Labels
      <3>7. pc'[r][report[r].home] = "call" => to'[r] \in Peers(report[r].home)
        BY <2>2, <3>1, <3>2, <3>5 DEF Step, TasksOK
      <3>8. QED
        BY <2>1, <2>2, <2>3, <3>1, <3>4, <3>5, <3>6, <3>7, TasksStep
    <2>10. CASE Deliver(r, s) \/ Resend(r, s)
      <3> DEFINE list == report[r].hosts
                 label == NextLabel(to[r], s, list)
      <3>1. Step(r, to[r], label, list)
        BY <2>10, TaskFacts
      <3>2. pc[r][s] = "call" /\ to' = to /\ s = report[r].home /\ to[r] \in Peers(s)
            /\ to[r] \in Server /\ to[r] # s
        BY <2>2, <2>10 DEF Deliver, Resend
      <3>3. /\ label \in {"lock", "send", "done", "failed"}
            /\ label = "lock" => list # <<>> /\ Head(list) # BadHost
            /\ label \in {"send", "done"} => list = <<>>
            /\ label = "send" => to[r] = s
        BY <2>2, <3>2, NextLabelFits
      <3> HIDE DEF label
      <3>4. label \in Labels \ {"none"} /\ to'[r] \in Peers(report[r].home)
        BY <3>2, <3>3 DEF Labels
      <3>5. QED
        BY <2>1, <2>2, <2>3, <3>1, <3>2, <3>3, <3>4, TasksStep
    <2>11. QED
      BY <1>1, <2>5, <2>6, <2>7, <2>8, <2>9, <2>10 DEF TaskStep
  <1>2. ASSUME NEW r \in Report, AddHosts(r)
        PROVE  TasksOK'
    <2>1. PICK s \in Server, c \in Client, hosts \in HostLists :
           /\ report[r] = NULL
           /\ report'[r] # NULL /\ report'[r].home = s
           /\ report'[r].when = now /\ report'[r].hosts = hosts
           /\ \A q \in Report : q # r => report'[q] = report[q]
           /\ hosts \in Seq(Host \cup {BadHost})
           /\ Step(r, s, NextLabel(s, s, hosts), hosts)
           /\ left' = [left EXCEPT ![r] = Peers(s)]
      BY <1>2, AddFacts
    <2>2. now' = now /\ to' = to
      BY <1>2 DEF AddHosts
    <2> DEFINE label == NextLabel(s, s, hosts)
    <2>3. /\ label \in {"lock", "send", "failed"}
          /\ label = "lock" => hosts # <<>> /\ Head(hosts) # BadHost
          /\ label = "send" => hosts = <<>>
      BY <2>1, NextLabelFits
    <2>4. \A u \in Server : pc[r][u] = "none"
      BY <2>1 DEF TasksOK
    <2>5. Step(r, s, label, hosts)
      BY <2>1
    <2> HIDE DEF label
    <2>6. now \in Nat /\ left' \in [Report -> SUBSET Server] /\ left'[r] = Peers(s)
          /\ \A q \in Report : q # r => left'[q] = left[q]
      BY <2>1 DEF StoreTypes, CallTypes, Peers
    <2>7. \A q \in Report, u \in Server : q # r => pc'[q][u] = pc[q][u] /\ todo'[q][u] = todo[q][u]
      BY <2>5 DEF Step
    <2>8. \A u \in Server : u # s => pc'[r][u] = "none"
      BY <2>4, <2>5 DEF Step
    <2>9. pc'[r][s] = label /\ todo'[r][s] = hosts
      BY <2>5 DEF Step
    <2>10. ASSUME NEW q \in Report, report'[q] = NULL, NEW u \in Server
           PROVE  pc'[q][u] = "none"
      BY <2>1, <2>7, <2>10 DEF TasksOK
    <2>11. ASSUME NEW q \in Report, report'[q] # NULL
           PROVE  /\ report'[q].when <= now'
                  /\ left'[q] \subseteq Peers(report'[q].home)
                  /\ pc'[q][report'[q].home] # "none"
                  /\ pc'[q][report'[q].home] = "call" => to'[q] \in Peers(report'[q].home)
                  /\ \A u \in Server : pc'[q][u] \in {"send", "call"} => u = report'[q].home
      <3>1. CASE q = r
        BY <2>1, <2>2, <2>3, <2>6, <2>8, <2>9, <3>1
      <3>2. CASE q # r
        <4>1. report'[q] = report[q] /\ report[q] # NULL /\ report[q].home \in Server
          BY <2>1, <2>11, <3>2 DEF CallTypes, Reports
        <4>2. left'[q] = left[q] /\ to'[q] = to[q] /\ now' = now
          BY <2>2, <2>6, <3>2
        <4>3. \A u \in Server : pc'[q][u] = pc[q][u]
          BY <2>7, <3>2
        <4>4. report[q].when <= now /\ left[q] \subseteq Peers(report[q].home)
              /\ pc[q][report[q].home] # "none"
              /\ (pc[q][report[q].home] = "call" => to[q] \in Peers(report[q].home))
              /\ (\A u \in Server : pc[q][u] \in {"send", "call"} => u = report[q].home)
          BY <4>1 DEF TasksOK
        <4>5. QED
          BY <4>1, <4>2, <4>3, <4>4
      <3>3. QED
        BY <3>1, <3>2
    <2>12. ASSUME NEW q \in Report, NEW u \in Server
           PROVE  /\ pc'[q][u] \in {"lock", "record"} => todo'[q][u] # <<>> /\ Head(todo'[q][u]) # BadHost
                  /\ pc'[q][u] \in {"send", "call", "done"} => todo'[q][u] = <<>>
                  /\ pc'[q][u] # "none" => InList(todo'[q][u]) \subseteq InList(report'[q].hosts)
      <3>1. CASE q = r
        <4>1. CASE u = s
          BY <2>1, <2>3, <2>9, <3>1, <4>1
        <4>2. CASE u # s
          BY <2>8, <3>1, <4>2
        <4>3. QED
          BY <4>1, <4>2
      <3>2. CASE q # r
        BY <2>1, <2>7, <3>2 DEF TasksOK
      <3>3. QED
        BY <3>1, <3>2
    <2>13. QED
      BY <2>10, <2>11, <2>12 DEF TasksOK
  <1>3. ASSUME NEW s \in Server, Crash(s)
        PROVE  TasksOK'
    <2>1. report' = report /\ todo' = todo /\ left' = left /\ now' = now
      BY <1>3 DEF Crash
    <2>2. \A q \in Report, u \in Server :
            pc'[q][u] = pc[q][u] \/ (u = s /\ pc'[q][u] = "failed" /\ pc[q][u] # "none")
      BY <1>3 DEF Crash, CallTypes, Active
    <2>3. \A q \in Report : pc[q][s] # "call" => to'[q] = to[q]
      BY <1>3 DEF Crash, CallTypes
    <2>4. \A q \in Report : pc[q][s] = "call" => pc'[q][s] = "failed"
      BY <1>3 DEF Crash, CallTypes, Active
    <2>5. \A q \in Report : report[q] # NULL => report[q].home \in Server
      BY DEF CallTypes, Reports
    <2>6. ASSUME NEW q \in Report, report[q] # NULL
          PROVE  pc'[q][report[q].home] = "call" => to'[q] \in Peers(report[q].home)
      BY <2>2, <2>3, <2>4, <2>5, <2>6 DEF TasksOK
    <2>7. ASSUME NEW q \in Report
          PROVE  /\ (report[q] = NULL => \A u \in Server : pc'[q][u] = "none")
                 /\ (report[q] # NULL => /\ pc'[q][report[q].home] # "none"
                                         /\ \A u \in Server : pc'[q][u] \in {"send", "call"} => u = report[q].home)
      BY <2>2, <2>5 DEF TasksOK
    <2>8. ASSUME NEW q \in Report, NEW u \in Server
          PROVE  /\ pc'[q][u] \in {"lock", "record"} => todo[q][u] # <<>> /\ Head(todo[q][u]) # BadHost
                 /\ pc'[q][u] \in {"send", "call", "done"} => todo[q][u] = <<>>
                 /\ pc'[q][u] # "none" => InList(todo[q][u]) \subseteq InList(report[q].hosts)
      BY <2>2 DEF TasksOK
    <2>9. \A q \in Report : report[q] # NULL =>
            report[q].when <= now /\ left[q] \subseteq Peers(report[q].home)
      BY DEF TasksOK
    <2>10. QED
      BY <2>1, <2>6, <2>7, <2>8, <2>9 DEF TasksOK
  <1>4. CASE \E s \in Server : Boot(s)
    <2>1. UNCHANGED <<now, report, pc, todo, left, to>>
      BY <1>4 DEF Boot
    <2>2. QED
      BY <2>1 DEF TasksOK
  <1>5. CASE Tick
    <2>1. now \in Nat /\ now' = now + 1 /\ UNCHANGED <<report, pc, todo, left, to>>
      BY <1>5 DEF Tick, StoreTypes
    <2>2. \A r \in Report : report[r] # NULL => report[r].when \in Nat
      BY DEF CallTypes, Reports
    <2>3. \A r \in Report : report[r] # NULL => report[r].when <= now + 1
      BY <2>1, <2>2 DEF TasksOK
    <2>4. QED
      BY <2>1, <2>3 DEF TasksOK
  <1>6. CASE UNCHANGED vars
    BY <1>6 DEF vars, TasksOK
  <1>7. QED
    BY <1>1, <1>2, <1>3, <1>4, <1>5, <1>6 DEF Next

--------------------------------------------------------------------------------
(* The types, the locks and the calls.                                        *)

\* What Record does to the entries: those of one server, host and client change.
LEMMA RecordFacts ==
  ASSUME PeeringInv, NEW r \in Report, NEW s \in Server, Record(r, s)
  PROVE  \E h \in Host, c \in Client :
           /\ h = Head(todo[r][s]) /\ c = report[r].client
           /\ entries'[s][h][c] \in Merged(entries[s][h][c], report[r].when)
           /\ \A t \in Server, g \in Host, d \in Client :
                t # s \/ g # h \/ d # c => entries'[t][g][d] = entries[t][g][d]
           /\ entries' \in [Server -> [Host -> [Client -> SUBSET Past]]]
  <1>1. /\ pc[r][s] = "record" /\ StoreTypes /\ CallTypes /\ TasksOK
        /\ todo[r][s] # <<>> /\ Head(todo[r][s]) # BadHost
    BY DEF Record, PeeringInv, TasksOK
  <1> DEFINE h == Head(todo[r][s])
             c == report[r].client
  <1>2. h \in Host
    <2>1. todo[r][s] \in Seq(Host \cup {BadHost})
      BY <1>1 DEF CallTypes
    <2>2. QED
      BY <1>1, <2>1, ListFacts
  <1>3. c \in Client /\ report[r].when \in 0..now
    BY <1>1, ActiveFacts
  <1>4. PICK F \in Merged(entries[s][h][c], report[r].when) : entries' = [entries EXCEPT ![s][h][c] = F]
    BY DEF Record
  <1>5. now \in Nat /\ entries \in [Server -> [Host -> [Client -> SUBSET Past]]]
    BY <1>1 DEF StoreTypes
  <1> HIDE DEF h, c
  <1>6. entries[s][h][c] \in SUBSET Past
    BY <1>2, <1>3, <1>5
  <1>7. F \in SUBSET Past
    BY <1>3, <1>4, <1>5, <1>6, MergedTypes DEF Past
  <1> DEFINE P == SUBSET Past
  <1>8. entries \in [Server -> [Host -> [Client -> P]]] /\ F \in P
    BY <1>5, <1>7
  <1> HIDE DEF P
  <1>9. /\ entries' \in [Server -> [Host -> [Client -> P]]]
        /\ entries'[s][h][c] = F
        /\ \A t \in Server, g \in Host, d \in Client :
             t # s \/ g # h \/ d # c => entries'[t][g][d] = entries[t][g][d]
    BY <1>2, <1>3, <1>4, <1>8
  <1>10. QED
    BY <1>2, <1>3, <1>4, <1>9 DEF P, h, c

LEMMA TypesStay ==
  ASSUME PeeringInv, [Next]_vars
  PROVE  StoreTypes' /\ CallTypes'
  <1> USE DEF PeeringInv
  <1>0. /\ now \in Nat /\ now \in 0..MaxTime /\ faults \in 0..MaxFaults
        /\ busy \in [Server -> SUBSET Host] /\ up \in [Server -> BOOLEAN] /\ raced \subseteq Client
        /\ left \in [Report -> SUBSET Server] /\ failed \in [Report -> SUBSET Server]
        /\ to \in [Report -> Server \cup {NULL}]
        /\ pc \in [Report -> [Server -> Labels]]
    BY DEF StoreTypes, CallTypes
  <1>f. \A k : Fault(k) => faults' \in 0..MaxFaults
    BY <1>0 DEF Fault
  <1>1. ASSUME NEW r \in Report, NEW s \in Server,
               TaskStep(r, s) \/ FailRecord(r, s) \/ Resend(r, s)
        PROVE  StoreTypes' /\ CallTypes'
    <2>1. report' = report /\ now' = now /\ up' = up /\ raced' = raced /\ pc[r][s] # "none"
      BY <1>1 DEF TaskStep, Lock, Record, Call, Deliver, Return, Answer, FailCall, Hangup,
                  FailRecord, Resend
    <2>2. pc[r][s] = "call" => to[r] \in Server
      BY <2>1, ActiveFacts
    <2>3. faults' \in 0..MaxFaults
      BY <1>0, <1>1, <1>f DEF TaskStep, Lock, Record, Call, Deliver, Return, Answer, FailCall, Hangup,
                  FailRecord, Resend
    <2>4. pc' \in [Report -> [Server -> Labels]] /\ todo' \in [Report -> [Server -> Seq(Host \cup {BadHost})]]
      <3>1. \E t \in Server : \E label, list : Step(r, t, label, list)
        <4>1. CASE Deliver(r, s) \/ Resend(r, s)
          <5>1. pc[r][s] = "call"
            BY <4>1 DEF Deliver, Resend
          <5>2. QED
            BY <2>2, <4>1, <5>1, TaskFacts
        <4>2. CASE ~(Deliver(r, s) \/ Resend(r, s))
          BY <1>1, <4>2, TaskFacts DEF TaskStep
        <4>3. QED
          BY <4>1, <4>2
      <3>2. QED
        BY <3>1 DEF Step
    <2>5. busy' \in [Server -> SUBSET Host]
      <3>1. CASE Lock(r, s)
        <4>1. pc[r][s] = "lock" /\ todo[r][s] \in Seq(Host \cup {BadHost})
          BY <3>1 DEF Lock, CallTypes
        <4>2. todo[r][s] # <<>> /\ Head(todo[r][s]) # BadHost
          BY <4>1 DEF TasksOK
        <4>3. Head(todo[r][s]) \in Host
          BY <4>1, <4>2, ListFacts
        <4>4. QED
          BY <1>0, <3>1, <4>3 DEF Lock
      <3>2. CASE Record(r, s) \/ FailRecord(r, s)
        <4>1. busy' = [busy EXCEPT ![s] = @ \ {Head(todo[r][s])}]
          BY <3>2 DEF Record, FailRecord
        <4>2. QED
          BY <1>0, <4>1
      <3>3. CASE ~(Lock(r, s) \/ Record(r, s) \/ FailRecord(r, s))
        BY <1>0, <1>1, <3>3 DEF TaskStep, Call, Deliver, Return, Answer, FailCall, Hangup, Resend
      <3>4. QED
        BY <3>1, <3>2, <3>3
    <2>6. entries' \in [Server -> [Host -> [Client -> SUBSET Past]]]
      <3>1. CASE Record(r, s)
        BY <3>1, RecordFacts
      <3>2. CASE ~Record(r, s)
        <4>1. entries' = entries
          BY <1>1, <3>2 DEF TaskStep, Lock, Call, Deliver, Return, Answer, FailCall, Hangup,
                            FailRecord, Resend
        <4>2. QED
          BY <4>1 DEF StoreTypes
      <3>3. QED
        BY <3>1, <3>2
    <2>7. left' \in [Report -> SUBSET Server] /\ failed' \in [Report -> SUBSET Server]
          /\ to' \in [Report -> Server \cup {NULL}]
      <3>1. CASE Call(r, s)
        BY <1>0, <3>1 DEF Call
      <3>2. CASE Return(r, s)
        BY <1>0, <3>2 DEF Return, Hangup
      <3>3. CASE FailCall(r, s)
        BY <1>0, <2>2, <3>3 DEF FailCall, Hangup
      <3>4. CASE ~(Call(r, s) \/ Return(r, s) \/ FailCall(r, s))
        BY <1>0, <1>1, <3>4 DEF TaskStep, Lock, Record, Deliver, Answer, FailRecord, Resend
      <3>5. QED
        BY <3>1, <3>2, <3>3, <3>4
    <2>8. StoreTypes'
      <3>1. Past' = Past
        BY <2>1 DEF Past
      <3>2. QED
        BY <1>0, <2>1, <2>3, <2>5, <2>6, <3>1 DEF StoreTypes
    <2>9. CallTypes'
      BY <2>1, <2>4, <2>7 DEF CallTypes
    <2>10. QED
      BY <2>8, <2>9
  <1>2. ASSUME NEW r \in Report, AddHosts(r)
        PROVE  StoreTypes' /\ CallTypes'
    <2>1. PICK s \in Server, c \in Client, hosts \in HostLists :
           /\ report' \in [Report -> Reports \cup {NULL}]
           /\ Step(r, s, NextLabel(s, s, hosts), hosts)
           /\ left' = [left EXCEPT ![r] = Peers(s)]
           /\ raced' = IF \E q \in Report : ~Quiet(q) /\ report[q].client = c
                       THEN raced \cup {c} ELSE raced
      BY <1>2, AddFacts
    <2>2. UNCHANGED <<now, up, entries, busy, to, failed, faults>>
      BY <1>2 DEF AddHosts
    <2>3. raced' \subseteq Client /\ left' \in [Report -> SUBSET Server]
      BY <1>0, <2>1 DEF Peers
    <2>4. Past' = Past
      BY <2>2 DEF Past
    <2>5. StoreTypes'
      BY <2>2, <2>3, <2>4 DEF StoreTypes
    <2>6. CallTypes'
      BY <2>1, <2>2, <2>3 DEF CallTypes, Step
    <2>7. QED
      BY <2>5, <2>6
  <1>3. ASSUME NEW s \in Server, Crash(s)
        PROVE  StoreTypes' /\ CallTypes'
    <2>1. UNCHANGED <<now, entries, report, todo, left, failed, raced>>
      BY <1>3 DEF Crash
    <2>2. /\ up' \in [Server -> BOOLEAN] /\ busy' \in [Server -> SUBSET Host]
          /\ faults' \in 0..MaxFaults
      BY <1>0, <1>3, <1>f DEF Crash
    <2>3. to' \in [Report -> Server \cup {NULL}]
      BY <1>0, <1>3 DEF Crash
    <2>4. pc' \in [Report -> [Server -> Labels]]
      <3>1. "failed" \in Labels
        BY DEF Labels
      <3>2. QED
        BY <1>0, <1>3, <3>1 DEF Crash
    <2>5. Past' = Past
      BY <2>1 DEF Past
    <2>6. StoreTypes'
      BY <2>1, <2>2, <2>5 DEF StoreTypes
    <2>7. CallTypes'
      BY <2>1, <2>3, <2>4 DEF CallTypes
    <2>8. QED
      BY <2>6, <2>7
  <1>4. ASSUME NEW s \in Server, Boot(s)
        PROVE  StoreTypes' /\ CallTypes'
    <2>1. UNCHANGED <<now, entries, busy, report, pc, todo, left, to, failed, raced, faults>>
      BY <1>4 DEF Boot
    <2>2. up' \in [Server -> BOOLEAN]
      BY <1>0, <1>4 DEF Boot
    <2>3. Past' = Past
      BY <2>1 DEF Past
    <2>4. StoreTypes'
      BY <2>1, <2>2, <2>3 DEF StoreTypes
    <2>5. CallTypes'
      BY <2>1 DEF CallTypes
    <2>6. QED
      BY <2>4, <2>5
  <1>5. ASSUME Tick
        PROVE  StoreTypes' /\ CallTypes'
    <2>1. UNCHANGED <<up, entries, busy, report, pc, todo, left, to, failed, raced, faults>>
      BY <1>5 DEF Tick
    <2>2. now' \in 0..MaxTime /\ now' = now + 1
      BY <1>0, <1>5 DEF Tick
    <2>3. Past \subseteq Past'
      <3>1. 0..now \subseteq 0..now'
        BY <1>0, <2>2
      <3>2. QED
        BY <3>1 DEF Past
    <2>4. entries' \in [Server -> [Host -> [Client -> SUBSET Past']]]
      <3>1. \A s \in Server, h \in Host, c \in Client : entries[s][h][c] \in SUBSET Past
        BY DEF StoreTypes
      <3>2. \A s \in Server, h \in Host, c \in Client : entries[s][h][c] \in SUBSET Past'
        BY <2>3, <3>1
      <3>3. /\ entries = [s \in Server |-> entries[s]]
            /\ \A s \in Server : entries[s] = [h \in Host |-> entries[s][h]]
            /\ \A s \in Server, h \in Host : entries[s][h] = [c \in Client |-> entries[s][h][c]]
        BY DEF StoreTypes
      <3>4. \A s \in Server, h \in Host : entries[s][h] \in [Client -> SUBSET Past']
        BY <3>2, <3>3
      <3>5. \A s \in Server : entries[s] \in [Host -> [Client -> SUBSET Past']]
        BY <3>3, <3>4
      <3>6. QED
        BY <2>1, <3>3, <3>5
    <2>5. StoreTypes'
      BY <2>1, <2>2, <2>4 DEF StoreTypes
    <2>6. CallTypes'
      BY <2>1 DEF CallTypes
    <2>7. QED
      BY <2>5, <2>6
  <1>6. CASE UNCHANGED vars
    <2>1. UNCHANGED <<now, up, entries, busy, report, pc, todo, left, to, failed, raced, faults>>
      BY <1>6 DEF vars
    <2>2. QED
      BY <2>1 DEF StoreTypes, CallTypes, Past
  <1>7. QED
    BY <1>1, <1>2, <1>3, <1>4, <1>5, <1>6 DEF Next

LEMMA LocksKeep ==
  ASSUME LocksOK, busy' = busy,
         \A q \in Report, u \in Server :
           /\ pc'[q][u] = "record" <=> pc[q][u] = "record"
           /\ pc[q][u] = "record" => todo'[q][u] = todo[q][u]
  PROVE  LocksOK'
  BY DEF LocksOK

LEMMA LocksStay ==
  ASSUME PeeringInv, [Next]_vars
  PROVE  LocksOK'
  <1>1. LocksOK /\ CallTypes /\ TasksOK /\ busy \in [Server -> SUBSET Host]
    BY DEF PeeringInv, StoreTypes
  <1>2. ASSUME NEW r \in Report, NEW s \in Server, Lock(r, s)
        PROVE  LocksOK'
    <2> DEFINE h == Head(todo[r][s])
    <2>1. Step(r, s, "record", todo[r][s])
      BY <1>2, TaskFacts
    <2>2. h \notin busy[s] /\ busy' = [busy EXCEPT ![s] = @ \cup {h}] /\ pc[r][s] # "record"
      BY <1>2 DEF Lock
    <2>3. /\ pc'[r][s] = "record" /\ todo'[r][s] = todo[r][s]
          /\ \A q \in Report, u \in Server :
               q # r \/ u # s => pc'[q][u] = pc[q][u] /\ todo'[q][u] = todo[q][u]
      BY <2>1 DEF Step
    <2>4. \A u \in Server : \A g : g \in busy'[u] <=> g \in busy[u] \/ (u = s /\ g = h)
      BY <1>1, <2>2
    <2>5. \A q \in Report : pc[q][s] = "record" => Head(todo[q][s]) # h
      <3>1. h \in Host
        <4>1. pc[r][s] = "lock" /\ todo[r][s] \in Seq(Host \cup {BadHost})
          BY <1>1, <1>2 DEF Lock, CallTypes
        <4>2. todo[r][s] # <<>> /\ Head(todo[r][s]) # BadHost
          BY <1>1, <4>1 DEF TasksOK
        <4>3. QED
          BY <4>1, <4>2, ListFacts
      <3>2. QED
        BY <1>1, <2>2, <3>1 DEF LocksOK
    <2> DEFINE holds(q, u, g) == pc[q][u] = "record" /\ Head(todo[q][u]) = g
    <2>6. \A q \in Report, u \in Server : \A g :
            (pc'[q][u] = "record" /\ Head(todo'[q][u]) = g)
            <=> (holds(q, u, g) \/ (q = r /\ u = s /\ g = h))
      BY <2>2, <2>3
    <2>7. \A u \in Server, g \in Host : g \in busy[u] <=> \E q \in Report : holds(q, u, g)
      BY <1>1 DEF LocksOK
    <2>8. \A u \in Server, p, q \in Report : \A g : holds(p, u, g) /\ holds(q, u, g) => p = q
      BY <1>1 DEF LocksOK
    <2>9. \A q \in Report : ~holds(q, s, h)
      BY <2>5
    <2> HIDE DEF holds, h
    <2>10. \A u \in Server, g \in Host :
             g \in busy'[u] <=> \E q \in Report : pc'[q][u] = "record" /\ Head(todo'[q][u]) = g
      BY <2>4, <2>6, <2>7
    <2>11. ASSUME NEW u \in Server, NEW p \in Report, NEW q \in Report,
                  pc'[p][u] = "record", pc'[q][u] = "record", Head(todo'[p][u]) = Head(todo'[q][u])
           PROVE  p = q
      <3> DEFINE g == Head(todo'[p][u])
      <3>1. pc'[p][u] = "record" /\ Head(todo'[p][u]) = g
        BY <2>11
      <3>2. pc'[q][u] = "record" /\ Head(todo'[q][u]) = g
        BY <2>11
      <3> HIDE DEF g
      <3>3. holds(p, u, g) \/ (p = r /\ u = s /\ g = h)
        BY <2>6, <3>1
      <3>4. holds(q, u, g) \/ (q = r /\ u = s /\ g = h)
        BY <2>6, <3>2
      <3>5. QED
        BY <2>8, <2>9, <3>3, <3>4
    <2>12. QED
      BY <2>10, <2>11 DEF LocksOK
  <1>3. ASSUME NEW r \in Report, NEW s \in Server, Record(r, s) \/ FailRecord(r, s)
        PROVE  LocksOK'
    <2> DEFINE h == Head(todo[r][s])
    <2>1. pc[r][s] = "record" /\ busy' = [busy EXCEPT ![s] = @ \ {h}]
      BY <1>3 DEF Record, FailRecord
    <2>2. \E label, list : label # "record" /\ Step(r, s, label, list)
      <3>1. CASE FailRecord(r, s)
        BY <3>1, TaskFacts
      <3>2. CASE Record(r, s)
        <4>1. NextLabel(s, report[r].home, Tail(todo[r][s])) # "record"
          BY DEF NextLabel
        <4>2. QED
          BY <3>2, <4>1, TaskFacts
      <3>3. QED
        BY <1>3, <3>1, <3>2
    <2>3. /\ pc'[r][s] # "record"
          /\ \A q \in Report, u \in Server :
               q # r \/ u # s => pc'[q][u] = pc[q][u] /\ todo'[q][u] = todo[q][u]
      BY <2>2 DEF Step
    <2>4. \A u \in Server : \A g : g \in busy'[u] <=> g \in busy[u] /\ ~(u = s /\ g = h)
      BY <1>1, <2>1
    <2> DEFINE holds(q, u, g) == pc[q][u] = "record" /\ Head(todo[q][u]) = g
    <2>6. \A q \in Report, u \in Server : \A g :
            (pc'[q][u] = "record" /\ Head(todo'[q][u]) = g)
            <=> (holds(q, u, g) /\ ~(q = r /\ u = s))
      BY <2>3
    <2>7. \A u \in Server, g \in Host : g \in busy[u] <=> \E q \in Report : holds(q, u, g)
      BY <1>1 DEF LocksOK
    <2>8. \A u \in Server, p, q \in Report : \A g : holds(p, u, g) /\ holds(q, u, g) => p = q
      BY <1>1 DEF LocksOK
    <2>9. \A g : holds(r, s, g) <=> g = h
      BY <2>1
    <2> HIDE DEF holds, h
    <2>10. \A u \in Server, g \in Host :
             g \in busy'[u] <=> \E q \in Report : pc'[q][u] = "record" /\ Head(todo'[q][u]) = g
      BY <2>4, <2>6, <2>7, <2>8, <2>9
    <2>11. ASSUME NEW u \in Server, NEW p \in Report, NEW q \in Report,
                  pc'[p][u] = "record", pc'[q][u] = "record", Head(todo'[p][u]) = Head(todo'[q][u])
           PROVE  p = q
      <3> DEFINE g == Head(todo'[p][u])
      <3>1. pc'[p][u] = "record" /\ Head(todo'[p][u]) = g
        BY <2>11
      <3>2. pc'[q][u] = "record" /\ Head(todo'[q][u]) = g
        BY <2>11
      <3> HIDE DEF g
      <3>3. holds(p, u, g) /\ holds(q, u, g)
        BY <2>6, <3>1, <3>2
      <3>4. QED
        BY <2>8, <3>3
    <2>12. QED
      BY <2>10, <2>11 DEF LocksOK
  <1>4. ASSUME NEW r \in Report, NEW s \in Server,
               Call(r, s) \/ Return(r, s) \/ Answer(r, s) \/ FailCall(r, s)
        PROVE  LocksOK'
    <2>1. pc[r][s] \in {"send", "call"} /\ busy' = busy
      BY <1>4 DEF Call, Return, Answer, FailCall, Hangup
    <2>2. PICK label \in {"call", "send", "done"} : Step(r, s, label, todo[r][s])
      BY <1>4, TaskFacts
    <2>3. QED
      BY <1>1, <2>1, <2>2, LocksKeep DEF Step
  <1>5. ASSUME NEW r \in Report, NEW s \in Server, Deliver(r, s) \/ Resend(r, s)
        PROVE  LocksOK'
    <2>1. pc[r][s] = "call" /\ pc[r][to[r]] \in {"none", "done"} /\ busy' = busy
      BY <1>5 DEF Deliver, Resend
    <2>2. to[r] \in Server
      BY <2>1, ActiveFacts
    <2> DEFINE label == NextLabel(to[r], s, report[r].hosts)
    <2>3. label # "record"
      BY DEF NextLabel
    <2>4. Step(r, to[r], label, report[r].hosts)
      BY <1>5, TaskFacts
    <2> HIDE DEF label
    <2>5. QED
      BY <1>1, <2>1, <2>2, <2>3, <2>4, LocksKeep DEF Step
  <1>6. ASSUME NEW r \in Report, AddHosts(r)
        PROVE  LocksOK'
    <2>1. PICK s \in Server, hosts \in HostLists :
            report[r] = NULL /\ Step(r, s, NextLabel(s, s, hosts), hosts)
      BY <1>6, AddFacts
    <2>2. pc[r][s] = "none" /\ busy' = busy
      BY <1>1, <1>6, <2>1 DEF TasksOK, AddHosts
    <2>3. NextLabel(s, s, hosts) # "record"
      BY DEF NextLabel
    <2> DEFINE label == NextLabel(s, s, hosts)
    <2>4. label # "record" /\ Step(r, s, label, hosts)
      BY <2>1, <2>3
    <2> HIDE DEF label
    <2>5. QED
      BY <1>1, <2>2, <2>4, LocksKeep DEF Step
  <1>7. ASSUME NEW s \in Server, Crash(s)
        PROVE  LocksOK'
    <2>1. todo' = todo /\ busy' = [busy EXCEPT ![s] = {}]
      BY <1>7 DEF Crash
    <2>2. \A q \in Report, u \in Server :
            pc'[q][u] = "record" <=> pc[q][u] = "record" /\ u # s
      BY <1>1, <1>7 DEF Crash, CallTypes, Active
    <2>3. \A u \in Server : \A g : g \in busy'[u] <=> g \in busy[u] /\ u # s
      BY <1>1, <2>1
    <2>4. QED
      BY <1>1, <2>1, <2>2, <2>3 DEF LocksOK
  <1>8. CASE UNCHANGED <<busy, pc, todo>>
    BY <1>1, <1>8, LocksKeep
  <1>9. (\E s \in Server : Boot(s)) \/ Tick \/ UNCHANGED vars => UNCHANGED <<busy, pc, todo>>
    BY DEF Boot, Tick, vars
  <1>10. QED
    BY <1>2, <1>3, <1>4, <1>5, <1>6, <1>7, <1>8, <1>9 DEF Next, TaskStep

\* What ReachOK says of one report.
ReachOf(r) ==
  report[r] # NULL /\ pc[r][report[r].home] # "failed" =>
    \A p \in Peers(report[r].home) :
      \/ p \in left[r] /\ pc[r][report[r].home] # "done"
      \/ pc[r][report[r].home] = "call" /\ p = to[r]
      \/ pc[r][p] = "done"
      \/ p \in failed[r]

\* It keeps for a report that loses no peer.
LEMMA ReachKeeps ==
  ASSUME NEW r \in Report, ReachOf(r), report[r] # NULL => report[r].home \in Server,
         report'[r] = report[r], left'[r] = left[r], failed[r] \subseteq failed'[r],
         report[r] # NULL =>
           /\ pc[r][report[r].home] = "failed" => pc'[r][report[r].home] = "failed"
           /\ pc'[r][report[r].home] = "done" => pc[r][report[r].home] = "done" \/ left[r] = {}
           /\ pc[r][report[r].home] = "call" =>
                pc'[r][report[r].home] = "failed" \/ (pc'[r][report[r].home] = "call" /\ to'[r] = to[r])
           /\ \A p \in Peers(report[r].home) : pc[r][p] = "done" => pc'[r][p] = "done"
  PROVE  ReachOf(r)'
  BY DEF ReachOf, Peers

LEMMA ReachStays ==
  ASSUME PeeringInv, [Next]_vars
  PROVE  ReachOK'
  <1>1. CallTypes /\ TasksOK /\ \A r \in Report : ReachOf(r)
    BY DEF PeeringInv, ReachOK, ReachOf
  <1>2. \A r \in Report : report[r] # NULL => report[r].home \in Server
    BY <1>1 DEF CallTypes, Reports
  <1>3. ASSUME NEW r \in Report, NEW s \in Server,
               TaskStep(r, s) \/ FailRecord(r, s) \/ Resend(r, s)
        PROVE  \A q \in Report : ReachOf(q)'
    <2>1. report' = report /\ pc[r][s] # "none"
      BY <1>3 DEF TaskStep, Lock, Record, Call, Deliver, Return, Answer, FailCall, Hangup,
                  FailRecord, Resend
    <2>2. /\ report[r] # NULL /\ report[r].home \in Server
          /\ pc[r][s] \in {"send", "call"} => s = report[r].home
          /\ pc[r][s] = "call" => to[r] \in Peers(s) /\ to[r] \in Server /\ to[r] # s
      BY <2>1, ActiveFacts
    <2>3. PICK t \in Server : \E label, list : Step(r, t, label, list)
      <3>1. CASE Deliver(r, s) \/ Resend(r, s)
        <4>1. pc[r][s] = "call"
          BY <3>1 DEF Deliver, Resend
        <4>2. QED
          BY <2>2, <3>1, <4>1, TaskFacts
      <3>2. CASE ~(Deliver(r, s) \/ Resend(r, s))
        BY <1>3, <3>2, TaskFacts DEF TaskStep
      <3>3. QED
        BY <3>1, <3>2
    <2>4. \A q \in Report : q # r =>
            left'[q] = left[q] /\ to'[q] = to[q] /\ failed'[q] = failed[q]
      <3>1. CASE Call(r, s)
        BY <1>1, <3>1 DEF Call, CallTypes
      <3>2. CASE Return(r, s) \/ FailCall(r, s)
        BY <1>1, <3>2 DEF Return, FailCall, Hangup, CallTypes
      <3>3. QED
        BY <1>3, <3>1, <3>2 DEF TaskStep, Lock, Record, Deliver, Answer, FailRecord, Resend
    <2>5. ASSUME NEW q \in Report, q # r
          PROVE  ReachOf(q)'
      <3>1. \A u \in Server : pc'[q][u] = pc[q][u]
        BY <2>3, <2>5 DEF Step
      <3>2. QED
        BY <1>1, <1>2, <2>1, <2>4, <2>5, <3>1, ReachKeeps DEF Peers
    <2>6. ReachOf(r)'
      <3>1. CASE Lock(r, s) \/ Record(r, s) \/ FailRecord(r, s) \/ Answer(r, s)
        <4>1. /\ left' = left /\ failed' = failed /\ to' = to
              /\ pc[r][s] \in {"lock", "record", "send"}
          BY <3>1 DEF Lock, Record, FailRecord, Answer
        <4>2. PICK l, q : Step(r, s, l, q) /\ (s = report[r].home /\ l = "done" => left[r] = {})
          <5>1. NextLabel(report[r].home, report[r].home, Tail(todo[r][s])) # "done"
            BY DEF NextLabel
          <5>2. QED
            BY <3>1, <5>1, TaskFacts DEF Answer
        <4>3. /\ \A u \in Server : u # s => pc'[r][u] = pc[r][u]
              /\ s = report[r].home /\ pc'[r][s] = "done" => left[r] = {}
          BY <4>2 DEF Step
        <4>4. QED
          BY <1>1, <2>1, <2>2, <4>1, <4>3, ReachKeeps DEF Peers
      <3>2. CASE Deliver(r, s)
        <4>1. /\ left' = left /\ failed' = failed /\ to' = to
              /\ pc[r][s] = "call" /\ pc[r][to[r]] = "none"
          BY <3>2 DEF Deliver
        <4>2. PICK l, q : Step(r, to[r], l, q)
          BY <3>2, TaskFacts
        <4>3. \A u \in Server : u # to[r] => pc'[r][u] = pc[r][u]
          BY <2>2, <4>1, <4>2 DEF Step
        <4>4. QED
          BY <1>1, <2>1, <2>2, <4>1, <4>3, ReachKeeps DEF Peers
      <3>3. CASE Call(r, s)
        <4>1. /\ pc[r][s] = "send" /\ failed' = failed /\ s = report[r].home
              /\ to'[r] \in left[r] /\ left'[r] = left[r] \ {to'[r]}
          BY <1>1, <2>2, <3>3 DEF Call, CallTypes
        <4>2. Step(r, s, "call", todo[r][s])
          BY <3>3, TaskFacts
        <4>3. pc'[r][s] = "call" /\ \A u \in Server : u # s => pc'[r][u] = pc[r][u]
          BY <4>2 DEF Step
        <4>4. QED
          BY <1>1, <2>1, <2>2, <4>1, <4>3 DEF ReachOf, Peers
      <3>4. CASE Return(r, s) \/ FailCall(r, s)
        <4>1. /\ pc[r][s] = "call" /\ s = report[r].home /\ left' = left
              /\ failed[r] \subseteq failed'[r]
          BY <1>1, <2>2, <3>4 DEF Return, FailCall, Hangup, CallTypes
        <4>2. pc[r][to[r]] = "done" \/ to[r] \in failed'[r]
          BY <1>1, <3>4 DEF Return, FailCall, CallTypes
        <4>3. Step(r, s, "send", todo[r][s])
          BY <3>4, TaskFacts
        <4>4. pc'[r][s] = "send" /\ \A u \in Server : u # s => pc'[r][u] = pc[r][u]
          BY <4>3 DEF Step
        <4>5. QED
          BY <1>1, <2>1, <2>2, <4>1, <4>2, <4>4 DEF ReachOf, Peers
      <3>5. CASE Resend(r, s)
        <4>1. /\ left' = left /\ failed' = failed /\ to' = to
              /\ pc[r][s] = "call" /\ s = report[r].home
          BY <2>2, <3>5 DEF Resend
        <4>2. PICK l, q : Step(r, to[r], l, q)
          BY <3>5, TaskFacts
        <4>3. \A u \in Server : u # to[r] => pc'[r][u] = pc[r][u]
          BY <2>2, <4>1, <4>2 DEF Step
        <4>4. QED
          BY <1>1, <2>1, <2>2, <4>1, <4>3 DEF ReachOf, Peers
      <3>6. QED
        BY <1>3, <3>1, <3>2, <3>3, <3>4, <3>5 DEF TaskStep
    <2>7. QED
      BY <2>5, <2>6
  <1>4. ASSUME NEW r \in Report, AddHosts(r)
        PROVE  \A q \in Report : ReachOf(q)'
    <2>1. PICK s \in Server, hosts \in HostLists :
           /\ report[r] = NULL /\ report'[r].home = s
           /\ \A q \in Report : q # r => report'[q] = report[q]
           /\ Step(r, s, NextLabel(s, s, hosts), hosts)
           /\ left' = [left EXCEPT ![r] = Peers(s)]
      BY <1>4, AddFacts
    <2>2. failed' = failed /\ to' = to
      BY <1>4 DEF AddHosts
    <2>3. left'[r] = Peers(s) /\ \A q \in Report : q # r => left'[q] = left[q]
      BY <1>1, <2>1 DEF CallTypes
    <2>4. \A q \in Report, u \in Server : q # r => pc'[q][u] = pc[q][u]
      BY <2>1 DEF Step
    <2>5. ReachOf(r)'
      <3>1. pc'[r][s] # "done"
        BY <2>1 DEF Step, NextLabel
      <3>2. QED
        BY <2>1, <2>3, <3>1 DEF ReachOf
    <2>6. ASSUME NEW q \in Report, q # r
          PROVE  ReachOf(q)'
      BY <1>1, <1>2, <2>1, <2>2, <2>3, <2>4, <2>6, ReachKeeps DEF Peers
    <2>7. QED
      BY <2>5, <2>6
  <1>5. ASSUME NEW s \in Server, Crash(s), NEW q \in Report
        PROVE  ReachOf(q)'
    <2>1. UNCHANGED <<report, left, failed>>
      BY <1>5 DEF Crash
    <2>2. \A u \in Server : pc'[q][u] = IF u = s /\ Active(q, s) THEN "failed" ELSE pc[q][u]
      BY <1>1, <1>5 DEF Crash, CallTypes
    <2>3. to'[q] = IF pc[q][s] = "call" THEN NULL ELSE to[q]
      BY <1>1, <1>5 DEF Crash, CallTypes
    <2>4. pc[q][s] = "call" => report[q] # NULL /\ s = report[q].home
      BY <1>1 DEF TasksOK
    <2>5. report[q] # NULL /\ pc[q][report[q].home] = "call" =>
            pc'[q][report[q].home] = "failed" \/ (pc'[q][report[q].home] = "call" /\ to'[q] = to[q])
      BY <1>2, <2>2, <2>3, <2>4 DEF Active
    <2>6. \A u \in Server : /\ pc[q][u] = "failed" => pc'[q][u] = "failed"
                            /\ pc[q][u] = "done" <=> pc'[q][u] = "done"
      BY <2>2 DEF Active
    <2>7. QED
      BY <1>1, <1>2, <2>1, <2>5, <2>6, ReachKeeps DEF Peers
  <1>6. ASSUME UNCHANGED <<report, pc, left, to, failed>>
        PROVE  \A q \in Report : ReachOf(q)'
    BY <1>1, <1>6 DEF ReachOf
  <1>7. (\E s \in Server : Boot(s)) \/ Tick \/ UNCHANGED vars => UNCHANGED <<report, pc, left, to, failed>>
    BY DEF Boot, Tick, vars
  <1>8. \A q \in Report : ReachOf(q)'
    BY <1>3, <1>4, <1>5, <1>6, <1>7 DEF Next
  <1>9. QED
    BY <1>8 DEF ReachOK, ReachOf

--------------------------------------------------------------------------------
(* The servers agree.                                                         *)

\* A step of a report that is under way: which it is, and what it changes.
Works(r, s) == TaskStep(r, s) \/ FailRecord(r, s) \/ Resend(r, s)

LEMMA WorkFacts ==
  ASSUME PeeringInv, NEW r \in Report, NEW s \in Server, Works(r, s)
  PROVE  /\ report' = report /\ now' = now /\ raced' = raced /\ pc[r][s] # "none"
         /\ report[r] # NULL /\ report[r].client \in Client /\ ~Quiet(r)
         /\ report[r].hosts \in Seq(Host \cup {BadHost}) /\ report[r].when \in 0..now
         /\ \A q \in Report, u \in Server : q # r => pc'[q][u] = pc[q][u] /\ todo'[q][u] = todo[q][u]
         /\ ~Record(r, s) => entries' = entries
         /\ ~Record(r, s) => \E t \in Server : \E label, list :
              /\ Step(r, t, label, list)
              /\ \/ label = "failed"
                 \/ list = todo[r][t] /\ pc[r][t] \notin {"none", "failed"}
                 \/ list = report[r].hosts
  <1>1. /\ report' = report /\ now' = now /\ raced' = raced
        /\ pc[r][s] \in {"lock", "record", "send", "call"}
    BY DEF Works, TaskStep, Lock, Record, Call, Deliver, Return, Answer, FailCall, Hangup,
           FailRecord, Resend
  <1>2. /\ report[r] # NULL /\ report[r].client \in Client /\ report[r].when \in 0..now
        /\ report[r].hosts \in Seq(Host \cup {BadHost})
        /\ pc[r][s] = "call" => to[r] \in Server
    BY <1>1, ActiveFacts
  <1>3. ~Quiet(r)
    BY <1>1 DEF Quiet, Active
  <1>4. ~Record(r, s) => entries' = entries
    BY DEF Works, TaskStep, Lock, Call, Deliver, Return, Answer, FailCall, Hangup,
           FailRecord, Resend
  <1>5. ASSUME ~Record(r, s)
        PROVE  \E t \in Server : \E label, list :
              /\ Step(r, t, label, list)
              /\ \/ label = "failed"
                 \/ list = todo[r][t] /\ pc[r][t] \notin {"none", "failed"}
                 \/ list = report[r].hosts
    <2>1. CASE Deliver(r, s) \/ Resend(r, s)
      <3>1. to[r] \in Server
        BY <1>2, <2>1 DEF Deliver, Resend
      <3>2. QED
        BY <2>1, <3>1, TaskFacts
    <2>2. CASE ~(Deliver(r, s) \/ Resend(r, s))
      <3>1. \E label : Step(r, s, label, todo[r][s])
        BY <1>5, <2>2, TaskFacts DEF Works, TaskStep
      <3>2. QED
        BY <1>1, <3>1
    <2>3. QED
      BY <2>1, <2>2
  <1>6. \A q \in Report, u \in Server : q # r => pc'[q][u] = pc[q][u] /\ todo'[q][u] = todo[q][u]
    <2>1. \E t \in Server : \E label, list : Step(r, t, label, list)
      <3>1. CASE Record(r, s)
        BY <3>1, TaskFacts
      <3>2. CASE ~Record(r, s)
        BY <1>5, <3>2
      <3>3. QED
        BY <3>1, <3>2
    <2>2. QED
      BY <2>1 DEF Step
  <1>7. QED
    BY <1>1, <1>2, <1>3, <1>4, <1>5, <1>6

\* A report that is over stays as it is; no report of another client is touched.
LEMMA QuietStays ==
  ASSUME PeeringInv, NEW r \in Report, NEW s \in Server, Works(r, s), NEW q \in Report, q # r
  PROVE  (Quiet(q)' <=> Quiet(q)) /\ (Complete(q)' <=> Complete(q))
  <1>1. \A u \in Server : pc'[q][u] = pc[q][u]
    BY WorkFacts
  <1>2. QED
    BY <1>1 DEF Quiet, Active, Complete

LEMMA OneStays ==
  ASSUME PeeringInv, [Next]_vars
  PROVE  OneAtATime'
  <1>1. OneAtATime /\ CallTypes /\ TasksOK
    BY DEF PeeringInv
  <1>2. ASSUME raced \subseteq raced', \A c \in Client : UnderWay(c)' \subseteq UnderWay(c)
        PROVE  OneAtATime'
    BY <1>1, <1>2 DEF OneAtATime
  <1>3. ASSUME NEW r \in Report, NEW s \in Server, Works(r, s)
        PROVE  OneAtATime'
    <2>1. \A q \in Report : ~Quiet(q)' => ~Quiet(q)
      BY <1>3, QuietStays, WorkFacts
    <2>2. report' = report /\ raced' = raced
      BY <1>3, WorkFacts
    <2>3. QED
      BY <1>2, <2>1, <2>2 DEF UnderWay, OfClient
  <1>4. ASSUME NEW r \in Report, AddHosts(r)
        PROVE  OneAtATime'
    <2>1. PICK s \in Server, d \in Client, hosts \in HostLists :
           /\ report[r] = NULL /\ report'[r] # NULL /\ report'[r].client = d
           /\ \A q \in Report : q # r => report'[q] = report[q]
           /\ Step(r, s, NextLabel(s, s, hosts), hosts)
           /\ raced' = IF \E q \in Report : ~Quiet(q) /\ report[q].client = d
                       THEN raced \cup {d} ELSE raced
      BY <1>4, AddFacts
    <2>2. \A q \in Report, u \in Server : q # r => pc'[q][u] = pc[q][u]
      BY <2>1 DEF Step
    <2>3. \A q \in Report : q # r => (Quiet(q)' <=> Quiet(q))
      BY <2>2 DEF Quiet, Active
    <2>4. ASSUME NEW c \in Client \ raced', NEW p \in UnderWay(c)', NEW q \in UnderWay(c)'
          PROVE  p = q
      <3>1. p \in Report /\ q \in Report /\ c \notin raced
        BY <2>1 DEF UnderWay, OfClient
      <3>2. CASE c = d
        <4>1. \A x \in Report : ~(~Quiet(x) /\ report[x].client = c)
          BY <2>1, <2>4, <3>2
        <4>2. p = r /\ q = r
          BY <2>1, <2>3, <3>1, <4>1 DEF UnderWay, OfClient
        <4>3. QED
          BY <4>2
      <3>3. CASE c # d
        <4>1. p # r /\ q # r
          BY <2>1, <3>3 DEF UnderWay, OfClient
        <4>2. p \in UnderWay(c) /\ q \in UnderWay(c)
          BY <2>1, <2>3, <3>1, <4>1 DEF UnderWay, OfClient
        <4>3. QED
          BY <1>1, <3>1, <4>2 DEF OneAtATime
      <3>4. QED
        BY <3>2, <3>3
    <2>5. QED
      BY <2>4 DEF OneAtATime
  <1>5. ASSUME NEW s \in Server, Crash(s)
        PROVE  OneAtATime'
    <2>1. report' = report /\ raced' = raced
      BY <1>5 DEF Crash
    <2>2. \A q \in Report, u \in Server : Active(q, u)' => Active(q, u)
      BY <1>1, <1>5 DEF Crash, CallTypes, Active
    <2>3. \A q \in Report : ~Quiet(q)' => ~Quiet(q)
      BY <2>2 DEF Quiet
    <2>4. QED
      BY <1>2, <2>1, <2>3 DEF UnderWay, OfClient
  <1>6. ASSUME UNCHANGED <<report, pc, raced>>
        PROVE  OneAtATime'
    BY <1>2, <1>6 DEF UnderWay, OfClient, Quiet, Active
  <1>7. (\E s \in Server : Boot(s)) \/ Tick \/ UNCHANGED vars => UNCHANGED <<report, pc, raced>>
    BY DEF Boot, Tick, vars
  <1>8. QED
    BY <1>3, <1>4, <1>5, <1>6, <1>7 DEF Next, Works

\* The hypothesis of AgreeOK, and its conclusion.
Settled(c) == \A r \in OfClient(c) : Quiet(r) => Complete(r)
Agreed(c, h) == Settled(c) => \E B \in SUBSET Past : Common(c, h, B)

\* Steps that touch no report of a client leave the servers in agreement on it.
LEMMA OthersAgree ==
  ASSUME NEW c \in Client, NEW h \in Host, Agreed(c, h), Past \subseteq Past',
         \A q \in Report : q \in OfClient(c)' <=> q \in OfClient(c),
         \A q \in OfClient(c) : /\ report'[q] = report[q]
                                /\ \A s \in Server : pc'[q][s] = pc[q][s] /\ todo'[q][s] = todo[q][s],
         \A s \in Server : entries'[s][h][c] = entries[s][h][c]
  PROVE  Agreed(c, h)'
  <1>1. \A q \in OfClient(c) : (Quiet(q)' <=> Quiet(q)) /\ (Complete(q)' <=> Complete(q))
    BY DEF Quiet, Active, Complete
  <1>2. \A q : q \in OfClient(c)' <=> q \in OfClient(c)
    BY DEF OfClient
  <1>3. Settled(c)' => Settled(c)
    BY <1>1, <1>2 DEF Settled
  <1>4. \A q : q \in UnderWay(c)' <=> q \in UnderWay(c)
    BY <1>1, <1>2 DEF UnderWay
  <1>5. ASSUME NEW B \in SUBSET Past, Common(c, h, B)
        PROVE  Common(c, h, B)'
    <2>1. Spread(B)' /\ (UnderWay(c)' = {} => \A s \in Server : entries'[s][h][c] = B)
      BY <1>4, <1>5 DEF Common, Spread
    <2>2. ASSUME NEW q \in UnderWay(c)'
          PROVE  /\ \A e \in B : e.latest <= report'[q].when
                 /\ \A s \in Server : Had(c, h, B, q, s)'
      <3>1. q \in OfClient(c) /\ q \in UnderWay(c)
        BY <1>4, <2>2 DEF UnderWay
      <3>2. /\ \A e \in B : e.latest <= report[q].when
            /\ \A s \in Server : Had(c, h, B, q, s)
        BY <1>5, <3>1 DEF Common
      <3>3. report'[q] = report[q]
        BY <3>1
      <3>4. ASSUME NEW s \in Server
            PROVE  Had(c, h, B, q, s)'
        <4>1. /\ pc'[q][s] = pc[q][s] /\ todo'[q][s] = todo[q][s]
              /\ entries'[s][h][c] = entries[s][h][c] /\ Had(c, h, B, q, s)
          BY <3>1, <3>2
        <4>2. Merged(B, report'[q].when) = Merged(B, report[q].when)
          BY <3>3
        <4>3. InList(todo'[q][s]) = InList(todo[q][s]) /\ InList(report'[q].hosts) = InList(report[q].hosts)
          BY <3>3, <4>1
        <4>4. QED
          BY <4>1, <4>2, <4>3 DEF Had
      <3>5. QED
        BY <3>2, <3>3, <3>4
    <2>3. QED
      BY <2>1, <2>2 DEF Common
  <1>6. QED
    BY <1>3, <1>5 DEF Agreed

\* What a step of a report under way makes of what a server keeps.
LEMMA HadStays ==
  ASSUME PeeringInv, NEW r \in Report, NEW s \in Server, Works(r, s),
         NEW h \in Host, NEW c, c = report[r].client,
         NEW B \in SUBSET Past, Spread(B), \A e \in B : e.latest <= report[r].when,
         \A u \in Server : Had(c, h, B, r, u), NEW u \in Server
  PROVE  Had(c, h, B, r, u)'
  <1> DEFINE R == report[r]
             L == InList(report[r].hosts)
             M == Merged(B, report[r].when)
  <1>1. report'[r] = R /\ Had(c, h, B, r, u) /\ c \in Client /\ R.when \in 0..now /\ now \in Nat
    BY WorkFacts DEF PeeringInv, StoreTypes
  <1>2. SUFFICES /\ entries'[u][h][c] = B \/ (h \in L /\ entries'[u][h][c] \in M)
                 /\ (pc'[r][u] \notin {"none", "failed"} /\ h \in L \ InList(todo'[r][u])
                    => entries'[u][h][c] \in M)
    BY <1>1 DEF Had
  <1>3. /\ entries[u][h][c] = B \/ (h \in L /\ entries[u][h][c] \in M)
        /\ (pc[r][u] \notin {"none", "failed"} /\ h \in L \ InList(todo[r][u])
           => entries[u][h][c] \in M)
    BY <1>1 DEF Had
  <1>4. CASE ~Record(r, s)
    <2>1. entries' = entries
      BY <1>4, WorkFacts
    <2>2. PICK t \in Server : \E label, list :
              /\ Step(r, t, label, list)
              /\ \/ label = "failed"
                 \/ list = todo[r][t] /\ pc[r][t] \notin {"none", "failed"}
                 \/ list = report[r].hosts
      BY <1>4, WorkFacts
    <2>3. \/ pc'[r][u] = "failed"
          \/ todo'[r][u] = todo[r][u] /\ (pc'[r][u] = pc[r][u] \/ pc[r][u] \notin {"none", "failed"})
          \/ todo'[r][u] = report[r].hosts
      BY <2>2 DEF Step
    <2> HIDE DEF M
    <2>4. QED
      BY <1>3, <2>1, <2>3
  <1>5. CASE Record(r, s)
    <2>1. Step(r, s, NextLabel(s, R.home, Tail(todo[r][s])), Tail(todo[r][s]))
      BY <1>5, TaskFacts
    <2>2. u # s => pc'[r][u] = pc[r][u] /\ todo'[r][u] = todo[r][u]
      BY <2>1 DEF Step
    <2>3. todo'[r][s] = Tail(todo[r][s])
      BY <2>1 DEF Step
    <2>4. PICK g \in Host, d \in Client :
           /\ g = Head(todo[r][s]) /\ d = report[r].client
           /\ entries'[s][g][d] \in Merged(entries[s][g][d], report[r].when)
           /\ \A t \in Server, f \in Host, b \in Client :
                t # s \/ f # g \/ b # d => entries'[t][f][b] = entries[t][f][b]
      BY <1>5, RecordFacts
    <2>5. pc[r][s] = "record" /\ todo[r][s] \in Seq(Host \cup {BadHost}) /\ todo[r][s] # <<>>
          /\ InList(todo[r][s]) \subseteq L
      <3>1. pc[r][s] = "record" /\ todo[r][s] \in Seq(Host \cup {BadHost})
        BY <1>5 DEF Record, PeeringInv, CallTypes
      <3>2. QED
        BY <3>1 DEF PeeringInv, TasksOK
    <2>6. InList(todo[r][s]) = {g} \cup InList(todo'[r][s])
      BY <2>3, <2>4, <2>5, ListFacts
    <2>7. CASE u = s /\ h = g
      <3>1. h \in L
        BY <2>5, <2>6, <2>7
      <3>2. entries'[s][h][c] \in Merged(entries[s][h][c], R.when)
        BY <2>4, <2>7
      <3>3. entries[s][h][c] = B \/ entries[s][h][c] \in M
        BY <1>3, <2>7
      <3>4. entries'[s][h][c] \in M
        <4>1. CASE entries[s][h][c] = B
          BY <3>2, <4>1
        <4>2. CASE entries[s][h][c] \in M
          <5>1. entries'[s][h][c] = entries[s][h][c]
            BY <1>1, <3>2, <4>2, MergedAgain DEF Past
          <5>2. QED
            BY <4>2, <5>1
        <4>3. QED
          BY <3>3, <4>1, <4>2
      <3> HIDE DEF L, M
      <3>5. QED
        BY <2>7, <3>1, <3>4
    <2>8. CASE ~(u = s /\ h = g)
      <3>1. entries'[u][h][c] = entries[u][h][c]
        BY <1>1, <2>4, <2>8
      <3>2. CASE u = s
        <4>1. h \in InList(todo[r][u]) => h \in InList(todo'[r][u])
          BY <2>6, <2>8, <3>2
        <4>2. pc[r][u] \notin {"none", "failed"}
          BY <2>5, <3>2
        <4> HIDE DEF L, M
        <4>3. QED
          BY <1>3, <3>1, <4>1, <4>2
      <3>3. CASE u # s
        <4> HIDE DEF L, M
        <4>1. QED
          BY <1>3, <2>2, <3>1, <3>3
      <3>4. QED
        BY <3>2, <3>3
    <2>9. QED
      BY <2>7, <2>8
  <1>6. QED
    BY <1>4, <1>5

\* A step of the one report of a client that is under way.
LEMMA WorkAgrees ==
  ASSUME PeeringInv, TasksOK', NEW r \in Report, NEW s \in Server, Works(r, s),
         NEW h \in Host, NEW c \in Client \ raced, c = report[r].client, Agreed(c, h)
  PROVE  Agreed(c, h)'
  <1>0. /\ report' = report /\ now' = now /\ ~Quiet(r)
        /\ report[r] # NULL /\ report[r].when \in 0..now
    BY WorkFacts
  <1>1. /\ report' = report /\ Past' = Past /\ now \in Nat /\ r \in OfClient(c) /\ ~Quiet(r)
        /\ report[r] # NULL /\ report[r].when \in 0..now
    BY <1>0 DEF Past, OfClient, PeeringInv, StoreTypes
  <1>2. \A q \in Report : q # r => (Quiet(q)' <=> Quiet(q)) /\ (Complete(q)' <=> Complete(q))
    BY QuietStays
  <1>3. \A q : q \in OfClient(c)' <=> q \in OfClient(c)
    BY <1>1 DEF OfClient
  <1>4. UnderWay(c) = {r} /\ UnderWay(c)' \subseteq {r}
    <2>1. r \in UnderWay(c) /\ \A q \in UnderWay(c) : q = r
      BY <1>1 DEF UnderWay, PeeringInv, OneAtATime
    <2>2. ASSUME NEW q \in UnderWay(c)', q # r
          PROVE  FALSE
      <3>1. q \in Report /\ q \in OfClient(c) /\ ~Quiet(q)'
        BY <1>3, <2>2 DEF UnderWay, OfClient
      <3>2. q \in UnderWay(c)
        BY <1>2, <2>2, <3>1 DEF UnderWay
      <3>3. QED
        BY <2>1, <2>2, <3>2
    <2>3. QED
      BY <2>1, <2>2
  <1>5. SUFFICES ASSUME Settled(c)'
                 PROVE  \E B \in SUBSET Past' : Common(c, h, B)'
    BY DEF Agreed
  <1>6. Settled(c)
    <2>1. ASSUME NEW q \in OfClient(c), Quiet(q)
          PROVE  Complete(q)
      <3>1. q \in Report /\ q # r
        BY <1>1, <2>1 DEF OfClient
      <3>2. QED
        BY <1>2, <1>3, <1>5, <2>1, <3>1 DEF Settled
    <2>2. QED
      BY <2>1 DEF Settled
  <1>7. PICK B \in SUBSET Past : Common(c, h, B)
    BY <1>6 DEF Agreed
  <1>8. /\ Spread(B) /\ \A e \in B : e.latest <= report[r].when
        /\ \A u \in Server : Had(c, h, B, r, u)
    BY <1>4, <1>7 DEF Common
  <1>9. \A u \in Server : Had(c, h, B, r, u)'
    BY <1>8, HadStays
  <1>10. CASE UnderWay(c)' = {r}
    <2>1. Common(c, h, B)'
      BY <1>1, <1>8, <1>9, <1>10 DEF Common, Spread
    <2>2. QED
      BY <1>1, <2>1
  <1>11. CASE UnderWay(c)' = {}
    <2> DEFINE L == InList(report[r].hosts)
               M == Merged(B, report[r].when)
    <2>1. r \in OfClient(c)' /\ Quiet(r)'
      BY <1>1, <1>3, <1>11 DEF UnderWay
    <2>2. Complete(r)'
      BY <1>5, <2>1 DEF Settled
    <2>3. \A u \in Server : pc'[r][u] = "done" /\ todo'[r][u] = <<>>
      BY <2>2 DEF Complete, TasksOK
    <2>4. \A u \in Server : /\ entries'[u][h][c] = B \/ (h \in L /\ entries'[u][h][c] \in M)
                            /\ h \in L => entries'[u][h][c] \in M
      <3>1. ASSUME NEW u \in Server
            PROVE  /\ entries'[u][h][c] = B \/ (h \in L /\ entries'[u][h][c] \in M)
                   /\ h \in L => entries'[u][h][c] \in M
        <4>1. InList(todo'[r][u]) = {} /\ pc'[r][u] = "done"
          BY <2>3, NothingInList
        <4>2. QED
          BY <1>1, <1>9, <4>1 DEF Had
      <3>2. QED
        BY <3>1
    <2>5. CASE h \notin L
      <3>1. \A u \in Server : entries'[u][h][c] = B
        BY <2>4, <2>5
      <3>2. Common(c, h, B)'
        BY <1>8, <1>11, <3>1 DEF Common, Spread
      <3>3. QED
        BY <1>1, <3>2
    <2>6. CASE h \in L
      <3>0. \A u \in Server : entries'[u][h][c] \in M
        BY <2>4, <2>6
      <3>1. PICK F \in M : F = entries'[s][h][c]
        BY <3>0
      <3>2. \A u \in Server : entries'[u][h][c] = F
        BY <1>1, <1>8, <3>0, <3>1, MergedIsUnique DEF Past
      <3>3. F \in SUBSET Past
        BY <1>1, <3>1, MergedTypes DEF Past
      <3>4. Spread(F)
        BY <1>1, <1>8, <3>1, MergedCases DEF Past
      <3>5. Common(c, h, F)'
        BY <1>11, <3>2, <3>4 DEF Common, Spread
      <3>6. QED
        BY <1>1, <3>3, <3>5
    <2>7. QED
      BY <2>5, <2>6
  <1>12. QED
    BY <1>4, <1>10, <1>11

\* A client that waited reports once more: all servers start from the same.
LEMMA AddAgrees ==
  ASSUME PeeringInv, NEW r \in Report, AddHosts(r),
         NEW h \in Host, NEW c \in Client \ raced', Agreed(c, h)
  PROVE  Agreed(c, h)'
  <1>1. PICK s \in Server, d \in Client, hosts \in HostLists :
         /\ report[r] = NULL /\ report'[r] # NULL /\ report'[r].client = d
         /\ report'[r].when = now /\ report'[r].hosts = hosts
         /\ \A q \in Report : q # r => report'[q] = report[q]
         /\ Step(r, s, NextLabel(s, s, hosts), hosts)
         /\ raced' = IF \E q \in Report : ~Quiet(q) /\ report[q].client = d
                     THEN raced \cup {d} ELSE raced
    BY AddFacts
  <1>2. entries' = entries /\ now' = now /\ Past' = Past /\ now \in Nat
    BY DEF AddHosts, Past, PeeringInv, StoreTypes
  <1>3. \A q \in Report, u \in Server : q # r => pc'[q][u] = pc[q][u] /\ todo'[q][u] = todo[q][u]
    BY <1>1 DEF Step
  <1>4. CASE c # d
    <2>1. \A q \in Report : q \in OfClient(c)' <=> q \in OfClient(c)
      BY <1>1, <1>4 DEF OfClient
    <2>2. \A q \in OfClient(c) : q \in Report /\ q # r
      BY <1>1 DEF OfClient
    <2>3. QED
      BY <1>1, <1>2, <1>3, <2>1, <2>2, OthersAgree
  <1>5. CASE c = d
    <2>1. \A q \in Report : report[q].client = c => Quiet(q)
      BY <1>1, <1>5
    <2>2. UnderWay(c) = {}
      BY <2>1 DEF UnderWay, OfClient
    <2>3. \A q \in Report : q # r => (Quiet(q)' <=> Quiet(q)) /\ (Complete(q)' <=> Complete(q))
      BY <1>3 DEF Quiet, Active, Complete
    <2>4. \A q \in Report : q # r => (q \in OfClient(c)' <=> q \in OfClient(c))
      BY <1>1 DEF OfClient
    <2>5. r \notin OfClient(c)
      BY <1>1 DEF OfClient
    <2>6. UnderWay(c)' \subseteq {r}
      <3>1. ASSUME NEW q \in UnderWay(c)', q # r
            PROVE  FALSE
        <4>1. q \in Report /\ q \in OfClient(c)' /\ ~Quiet(q)'
          BY <3>1 DEF UnderWay, OfClient
        <4>2. q \in OfClient(c) /\ ~Quiet(q)
          BY <2>3, <2>4, <3>1, <4>1
        <4>3. QED
          BY <2>2, <4>2 DEF UnderWay
      <3>2. QED
        BY <3>1
    <2>7. SUFFICES ASSUME Settled(c)'
                   PROVE  \E B \in SUBSET Past' : Common(c, h, B)'
      BY DEF Agreed
    <2>8. Settled(c)
      <3>1. ASSUME NEW q \in OfClient(c), Quiet(q)
            PROVE  Complete(q)
        <4>1. q \in Report /\ q # r
          BY <2>5, <3>1 DEF OfClient
        <4>2. q \in OfClient(c)' /\ Quiet(q)'
          BY <2>3, <2>4, <3>1, <4>1
        <4>3. QED
          BY <2>3, <2>7, <4>1, <4>2 DEF Settled
      <3>2. QED
        BY <3>1 DEF Settled
    <2>9. PICK B \in SUBSET Past : Common(c, h, B)
      BY <2>8 DEF Agreed
    <2>10. Spread(B) /\ \A u \in Server : entries'[u][h][c] = B
      BY <1>2, <2>2, <2>9 DEF Common
    <2>11. \A e \in B : e.latest <= report'[r].when
      BY <1>1, <1>2 DEF Past
    <2>12. ASSUME NEW u \in Server
           PROVE  Had(c, h, B, r, u)'
      <3>1. CASE u = s
        <4>1. todo'[r][u] = report'[r].hosts
          BY <1>1, <3>1 DEF Step
        <4>2. InList(report'[r].hosts) \ InList(todo'[r][u]) = {}
          BY <4>1
        <4>3. QED
          BY <2>10, <4>2 DEF Had
      <3>2. CASE u # s
        <4>0. pc[r][u] = "none"
          BY <1>1 DEF PeeringInv, TasksOK
        <4>1. pc'[r][u] = "none"
          BY <1>1, <3>2, <4>0 DEF Step
        <4>2. QED
          BY <2>10, <4>1 DEF Had
      <3>3. QED
        BY <3>1, <3>2
    <2>13. Common(c, h, B)'
      <3>1. ASSUME NEW q \in UnderWay(c)'
            PROVE  /\ \A e \in B : e.latest <= report'[q].when
                   /\ \A u \in Server : Had(c, h, B, q, u)'
        <4>1. q = r
          BY <2>6, <3>1
        <4>2. QED
          BY <2>11, <2>12, <4>1
      <3>2. QED
        BY <2>10, <3>1 DEF Common, Spread
    <2>14. QED
      BY <1>2, <2>13
  <1>6. QED
    BY <1>4, <1>5

\* A crash leaves a report that was under way there incomplete; nothing else changes.
LEMMA CrashAgrees ==
  ASSUME PeeringInv, NEW s \in Server, Crash(s),
         NEW h \in Host, NEW c \in Client, Agreed(c, h)
  PROVE  Agreed(c, h)'
  <1>1. report' = report /\ entries' = entries /\ todo' = todo /\ now' = now /\ Past' = Past
    BY DEF Crash, Past
  <1>2. \A q \in Report, u \in Server :
          pc'[q][u] = IF u = s /\ Active(q, s) THEN "failed" ELSE pc[q][u]
    BY DEF Crash, PeeringInv, CallTypes
  <1>3. OfClient(c)' = OfClient(c)
    BY <1>1 DEF OfClient
  <1>4. SUFFICES ASSUME Settled(c)'
                 PROVE  \E B \in SUBSET Past' : Common(c, h, B)'
    BY DEF Agreed
  <1>5. ASSUME NEW q \in OfClient(c)
        PROVE  /\ Quiet(q) => Quiet(q)' /\ Complete(q)
               /\ Quiet(q)' => Quiet(q)
    <2>1. q \in Report /\ q \in OfClient(c)'
      BY <1>3 DEF OfClient
    <2>2. Quiet(q) => Quiet(q)' /\ (Complete(q)' => Complete(q))
      BY <1>2, <2>1 DEF Quiet, Active, Complete
    <2>3. Quiet(q)' => Complete(q)'
      BY <1>4, <2>1 DEF Settled
    <2>4. Complete(q)' => Quiet(q)
      BY <1>2, <2>1 DEF Quiet, Active, Complete
    <2>5. QED
      BY <2>2, <2>3, <2>4
  <1>6. Settled(c) /\ UnderWay(c)' = UnderWay(c)
    BY <1>3, <1>5 DEF Settled, UnderWay
  <1>7. PICK B \in SUBSET Past : Common(c, h, B)
    BY <1>6 DEF Agreed
  <1>8. ASSUME NEW q \in UnderWay(c)', NEW u \in Server
        PROVE  /\ \A e \in B : e.latest <= report'[q].when
               /\ Had(c, h, B, q, u)'
    <2>1. q \in Report /\ Had(c, h, B, q, u) /\ \A e \in B : e.latest <= report[q].when
      BY <1>6, <1>7 DEF Common, UnderWay, OfClient
    <2>2. pc'[q][u] = "failed" \/ pc'[q][u] = pc[q][u]
      BY <1>2, <2>1
    <2>3. Had(c, h, B, q, u)'
      BY <1>1, <2>1, <2>2 DEF Had
    <2>4. QED
      BY <1>1, <2>1, <2>3
  <1>9. Common(c, h, B)'
    <2>1. Spread(B)' /\ (UnderWay(c)' = {} => \A u \in Server : entries'[u][h][c] = B)
      BY <1>1, <1>6, <1>7 DEF Common, Spread
    <2>2. QED
      BY <1>8, <2>1 DEF Common
  <1>10. QED
    BY <1>1, <1>9

LEMMA AgreeStays ==
  ASSUME PeeringInv, [Next]_vars
  PROVE  AgreeOK'
  <1>1. TasksOK'
    BY TasksStay
  <1>2. \A c \in Client \ raced, h \in Host : Agreed(c, h)
    BY DEF PeeringInv, AgreeOK, Agreed, Settled
  <1>3. SUFFICES ASSUME NEW c \in Client \ raced', NEW h \in Host
                 PROVE  Agreed(c, h)'
    BY DEF AgreeOK, Agreed, Settled
  <1>4. c \notin raced
    <2>1. raced \subseteq raced'
      <3>1. CASE \E r \in Report : AddHosts(r)
        BY <3>1, AddFacts
      <3>2. CASE \E r \in Report, s \in Server : Works(r, s)
        BY <3>2, WorkFacts
      <3>3. CASE (\E s \in Server : Crash(s) \/ Boot(s)) \/ Tick \/ UNCHANGED vars
        BY <3>3 DEF Crash, Boot, Tick, vars
      <3>4. QED
        BY <3>1, <3>2, <3>3 DEF Next, Works
    <2>2. QED
      BY <2>1
  <1>5. Agreed(c, h)
    BY <1>2, <1>4
  <1>6. CASE \E r \in Report : AddHosts(r)
    BY <1>5, <1>6, AddAgrees
  <1>7. ASSUME NEW r \in Report, NEW s \in Server, Works(r, s)
        PROVE  Agreed(c, h)'
    <2>1. CASE report[r].client = c
      BY <1>1, <1>4, <1>5, <1>7, <2>1, WorkAgrees
    <2>2. CASE report[r].client # c
      <3>1. report' = report /\ Past' = Past
        BY <1>7, WorkFacts DEF Past
      <3>2. OfClient(c)' = OfClient(c) /\ \A q \in OfClient(c) : q \in Report /\ q # r
        BY <2>2, <3>1 DEF OfClient
      <3>3. \A q \in OfClient(c) : /\ report'[q] = report[q]
                                  /\ \A u \in Server : pc'[q][u] = pc[q][u] /\ todo'[q][u] = todo[q][u]
        BY <1>7, <3>1, <3>2, WorkFacts
      <3>4. \A u \in Server : entries'[u][h][c] = entries[u][h][c]
        <4>1. CASE Record(r, s)
          BY <2>2, <4>1, RecordFacts
        <4>2. CASE ~Record(r, s)
          BY <1>7, <4>2, WorkFacts
        <4>3. QED
          BY <4>1, <4>2
      <3>5. QED
        BY <1>5, <3>1, <3>2, <3>3, <3>4, OthersAgree
    <2>3. QED
      BY <2>1, <2>2
  <1>8. CASE \E s \in Server : Crash(s)
    BY <1>5, <1>8, CrashAgrees
  <1>9. CASE (\E s \in Server : Boot(s)) \/ Tick \/ UNCHANGED vars
    <2>1. UNCHANGED <<entries, pc, todo, report>>
      BY <1>9 DEF Boot, Tick, vars
    <2>2. Past \subseteq Past'
      <3>1. now \in Nat /\ (now' = now \/ now' = now + 1)
        BY <1>9 DEF Boot, Tick, vars, PeeringInv, StoreTypes
      <3>2. 0..now \subseteq 0..now'
        BY <3>1
      <3>3. QED
        BY <3>2 DEF Past
    <2>3. OfClient(c)' = OfClient(c)
      BY <2>1 DEF OfClient
    <2>4. QED
      BY <1>5, <2>1, <2>2, <2>3, OthersAgree
  <1>10. QED
    BY <1>6, <1>7, <1>8, <1>9 DEF Next, Works

--------------------------------------------------------------------------------
(* The theorems.                                                              *)

LEMMA PeeringStarts == Init => PeeringInv
  <1> SUFFICES ASSUME Init
               PROVE  PeeringInv
    OBVIOUS
  <1>1. StoreTypes
    <2>1. \A s \in Server, h \in Host, c \in Client : {} \in SUBSET Past
      OBVIOUS
    <2>2. entries \in [Server -> [Host -> [Client -> SUBSET Past]]]
      BY <2>1 DEF Init
    <2>3. QED
      BY <2>2 DEF Init, StoreTypes
  <1>2. CallTypes
    BY DEF Init, CallTypes, Labels
  <1>3. TasksOK
    BY DEF Init, TasksOK
  <1>4. LocksOK
    BY DEF Init, LocksOK
  <1>5. ReachOK
    BY DEF Init, ReachOK
  <1>6. \A c : OfClient(c) = {} /\ UnderWay(c) = {}
    BY DEF Init, OfClient, UnderWay
  <1>7. OneAtATime
    BY <1>6 DEF OneAtATime
  <1>8. AgreeOK
    <2>1. ASSUME NEW c \in Client, NEW h \in Host
          PROVE  Common(c, h, {})
      <3>1. \A s \in Server : entries[s][h][c] = {}
        BY DEF Init
      <3>2. Spread({})
        BY FS_EmptySet DEF Spread
      <3>3. QED
        BY <1>6, <3>1, <3>2 DEF Common
    <2>2. QED
      BY <2>1 DEF AgreeOK
  <1>9. QED
    BY <1>1, <1>2, <1>3, <1>4, <1>5, <1>7, <1>8 DEF PeeringInv

\* The inductive invariant holds in every state, whatever the servers, the reports and
\* their interleaving, and whichever servers crash or calls fail (peering.py, main.py).
THEOREM PeeringInvariant == Spec => []PeeringInv
  <1>1. Init => PeeringInv
    BY PeeringStarts
  <1>2. PeeringInv /\ [Next]_vars => PeeringInv'
    BY TypesStay, TasksStay, LocksStay, ReachStays, OneStays, AgreeStays DEF PeeringInv
  <1>3. QED
    BY <1>1, <1>2, PTL DEF Spec

\* The types are kept, and utils._hosts_busy holds the hosts that are being recorded, each
\* locked by one task (Lock, Record, FailRecord, Crash).
THEOREM PeeringTypes == Spec => []TypeOK
  <1>1. PeeringInv => TypeOK
    BY DEF PeeringInv, StoreTypes, CallTypes, LocksOK, TypeOK, Past, Labels
  <1>2. QED
    BY <1>1, PeeringInvariant, PTL

\* When send_update is through, every peer has recorded the report or its call failed.
THEOREM UpdatesReachPeers == Spec => []ReachesPeers
  <1>1. PeeringInv => ReachesPeers
    <2>1. SUFFICES ASSUME PeeringInv, NEW r \in Report, report[r] # NULL,
                          pc[r][report[r].home] = "done", NEW p \in Peers(report[r].home)
                   PROVE  pc[r][p] = "done" \/ p \in failed[r]
      BY DEF ReachesPeers
    <2>2. QED
      BY <2>1 DEF PeeringInv, ReachOK
  <1>2. QED
    BY <1>1, PeeringInvariant, PTL

\* Servers end up with the same reports of a client that waits for its reports to be shared,
\* whichever way the updates were delayed or handled twice (send_update, handle_update,
\* controllers.add_report_to_cracker).
THEOREM ServersAgree == Spec => []LedgersAgree
  <1>1. PeeringInv => LedgersAgree
    <2>1. SUFFICES ASSUME PeeringInv, \A r \in Report : Quiet(r) /\ failed[r] = {},
                          NEW c \in Client \ raced,
                          \A r \in Report : report[r] # NULL /\ report[r].client = c =>
                            \A s \in Server : pc[r][s] = "done",
                          NEW h \in Host, NEW s \in Server, NEW t \in Server
                   PROVE  Kept(s, h, c) = Kept(t, h, c)
      BY DEF LedgersAgree
    <2>2. \A r \in OfClient(c) : Quiet(r) => Complete(r)
      BY <2>1 DEF OfClient, Complete
    <2>3. PICK B \in SUBSET Past : Common(c, h, B)
      BY <2>1, <2>2 DEF PeeringInv, AgreeOK
    <2>4. UnderWay(c) = {}
      BY <2>1 DEF UnderWay, OfClient
    <2>5. QED
      BY <2>3, <2>4 DEF Common, Kept
  <1>2. QED
    BY <1>1, PeeringInvariant, PTL
================================================================================
