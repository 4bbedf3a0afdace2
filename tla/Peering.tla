-------------------------------- MODULE Peering --------------------------------
(***************************************************************************)
(* Servers that share the reports of their clients (peering.py).  The      *)
(* server a client reports to records the report and then calls            *)
(* peering.update of each of its peers, one after the other; the peer      *)
(* records it with the time it was made, and does not pass it on.  A call  *)
(* is tried once, whatever becomes of it.                                  *)
(*                                                                         *)
(* What a server stores is the ledger that ReportStore implements: at most *)
(* three reports of a client about a host.  Recording a host is one step   *)
(* under the host's lock; locks, and threads for calls, are what a server  *)
(* can run out of.                                                         *)
(***************************************************************************)
EXTENDS Integers, Sequences, FiniteSets

CONSTANTS
  Server,     \* the servers: each is a peer of all others
  Host,       \* valid addresses of attacking hosts
  BadHost,    \* an address utils.is_valid_ip_address rejects
  HostLists,  \* the host lists a report may carry
  Client,     \* addresses of the reporting clients
  Report,     \* the reports: add_hosts requests
  NULL,       \* no report, no peer
  DAY,        \* 24*3600, in the model's unit of time
  Threads,    \* size of the reactor's thread pool
  MaxTime,    \* bound: the last value of the clock
  MaxFaults,  \* bound: number of failures
  FaultKinds  \* the failures considered: "record", "crash", "call", "answer"

ASSUME PeeringAssumption ==
  /\ BadHost \notin Host /\ HostLists \subseteq Seq(Host \cup {BadHost})
  /\ DAY \in Nat /\ Threads \in Nat \ {0}
  /\ MaxTime \in Nat /\ MaxFaults \in Nat
  /\ NULL \notin Server \cup [home : Server, client : Client, when : Nat, hosts : HostLists]

VARIABLES
  now,      \* time.time(): the servers' clocks agree
  up,       \* per server: it runs
  entries,  \* per server, host and client: the reports it keeps
  busy,     \* per server: utils._hosts_busy
  report,   \* per report: where, by whom, when and about which hosts
  pc,       \* per report and server: what the task handling it there does next
  todo,     \* per report and server: hosts left, the current one first
  left,     \* per report: peers it has not been sent to yet
  to,       \* per report: the peer being called
  failed,   \* per report: peers that the call of failed for
  raced,    \* clients that reported while their last report was under way
  faults    \* number of failures so far

store == <<entries, busy>>
tasks == <<pc, todo>>
calls == <<left, to, failed>>
vars == <<now, up, store, report, tasks, calls, raced, faults>>

Entry   == [first : Nat, latest : Nat]
Reports == [home : Server, client : Client, when : Nat, hosts : HostLists]

Init ==
  /\ now = 0 /\ up = [s \in Server |-> TRUE]
  /\ entries = [s \in Server |-> [h \in Host |-> [c \in Client |-> {}]]]
  /\ busy = [s \in Server |-> {}]
  /\ report = [r \in Report |-> NULL]
  /\ pc = [r \in Report |-> [s \in Server |-> "none"]]
  /\ todo = [r \in Report |-> [s \in Server |-> <<>>]]
  /\ left = [r \in Report |-> {}] /\ to = [r \in Report |-> NULL]
  /\ failed = [r \in Report |-> {}]
  /\ raced = {} /\ faults = 0

Peers(s) == Server \ {s}
Active(r, s) == pc[r][s] \in {"lock", "record", "send", "call"}
Quiet(r)     == \A s \in Server : ~Active(r, s)

Fault(kind) == kind \in FaultKinds /\ faults < MaxFaults /\ faults' = faults + 1

--------------------------------------------------------------------------------
(* A report on one server.                                                    *)

\* What becomes of the reports E of a client about a host when another arrives.
Merged(E, when) ==
  IF Cardinality(E) < 3
  THEN {IF \A e \in E : when > e.latest + DAY
        THEN E \cup {[first |-> when, latest |-> when]} ELSE E}
  ELSE {(E \ {e}) \cup {[e EXCEPT !.latest = when]} :
          e \in {e \in E : \A d \in E : d.latest <= e.latest}}

\* The next host, or what follows the last one: the server that got the report
\* from a client sends it to its peers, a peer answers.
Turn(r, s, home, hosts) ==
  /\ todo' = [todo EXCEPT ![r][s] = hosts]
  /\ pc' = [pc EXCEPT ![r][s] =
       IF hosts = <<>> THEN IF home = s THEN "send" ELSE "done"
       ELSE IF Head(hosts) = BadHost THEN "failed" ELSE "lock"]

\* add_hosts: a client reports.
AddHosts(r) ==
  /\ report[r] = NULL
  /\ \E s \in Server, c \in Client, hosts \in HostLists :
       /\ up[s]
       /\ report' = [report EXCEPT ![r] =
            [home |-> s, client |-> c, when |-> now, hosts |-> hosts]]
       /\ Turn(r, s, s, hosts)
       /\ left' = [left EXCEPT ![r] = Peers(s)]
       /\ raced' = IF \E q \in Report : ~Quiet(q) /\ report[q].client = c
                   THEN raced \cup {c} ELSE raced
  /\ UNCHANGED <<now, up, store, to, failed, faults>>

Lock(r, s) ==
  /\ pc[r][s] = "lock" /\ Head(todo[r][s]) \notin busy[s]
  /\ busy' = [busy EXCEPT ![s] = @ \cup {Head(todo[r][s])}]
  /\ pc' = [pc EXCEPT ![r][s] = "record"]
  /\ UNCHANGED <<now, up, entries, report, todo, calls, raced, faults>>

\* Mutant of Record: the time is that of the server that records it.
RecordNow(r, s) ==
  LET h == Head(todo[r][s])  c == report[r].client IN
  /\ pc[r][s] = "record"
  /\ \E E \in Merged(entries[s][h][c], now) : entries' = [entries EXCEPT ![s][h][c] = E]
  /\ busy' = [busy EXCEPT ![s] = @ \ {h}]
  /\ Turn(r, s, report[r].home, Tail(todo[r][s]))
  /\ UNCHANGED <<now, up, report, calls, raced, faults>>

\* Mutant of Record: a host stays locked after its report was recorded for a client.
RecordLocked(r, s) ==
  LET h == Head(todo[r][s])  c == report[r].client IN
  /\ pc[r][s] = "record"
  /\ \E E \in Merged(entries[s][h][c], report[r].when) :
       entries' = [entries EXCEPT ![s][h][c] = E]
  /\ busy' = IF report[r].home = s THEN busy ELSE [busy EXCEPT ![s] = @ \ {h}]
  /\ Turn(r, s, report[r].home, Tail(todo[r][s]))
  /\ UNCHANGED <<now, up, report, calls, raced, faults>>

\* Find or create the cracker, add the report, unlock.
Record(r, s) ==
  LET h == Head(todo[r][s])  c == report[r].client IN
  /\ pc[r][s] = "record"
  /\ \E E \in Merged(entries[s][h][c], report[r].when) :
       entries' = [entries EXCEPT ![s][h][c] = E]
  /\ busy' = [busy EXCEPT ![s] = @ \ {h}]
  /\ Turn(r, s, report[r].home, Tail(todo[r][s]))
  /\ UNCHANGED <<now, up, report, calls, raced, faults>>

\* A database operation fails: the host is unlocked, the rest of the list is not
\* looked at.
FailRecord(r, s) ==
  /\ pc[r][s] = "record" /\ Fault("record")
  /\ busy' = [busy EXCEPT ![s] = @ \ {Head(todo[r][s])}]
  /\ pc' = [pc EXCEPT ![r][s] = "failed"]
  /\ UNCHANGED <<now, up, entries, report, todo, calls, raced>>

--------------------------------------------------------------------------------
(* send_update and handle_update.                                             *)

\* Every call occupies a thread of its server.
Calling(s) == {r \in Report : pc[r][s] = "call"}

\* deferToThread(server.peering.update).
Call(r, s) ==
  /\ pc[r][s] = "send" /\ left[r] # {}
  /\ Cardinality(Calling(s)) < Threads
  /\ \E p \in left[r] : to' = [to EXCEPT ![r] = p] /\ left' = [left EXCEPT ![r] = @ \ {p}]
  /\ pc' = [pc EXCEPT ![r][s] = "call"]
  /\ UNCHANGED <<now, up, store, report, todo, failed, raced, faults>>

\* xmlrpc_update on the peer.
Deliver(r, s) ==
  /\ pc[r][s] = "call" /\ up[to[r]] /\ pc[r][to[r]] = "none"
  /\ Turn(r, to[r], s, report[r].hosts)
  /\ UNCHANGED <<now, up, store, report, calls, raced, faults>>

\* The call is over; the loop goes on to the next peer.
Hangup(r, s) ==
  /\ pc' = [pc EXCEPT ![r][s] = "send"]
  /\ to' = [to EXCEPT ![r] = NULL]
  /\ UNCHANGED <<now, up, store, report, todo, left, raced>>

Return(r, s) ==
  /\ pc[r][s] = "call" /\ pc[r][to[r]] = "done"
  /\ Hangup(r, s)
  /\ UNCHANGED <<failed, faults>>

\* The peer is down, or its handler ended in an error.
Refused(r) == IF pc[r][to[r]] = "none" THEN ~up[to[r]] ELSE pc[r][to[r]] = "failed"

\* Mutant of FailCall: the exception ends the loop over the peers.
FailAllCalls(r, s) ==
  /\ pc[r][s] = "call"
  /\ \/ Refused(r) /\ UNCHANGED faults
     \/ Fault("call")
  /\ failed' = [failed EXCEPT ![r] = @ \cup {to[r]}]
  /\ pc' = [pc EXCEPT ![r][s] = "done"]
  /\ to' = [to EXCEPT ![r] = NULL]
  /\ UNCHANGED <<now, up, store, report, todo, left, raced>>

\* The call raises: the peer cannot be reached, failed, or the connection is lost
\* before or after the update is delivered.  There is no second try.
FailCall(r, s) ==
  /\ pc[r][s] = "call"
  /\ \/ Refused(r) /\ UNCHANGED faults
     \/ Fault("call")
  /\ failed' = [failed EXCEPT ![r] = @ \cup {to[r]}]
  /\ Hangup(r, s)

\* xmlrpclib's transport: when the connection is reset before the answer arrives
\* it sends the request again, and the peer handles it a second time.
Resend(r, s) ==
  /\ pc[r][s] = "call" /\ pc[r][to[r]] = "done"
  /\ Fault("answer")
  /\ Turn(r, to[r], s, report[r].hosts)
  /\ UNCHANGED <<now, up, store, report, calls, raced>>

\* add_hosts returns 0.
Answer(r, s) ==
  /\ pc[r][s] = "send" /\ left[r] = {}
  /\ pc' = [pc EXCEPT ![r][s] = "done"]
  /\ UNCHANGED <<now, up, store, report, todo, calls, raced, faults>>

--------------------------------------------------------------------------------

\* A server stops: its tasks are gone, its tables stay.
Crash(s) ==
  /\ up[s] /\ Fault("crash")
  /\ up' = [up EXCEPT ![s] = FALSE]
  /\ busy' = [busy EXCEPT ![s] = {}]
  /\ pc' = [r \in Report |-> [pc[r] EXCEPT ![s] = IF Active(r, s) THEN "failed" ELSE @]]
  /\ to' = [r \in Report |-> IF pc[r][s] = "call" THEN NULL ELSE to[r]]
  /\ UNCHANGED <<now, entries, report, todo, left, failed, raced>>

Boot(s) ==
  /\ ~up[s] /\ up' = [up EXCEPT ![s] = TRUE]
  /\ UNCHANGED <<now, store, report, tasks, calls, raced, faults>>

Tick ==
  /\ now < MaxTime /\ now' = now + 1
  /\ UNCHANGED <<up, store, report, tasks, calls, raced, faults>>

TaskStep(r, s) ==
  \/ Lock(r, s) \/ Record(r, s)
  \/ Call(r, s) \/ Deliver(r, s) \/ Return(r, s) \/ Answer(r, s)
  \/ FailCall(r, s)

Next ==
  \/ \E r \in Report : AddHosts(r) \/ \E s \in Server : 
         TaskStep(r, s) \/ FailRecord(r, s) \/ Resend(r, s)
  \/ \E s \in Server : Crash(s) \/ Boot(s)
  \/ Tick

Spec == Init /\ [][Next]_vars

\* Reactors, threads and networks make progress: a task that can do its next step
\* does it, and a call of a server that is down fails in the end.
Fairness == \A r \in Report, s \in Server : WF_vars(TaskStep(r, s))

FairSpec == Spec /\ Fairness

--------------------------------------------------------------------------------
(* Properties.                                                                *)

\* The types; a lock is held by one task, and only by a task that records.
TypeOK ==
  /\ now \in 0..MaxTime /\ up \in [Server -> BOOLEAN] /\ faults \in 0..MaxFaults
  /\ entries \in [Server -> [Host -> [Client -> SUBSET [first : 0..now, latest : 0..now]]]]
  /\ busy \in [Server -> SUBSET Host] /\ raced \subseteq Client
  /\ report \in [Report -> Reports \cup {NULL}]
  /\ pc \in [Report -> [Server ->
              {"none", "lock", "record", "send", "call", "done", "failed"}]]
  /\ todo \in [Report -> [Server -> Seq(Host \cup {BadHost})]]
  /\ left \in [Report -> SUBSET Server] /\ failed \in [Report -> SUBSET Server]
  /\ to \in [Report -> Server \cup {NULL}]
  /\ \A s \in Server, h \in Host :
       h \in busy[s] <=>
         \E r \in Report : pc[r][s] = "record" /\ Head(todo[r][s]) = h

\* The reports of a client about a host that a server keeps.
Kept(s, h, c) == entries[s][h][c]

\* A client that was answered can rely on it: each peer has recorded every host of
\* the report, or could not be called.  One dead peer does not cut off the others.
ReachesPeers ==
  \A r \in Report : report[r] # NULL =>
    LET s == report[r].home IN
    pc[r][s] = "done" => \A p \in Peers(s) : pc[r][p] = "done" \/ p \in failed[r]

\* Once no report is under way the servers keep the same reports with the same
\* times, however late the updates were and if some were handled twice, for every
\* client that waited for its last report to be shared.  Not if a server crashed
\* or a call was lost: nothing is repeated later.
LedgersAgree ==
  (\A r \in Report : Quiet(r) /\ failed[r] = {}) /\ (\A s \in Server : up[s]) =>
    \A c \in Client \ raced :
      (\A r \in Report : report[r] # NULL /\ report[r].client = c =>
         \A s \in Server : pc[r][s] = "done") =>
      \A h \in Host, s, t \in Server : Kept(s, h, c) = Kept(t, h, c)

\* Every add_hosts is answered, or fails: servers that call each other do not wait
\* for each other's locks or threads.
AddIsAnswered == \A r \in Report : report[r] # NULL ~> Quiet(r)

================================================================================
