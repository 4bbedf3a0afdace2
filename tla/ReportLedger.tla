------------------------------ MODULE ReportLedger ------------------------------
(***************************************************************************)
(* What the report store promises about the reports it keeps, without      *)
(* tables, locks and tasks.  The ledger holds at most three entries per    *)
(* host and client.  A report that arrived is merged into the ledger in    *)
(* one step, once for every host it lists and in the order of the list,    *)
(* or given up; an entry may expire.                                       *)
(*                                                                         *)
(* The merging rule is that of controllers.add_report_to_cracker, "Report  *)
(* merging algorithm by Anne Bezemer".                                     *)
(***************************************************************************)
EXTENDS Integers, Sequences, FiniteSets, Functions

CONSTANTS Host, BadHost, Client, HostLists, Request, NULL, DAY, MaxDelay

VARIABLES
  now,      \* the clock
  ledger,   \* entry -> [host, client, first, latest]
  pending   \* per request: NULL or [client, when, hosts], the hosts not merged yet

Continues(hosts) == hosts # <<>> /\ Head(hosts) # BadHost

Pending(client, when, hosts) ==
  IF Continues(hosts) THEN [client |-> client, when |-> when, hosts |-> hosts]
                      ELSE NULL

Init == now = 0 /\ ledger = <<>> /\ pending = [q \in Request |-> NULL]

\* A report arrives.
Receive(q) ==
  /\ pending[q] = NULL
  /\ \E hosts \in HostLists, client \in Client, delay \in 0..MaxDelay :
       pending' = [pending EXCEPT ![q] = Pending(client, now - delay, hosts)]
  /\ UNCHANGED <<now, ledger>>

\* The entries that a report of client about host is merged with.
Entries(host, client) ==
  {e \in DOMAIN ledger : ledger[e].host = host /\ ledger[e].client = client}

\* A first entry, or a second or third one after more than a day.
Add(host, client, when) ==
  /\ Cardinality(Entries(host, client)) < 3
  /\ \A e \in Entries(host, client) : when > ledger[e].latest + DAY
  /\ \E e \in DOMAIN ledger' \ DOMAIN ledger :
       ledger' = [d \in DOMAIN ledger \cup {e} |->
                    IF d = e THEN [host |-> host, client |-> client,
                                   first |-> when, latest |-> when]
                             ELSE ledger[d]]

\* A report within a day of one of at most two entries leaves no trace.
Ignore(host, client, when) ==
  /\ Cardinality(Entries(host, client)) < 3
  /\ \E e \in Entries(host, client) : when <= ledger[e].latest + DAY
  /\ UNCHANGED ledger

\* Of three entries the latest one is moved.
Move(host, client, when) ==
  /\ Cardinality(Entries(host, client)) = 3
  /\ \E e \in Entries(host, client) :
       /\ \A d \in Entries(host, client) : ledger[d].latest <= ledger[e].latest
       /\ ledger' = [ledger EXCEPT ![e].latest = when]

Record(q) ==
  /\ pending[q] # NULL
  /\ LET p == pending[q]
         host == Head(p.hosts)
     IN  /\ \/ Add(host, p.client, p.when)
            \/ Ignore(host, p.client, p.when)
            \/ Move(host, p.client, p.when)
         /\ pending' = [pending EXCEPT ![q] =
                          Pending(p.client, p.when, Tail(p.hosts))]
  /\ UNCHANGED now

\* Requests are given up: an error, or the server stops.
GiveUp(Q) ==
  /\ pending' = [q \in Request |-> IF q \in Q THEN NULL ELSE pending[q]]
  /\ UNCHANGED <<now, ledger>>

\* One entry goes.
Expire(e) ==
  /\ ledger' = Restrict(ledger, DOMAIN ledger \ {e})
  /\ UNCHANGED <<now, pending>>

Tick == now' = now + 1 /\ UNCHANGED <<ledger, pending>>

Next ==
  \/ \E q \in Request : Receive(q) \/ Record(q)
  \/ \E Q \in SUBSET Request : GiveUp(Q)
  \/ \E e \in DOMAIN ledger : Expire(e)
  \/ Tick

Spec == Init /\ [][Next]_<<now, ledger, pending>>
================================================================================
