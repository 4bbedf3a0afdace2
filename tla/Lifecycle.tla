------------------------------- MODULE Lifecycle -------------------------------
(***************************************************************************)
(* main.py: the server's jobs, its port, the reload of the configuration   *)
(* (SIGHUP), and the orderly stop; composed with the refresh of the        *)
(* statistics, which is one of the jobs.                                   *)
(*                                                                         *)
(* A job is called by a LoopingCall; a reload stops it and makes another.  *)
(* One that is stopped while its call is under way lets the call end.  One *)
(* whose call failed is over, and its stop() fails.  The LoopingCalls of a *)
(* job are numbered; those of the statistics are the callers of            *)
(* Statistics.                                                             *)
(***************************************************************************)
EXTENDS Statistics

CONSTANTS
  Request,    \* reports of clients
  MaxReloads  \* bound: number of SIGHUPs

ASSUME LifecycleAssumption == MaxReloads \in Nat /\ Caller = 0..MaxReloads

VARIABLES
  loop,     \* the LoopingCalls of each job
  current,  \* maintenance_job, legacy_sync_job, stats_job: the last one of each
  port,     \* _xmlrpc_listener: open, or none
  reopen,   \* a reload waits for the port to close
  phase,    \* of the orderly stop
  request,  \* whether each request works on a host
  locked,   \* the LoopingCalls of maintenance whose call works on a host
  early,    \* what worked on a host when the stop began
  hasty,    \* the stop did not wait
  deaf,     \* the port could not be opened
  reloads   \* number of SIGHUPs so far

jobs     == <<loop, current>>
listener == <<port, reopen, deaf>>
work     == <<request, locked>>
stop     == <<phase, early, hasty>>
lifecycleVars == <<statisticsVars, jobs, listener, work, stop, reloads>>

Job == {"maintenance", "legacy", "stats"}

\* Host locks, named after who holds them (utils._hosts_busy).
Locks == {q \in Request : request[q] = "locked"} \cup locked

\* start_listening and schedule_jobs.
Init ==
  /\ StatisticsInit
  /\ loop = [j \in Job |-> [g \in Caller |-> IF g = 0 THEN "idle" ELSE "none"]]
  /\ current = [j \in Job |-> 0]
  /\ port = "open" /\ reopen = FALSE /\ deaf = FALSE
  /\ phase = "running" /\ early = {} /\ hasty = FALSE
  /\ request = [q \in Request |-> "none"] /\ locked = {}
  /\ reloads = 0

--------------------------------------------------------------------------------
(* The jobs.                                                                  *)

\* A call of LoopingCall g of job j ends: it is rescheduled, unless it was stopped.
Ended(j, g) ==
  loop' = [loop EXCEPT ![j][g] = IF @ = "running" THEN "idle" ELSE "over"]

\* It fails.
Failed(j, g) == loop' = [loop EXCEPT ![j][g] = "over"]

InCall(j, g) == loop[j][g] \in {"running", "stopped"}

\* An update of the statistics that finds another one under way ends at once.
Fire(j, g) ==
  /\ loop[j][g] = "idle"
  /\ loop' = [loop EXCEPT ![j][g] = "running"]
  /\ IF j = "stats" THEN CallUpdate(g) ELSE UNCHANGED statisticsVars
  /\ UNCHANGED <<current, listener, work, stop, reloads>>

\* Maintenance locks the host of one report after the other.
LockHost(g) ==
  /\ InCall("maintenance", g) /\ g \notin locked
  /\ locked' = locked \cup {g}
  /\ UNCHANGED <<statisticsVars, jobs, listener, request, stop, reloads>>

UnlockHost(g) ==
  /\ g \in locked
  /\ locked' = locked \ {g} /\ early' = early \ {g}
  /\ UNCHANGED <<statisticsVars, jobs, listener, request, phase, hasty, reloads>>

EndCall(j, g) ==
  /\ j # "stats" /\ InCall(j, g) /\ (j = "maintenance" => g \notin locked)
  /\ Ended(j, g)
  /\ UNCHANGED <<statisticsVars, current, listener, work, stop, reloads>>

\* Mutant of FailCall: without the "finally".
FailCallLocked(j, g) ==
  /\ j # "stats" /\ InCall(j, g)
  /\ Failed(j, g)
  /\ Fault
  /\ UNCHANGED <<day, rows, tables, busy, stage, pages, records>>
  /\ UNCHANGED <<current, listener, request, locked, early, phase, hasty, reloads>>

\* The "finally" of perform_maintenance unlocks the host.
FailCall(j, g) ==
  /\ j # "stats" /\ InCall(j, g)
  /\ Failed(j, g)
  /\ Fault
  /\ LET held == IF j = "maintenance" THEN {g} ELSE {}
     IN  locked' = locked \ held /\ early' = early \ held
  /\ UNCHANGED <<day, rows, tables, busy, stage, pages, records>>
  /\ UNCHANGED <<current, listener, request, phase, hasty, reloads>>

RefreshStatistics(g) ==
  /\ \/ (FillHistory(g) \/ AddCountries(g)) /\ UNCHANGED loop
     \/ (FillCache(g) \/ FailCache(g)) /\ Ended("stats", g)
     \/ Escape(g) /\ Failed("stats", g)
  /\ UNCHANGED <<current, listener, work, stop, reloads>>

--------------------------------------------------------------------------------
(* Requests of clients.                                                       *)

\* A connection may outlive the port.
LockRequest(q) ==
  /\ request[q] = "none"
  /\ request' = [request EXCEPT ![q] = "locked"]
  /\ UNCHANGED <<statisticsVars, jobs, listener, locked, stop, reloads>>

EndRequest(q) ==
  /\ request[q] = "locked"
  /\ request' = [request EXCEPT ![q] = "done"]
  /\ early' = early \ {q}
  /\ UNCHANGED <<statisticsVars, jobs, listener, locked, phase, hasty, reloads>>

--------------------------------------------------------------------------------
(* sighup_handler.                                                            *)

\* schedule_jobs goes through the jobs in this order and ends with an exception at
\* the first one that is over.
UpTo == [maintenance |-> {"maintenance"}, legacy |-> {"maintenance", "legacy"}, stats |-> Job]

Rescheduled == {j \in Job : \A k \in UpTo[j] : loop[k][current[k]] # "over"}

NewLoops(refresh) ==
  [j \in Job |->
     IF j \in Rescheduled
     THEN [loop[j] EXCEPT
             ![current[j]] = IF @ = "running" THEN "stopped" ELSE "over",
             ![current[j] + 1] = IF j = "stats" /\ refresh THEN "running" ELSE "idle"]
     ELSE loop[j]]

\* Mutant of Closes: with no port to close, stop_listening is done at once.
ClosesAnyway == TRUE

\* With no port to close, stop_listening fails: it does not know Deferred.
Closes == port = "open"

\* Mutant of Pending: a reload in the middle of another one forgets that one.
OnlyLast == Closes

\* The port is to be opened again.
Pending == reopen \/ Closes

\* The configuration is read, the jobs are rescheduled, the port is closed, to be
\* opened again.
Sighup ==
  LET refresh == "stats" \in Rescheduled /\ ~busy
  IN  /\ reloads < MaxReloads /\ reloads' = reloads + 1
      /\ loop' = NewLoops(refresh)
      /\ current' = [j \in Job |-> IF j \in Rescheduled THEN current[j] + 1 ELSE current[j]]
      /\ IF refresh THEN CallUpdate(current["stats"] + 1) ELSE UNCHANGED statisticsVars
      /\ IF Rescheduled = Job
         THEN port' = "none" /\ reopen' = Pending
         ELSE UNCHANGED <<port, reopen>>
      /\ UNCHANGED <<deaf, work, stop>>

\* The port is closed, and start_listening opens it, or fails to.
Reopen ==
  /\ reopen /\ reopen' = FALSE
  /\ \/ port' = "open" /\ UNCHANGED <<deaf, faults>>
     \/ deaf' = TRUE /\ Fault /\ UNCHANGED port
  /\ UNCHANGED <<day, rows, tables, busy, stage, pages, records>>
  /\ UNCHANGED <<jobs, work, stop, reloads>>

--------------------------------------------------------------------------------
(* shutdown.                                                                  *)

\* reactor.stop, by a signal, or, at the first start, by check_database_version.  When
\* stop_listening fails, shutdown logs that and ends.
BeginStop ==
  /\ phase = "running"
  /\ IF port = "open"
     THEN /\ port' = "none" /\ phase' = "closing"
          /\ early' = Locks
          /\ UNCHANGED hasty
     ELSE /\ phase' = "stopped" /\ hasty' = TRUE
          /\ UNCHANGED <<port, early>>
  /\ UNCHANGED <<statisticsVars, jobs, reopen, deaf, work, reloads>>

NextPhase(from, to) ==
  /\ phase = from /\ phase' = to
  /\ UNCHANGED <<statisticsVars, jobs, listener, work, early, hasty, reloads>>

Closed  == NextPhase("closing", "waiting")

\* Mutant of PollLocks: does not wait for the locks.
PollNothing == NextPhase("waiting", "grace")

PollLocks == Locks = {} /\ NextPhase("waiting", "grace")

EndStop == NextPhase("grace", "stopped")

--------------------------------------------------------------------------------

Working ==
  \/ \E j \in Job, g \in Caller : EndCall(j, g)
  \/ \E g \in Caller : UnlockHost(g) \/ RefreshStatistics(g)
  \/ \E q \in Request : EndRequest(q)

Next ==
  /\ phase # "stopped"
  /\ \/ Working
     \/ \E j \in Job, g \in Caller : Fire(j, g) \/ FailCall(j, g)
     \/ \E g \in Caller : LockHost(g)
     \/ \E q \in Request : LockRequest(q)
     \/ Sighup \/ Reopen
     \/ BeginStop \/ Closed \/ PollLocks \/ EndStop
     \/ Surroundings /\ UNCHANGED <<jobs, listener, work, stop, reloads>>

Spec == Init /\ [][Next]_lifecycleVars

\* The port, once closed, is opened again.
FairSpec == Spec /\ WF_lifecycleVars(Reopen)

--------------------------------------------------------------------------------
(* Properties.                                                                *)

TypeOK ==
  /\ StatisticsTypeOK
  /\ loop \in [Job -> [Caller -> {"none", "idle", "running", "stopped", "over"}]]
  /\ current \in [Job -> Caller] /\ reloads \in 0..MaxReloads
  /\ reopen \in BOOLEAN /\ deaf \in BOOLEAN /\ hasty \in BOOLEAN
  /\ port \in {"open", "none"} /\ (reopen => phase \in {"running", "stopped"})
  /\ phase \in {"running", "closing", "waiting", "grace", "stopped"}
  /\ request \in [Request -> {"none", "locked", "done"}]
  /\ locked \subseteq {g \in Caller : InCall("maintenance", g)} /\ early \subseteq Locks
  /\ \A g \in Caller : InCall("stats", g) = (stage[g] # "idle")

\* Once the server stops, a reload does not open the port again.
ClosedStaysClosed == phase # "running" => port = "none"

\* An orderly stop cuts off nothing that held a host's lock when it began.
NoLockIsCut == phase = "stopped" /\ ~hasty => early = {}

\* A reload does not leave the server deaf, another one in the middle of it included,
\* unless the port cannot be opened.
ListensAgain == (port = "none") ~> (port = "open" \/ deaf \/ phase # "running")

================================================================================
