----------------------------- MODULE LifecycleProofs -----------------------------
(***************************************************************************)
(* Theorems about Lifecycle, for any number of reloads, requests and       *)
(* failures: its types, that refreshes of the statistics do not overlap    *)
(* across reloads, and that an orderly stop keeps the port closed and cuts *)
(* off nothing that held a lock.                                           *)
(***************************************************************************)
EXTENDS Lifecycle, StatisticsProofs

USE LifecycleAssumption
USE DEF rows, tables, pages, records, statisticsVars, jobs, listener, work, stop

--------------------------------------------------------------------------------
(* The inductive invariant.                                                   *)

\* The LoopingCalls that a job had so far are those up to current, and the current
\* one was not stopped.  A LoopingCall of the statistics is in a call exactly as long
\* as it is in update_stats_cache.
JobsOK ==
  /\ loop \in [Job -> [Caller -> {"none", "idle", "running", "stopped", "over"}]]
  /\ current \in [Job -> Caller] /\ reloads \in 0..MaxReloads
  /\ \A j \in Job :
       /\ current[j] <= reloads
       /\ loop[j][current[j]] \in {"idle", "running", "over"}
       /\ \A g \in Caller : g > current[j] => loop[j][g] = "none"
  /\ \A g \in Caller : InCall("stats", g) = (stage[g] # "idle")

\* A reload waits only for a port that is closed, and not while the server stops.
ListenerOK ==
  /\ reopen \in BOOLEAN /\ deaf \in BOOLEAN
  /\ port \in {"open", "none"} /\ phase \in {"running", "closing", "waiting", "grace", "stopped"}
  /\ port = "open" => ~reopen
  /\ reopen => phase \in {"running", "stopped"}
  /\ ClosedStaysClosed

\* What worked on a host when the stop began still does, until it is done.
WorkOK ==
  /\ request \in [Request -> {"none", "locked", "done"}] /\ hasty \in BOOLEAN
  /\ locked \subseteq {g \in Caller : InCall("maintenance", g)} /\ early \subseteq Locks
  /\ phase \in {"running", "grace"} => early = {}
  /\ NoLockIsCut

LifecycleInv == StatisticsInv /\ JobsOK /\ ListenerOK /\ WorkOK

--------------------------------------------------------------------------------
(* The jobs.                                                                  *)

LEMMA JobTypes ==
  ASSUME LifecycleInv
  PROVE  /\ loop \in [Job -> [Caller -> {"none", "idle", "running", "stopped", "over"}]]
         /\ current \in [Job -> Caller] /\ reloads \in 0..MaxReloads
         /\ MaxReloads \in Nat /\ Caller = 0..MaxReloads
         /\ stage \in [Caller -> {"idle", "history", "country", "page"}]
  <1>1. stage \in [Caller -> {"idle", "history", "country", "page"}]
    BY Zenon DEF LifecycleInv, StatisticsInv, StatisticsTypeOK
  <1>2. QED
    BY <1>1 DEF LifecycleInv, JobsOK

\* A LoopingCall that was made changes, and the number of LoopingCalls does not.
LEMMA LoopUpdate ==
  ASSUME LifecycleInv, NEW j \in Job, NEW g \in Caller, loop[j][g] # "none",
         NEW v \in {"idle", "running", "over"}, loop' = [loop EXCEPT ![j][g] = v],
         current' = current, reloads' = reloads
  PROVE  /\ loop' \in [Job -> [Caller -> {"none", "idle", "running", "stopped", "over"}]]
         /\ loop'[j][g] = v
         /\ \A k \in Job, h \in Caller : <<k, h>> # <<j, g>> => loop'[k][h] = loop[k][h]
         /\ \A k \in Job :
              /\ current[k] <= reloads
              /\ loop'[k][current[k]] \in {"idle", "running", "over"}
              /\ \A h \in Caller : h > current[k] => loop'[k][h] = "none"
  <1>1. /\ loop \in [Job -> [Caller -> {"none", "idle", "running", "stopped", "over"}]]
        /\ current \in [Job -> Caller]
    BY JobTypes
  <1>2. loop' \in [Job -> [Caller -> {"none", "idle", "running", "stopped", "over"}]]
    BY <1>1
  <1>3. /\ loop'[j][g] = v
        /\ \A k \in Job, h \in Caller : <<k, h>> # <<j, g>> => loop'[k][h] = loop[k][h]
    BY <1>1
  <1>4. ASSUME NEW k \in Job
        PROVE  /\ current[k] <= reloads
               /\ loop'[k][current[k]] \in {"idle", "running", "over"}
               /\ \A h \in Caller : h > current[k] => loop'[k][h] = "none"
    <2>1. /\ current[k] \in Caller /\ current[k] <= reloads
          /\ loop[k][current[k]] \in {"idle", "running", "over"}
          /\ \A h \in Caller : h > current[k] => loop[k][h] = "none"
      BY <1>1 DEF LifecycleInv, JobsOK
    <2>2. loop'[k][current[k]] \in {"idle", "running", "over"}
      BY <1>3, <2>1
    <2>3. \A h \in Caller : h > current[k] => loop'[k][h] = "none"
      BY <1>3, <2>1
    <2>4. QED
      BY <2>1, <2>2, <2>3
  <1>5. QED
    BY <1>2, <1>3, <1>4

\* The calls of the jobs, and their failures.
LEMMA CallsStep ==
  ASSUME LifecycleInv, NEW j \in Job, NEW g \in Caller,
         Fire(j, g) \/ EndCall(j, g) \/ FailCall(j, g) \/ (j = "stats" /\ RefreshStatistics(g))
  PROVE  JobsOK'
  <1> USE DEF InCall
  <1>1. current' = current /\ reloads' = reloads
    BY DEF Fire, EndCall, FailCall, RefreshStatistics
  <1>2. /\ loop \in [Job -> [Caller -> {"none", "idle", "running", "stopped", "over"}]]
        /\ current \in [Job -> Caller] /\ reloads \in 0..MaxReloads
        /\ stage \in [Caller -> {"idle", "history", "country", "page"}]
    BY JobTypes
  <1>3. \A h \in Caller : InCall("stats", h) = (stage[h] # "idle")
    BY DEF LifecycleInv, JobsOK
  <1>4. "stats" \in Job
    BY DEF Job
  <1>5. CASE UNCHANGED <<loop, stage>>
    BY <1>1, <1>5 DEF LifecycleInv, JobsOK
  <1>6. ASSUME loop[j][g] # "none", NEW v \in {"idle", "running", "over"},
               loop' = [loop EXCEPT ![j][g] = v],
               \A h \in Caller : (j # "stats" \/ h # g) => (stage'[h] # "idle" <=> stage[h] # "idle"),
               j = "stats" => (v = "running" <=> stage'[g] # "idle")
        PROVE  JobsOK'
    <2>1. /\ loop' \in [Job -> [Caller -> {"none", "idle", "running", "stopped", "over"}]]
          /\ loop'[j][g] = v
          /\ \A k \in Job, h \in Caller : <<k, h>> # <<j, g>> => loop'[k][h] = loop[k][h]
          /\ \A k \in Job :
               /\ current[k] <= reloads
               /\ loop'[k][current[k]] \in {"idle", "running", "over"}
               /\ \A h \in Caller : h > current[k] => loop'[k][h] = "none"
      BY <1>1, <1>6, LoopUpdate
    <2>2. ASSUME NEW h \in Caller
          PROVE  loop'["stats"][h] \in {"running", "stopped"} <=> stage'[h] # "idle"
      <3>1. CASE j = "stats" /\ h = g
        BY <1>6, <2>1, <3>1
      <3>2. CASE j # "stats" \/ h # g
        <4>1. loop'["stats"][h] = loop["stats"][h]
          BY <1>4, <2>1, <3>2
        <4>2. QED
          BY <1>3, <1>6, <3>2, <4>1
      <3>3. QED
        BY <3>1, <3>2
    <2>3. \A h \in Caller : InCall("stats", h)' = (stage'[h] # "idle")
      BY <2>2
    <2>4. QED
      BY <1>1, <1>2, <2>1, <2>3 DEF JobsOK
  <1>7. CASE Fire(j, g)
    <2>1. loop[j][g] = "idle" /\ loop' = [loop EXCEPT ![j][g] = "running"]
      BY <1>7 DEF Fire
    <2>2. CASE j = "stats"
      <3>1. stage' = [stage EXCEPT ![g] = "history"]
        BY <1>7, <2>2 DEF Fire, CallUpdate, At
      <3>2. QED
        BY <1>2, <1>6, <2>1, <2>2, <3>1
    <2>3. CASE j # "stats"
      <3>1. stage' = stage
        BY <1>7, <2>3 DEF Fire
      <3>2. QED
        BY <1>2, <1>6, <2>1, <2>3, <3>1
    <2>4. QED
      BY <2>2, <2>3
  <1>8. CASE EndCall(j, g)
    <2>1. j # "stats" /\ loop[j][g] # "none" /\ stage' = stage
          /\ loop' = [loop EXCEPT ![j][g] = IF loop[j][g] = "running" THEN "idle" ELSE "over"]
      BY <1>2, <1>8 DEF EndCall, Ended
    <2>2. QED
      BY <1>2, <1>6, <2>1
  <1>9. CASE FailCall(j, g)
    <2>1. j # "stats" /\ loop[j][g] # "none" /\ stage' = stage
          /\ loop' = [loop EXCEPT ![j][g] = "over"]
      BY <1>9 DEF FailCall, Failed
    <2>2. QED
      BY <1>2, <1>6, <2>1
  <1>10. CASE j = "stats" /\ RefreshStatistics(g)
    <2>1. CASE (FillHistory(g) \/ AddCountries(g)) /\ UNCHANGED loop
      <3>1. \A h \in Caller : stage'[h] # "idle" <=> stage[h] # "idle"
        BY <1>2, <2>1 DEF FillHistory, AddCountries, At
      <3>2. \A h \in Caller : InCall("stats", h)' = (stage'[h] # "idle")
        BY <1>3, <2>1, <3>1
      <3>3. QED
        BY <1>1, <2>1, <3>2 DEF LifecycleInv, JobsOK
    <2>2. CASE (FillCache(g) \/ FailCache(g)) /\ Ended("stats", g)
      <3>1. stage[g] # "idle" /\ stage' = [stage EXCEPT ![g] = "idle"]
        BY <2>2 DEF FillCache, FailCache, At
      <3>2. loop["stats"][g] # "none"
        BY <1>3, <3>1
      <3>3. loop' = [loop EXCEPT !["stats"][g] = IF loop["stats"][g] = "running" THEN "idle" ELSE "over"]
        BY <1>2, <1>4, <2>2 DEF Ended
      <3>4. QED
        BY <1>2, <1>6, <1>10, <3>1, <3>2, <3>3
    <2>3. CASE Escape(g) /\ Failed("stats", g)
      <3>1. stage[g] # "idle" /\ stage' = [stage EXCEPT ![g] = "idle"]
        BY <2>3 DEF Escape, At
      <3>2. loop["stats"][g] # "none"
        BY <1>3, <3>1
      <3>3. loop' = [loop EXCEPT !["stats"][g] = "over"]
        BY <2>3 DEF Failed
      <3>4. QED
        BY <1>2, <1>6, <1>10, <3>1, <3>2, <3>3
    <2>4. QED
      BY <1>10, <2>1, <2>2, <2>3 DEF RefreshStatistics
  <1>11. QED
    BY <1>7, <1>8, <1>9, <1>10

\* sighup_handler: a job that is rescheduled gets the next LoopingCall.
LEMMA SighupJobs ==
  ASSUME LifecycleInv, Sighup
  PROVE  /\ JobsOK'
         /\ \A g \in Caller : InCall("maintenance", g)' = InCall("maintenance", g)
  <1> USE DEF InCall
  <1> DEFINE refresh == "stats" \in Rescheduled /\ ~busy
  <1>1. /\ reloads < MaxReloads /\ reloads' = reloads + 1
        /\ loop' = NewLoops(refresh)
        /\ current' = [j \in Job |-> IF j \in Rescheduled THEN current[j] + 1 ELSE current[j]]
        /\ IF refresh THEN CallUpdate(current["stats"] + 1) ELSE UNCHANGED statisticsVars
    BY DEF Sighup
  <1>2. /\ loop \in [Job -> [Caller -> {"none", "idle", "running", "stopped", "over"}]]
        /\ current \in [Job -> Caller] /\ reloads \in 0..MaxReloads
        /\ MaxReloads \in Nat /\ Caller = 0..MaxReloads
        /\ stage \in [Caller -> {"idle", "history", "country", "page"}]
    BY JobTypes
  <1>3. \A j \in Job :
          /\ current[j] \in Caller /\ current[j] <= reloads
          /\ loop[j][current[j]] \in {"idle", "running", "over"}
          /\ \A g \in Caller : g > current[j] => loop[j][g] = "none"
    BY <1>2 DEF LifecycleInv, JobsOK
  <1>4. \A j \in Rescheduled : j \in Job /\ loop[j][current[j]] \in {"idle", "running"}
    <2>1. \A j \in Job : j \in UpTo[j]
      BY DEF Job, UpTo
    <2>2. QED
      BY <1>3, <2>1 DEF Rescheduled
  <1>5. \A j \in Job : current[j] + 1 \in Caller /\ current[j] + 1 # current[j]
    BY <1>1, <1>2, <1>3
  <1>6. current' \in [Job -> Caller] /\ reloads' \in 0..MaxReloads
    BY <1>1, <1>2, <1>5
  <1> HIDE DEF refresh
  <1>7. ASSUME NEW j \in Job
        PROVE  IF j \in Rescheduled
               THEN /\ current'[j] = current[j] + 1
                    /\ loop'[j] \in [Caller -> {"none", "idle", "running", "stopped", "over"}]
                    /\ loop'[j][current[j]] =
                         IF loop[j][current[j]] = "running" THEN "stopped" ELSE "over"
                    /\ loop'[j][current[j] + 1] =
                         IF j = "stats" /\ refresh THEN "running" ELSE "idle"
                    /\ \A g \in Caller \ {current[j], current[j] + 1} : loop'[j][g] = loop[j][g]
               ELSE current'[j] = current[j] /\ loop'[j] = loop[j]
    <2>1. CASE j \in Rescheduled
      <3>1. loop'[j] = [loop[j] EXCEPT
                  ![current[j]] = IF loop[j][current[j]] = "running" THEN "stopped" ELSE "over",
                  ![current[j] + 1] = IF j = "stats" /\ refresh THEN "running" ELSE "idle"]
        BY <1>1, <1>2, <1>3, <1>5, <2>1 DEF NewLoops
      <3>2. loop[j] \in [Caller -> {"none", "idle", "running", "stopped", "over"}]
        BY <1>2
      <3>3. current[j] \in Caller /\ current[j] + 1 \in Caller /\ current[j] # current[j] + 1
        BY <1>3, <1>5
      <3>4. current'[j] = current[j] + 1
        BY <1>1, <2>1
      <3>5. loop'[j] \in [Caller -> {"none", "idle", "running", "stopped", "over"}]
        BY <3>1, <3>2
      <3>6. /\ loop'[j][current[j]] =
                 IF loop[j][current[j]] = "running" THEN "stopped" ELSE "over"
            /\ loop'[j][current[j] + 1] = IF j = "stats" /\ refresh THEN "running" ELSE "idle"
            /\ \A g \in Caller \ {current[j], current[j] + 1} : loop'[j][g] = loop[j][g]
        BY <3>1, <3>2, <3>3
      <3>7. QED
        BY <2>1, <3>4, <3>5, <3>6
    <2>2. CASE j \notin Rescheduled
      BY <1>1, <2>2 DEF NewLoops
    <2>3. QED
      BY <2>1, <2>2
  <1>8. loop' \in [Job -> [Caller -> {"none", "idle", "running", "stopped", "over"}]]
    <2>1. \A j \in Job : loop'[j] \in [Caller -> {"none", "idle", "running", "stopped", "over"}]
      BY <1>2, <1>7
    <2>2. QED
      BY <1>1, <2>1 DEF NewLoops
  <1>9. ASSUME NEW j \in Job
        PROVE  /\ current'[j] <= reloads'
               /\ loop'[j][current'[j]] \in {"idle", "running", "over"}
               /\ \A g \in Caller : g > current'[j] => loop'[j][g] = "none"
    <2>1. CASE j \in Rescheduled
      <3>1. current'[j] = current[j] + 1 /\ loop'[j][current[j] + 1] \in {"running", "idle"}
            /\ \A g \in Caller \ {current[j], current[j] + 1} : loop'[j][g] = loop[j][g]
        BY <1>7, <2>1
      <3>2. current[j] \in Nat /\ current[j] <= reloads /\ reloads \in Nat
            /\ \A g \in Caller : g \in Nat
        BY <1>2, <1>3
      <3>3. \A g \in Caller : g > current[j] + 1 =>
              g > current[j] /\ g \in Caller \ {current[j], current[j] + 1}
        BY <3>2
      <3>4. \A g \in Caller : g > current'[j] => loop'[j][g] = "none"
        BY <1>3, <3>1, <3>3
      <3>5. current'[j] <= reloads'
        BY <1>1, <3>1, <3>2
      <3>6. QED
        BY <3>1, <3>4, <3>5
    <2>2. CASE j \notin Rescheduled
      BY <1>1, <1>2, <1>3, <1>7, <2>2
    <2>3. QED
      BY <2>1, <2>2
  <1>10. ASSUME NEW j \in Job, NEW g \in Caller
         PROVE  loop'[j][g] \in {"running", "stopped"} <=>
                  \/ loop[j][g] \in {"running", "stopped"}
                  \/ (j = "stats" /\ refresh /\ g = current[j] + 1)
    <2>1. CASE j \in Rescheduled
      <3>1. CASE g = current[j]
        BY <1>4, <1>5, <1>7, <2>1, <3>1
      <3>2. CASE g = current[j] + 1
        <4>1. loop[j][g] = "none"
          BY <1>2, <1>3, <3>2
        <4>2. QED
          BY <1>7, <2>1, <3>2, <4>1
      <3>3. CASE g \notin {current[j], current[j] + 1}
        BY <1>7, <2>1, <3>3
      <3>4. QED
        BY <3>1, <3>2, <3>3
    <2>2. CASE j \notin Rescheduled
      BY <1>7, <2>2 DEF refresh
    <2>3. QED
      BY <2>1, <2>2
  <1>11. "stats" \in Job /\ "maintenance" \in Job
    BY DEF Job
  <1>12. ASSUME NEW g \in Caller
         PROVE  stage'[g] # "idle" <=> stage[g] # "idle" \/ (refresh /\ g = current["stats"] + 1)
    <2>1. CASE refresh
      <3>1. stage' = [stage EXCEPT ![current["stats"] + 1] = "history"]
        BY <1>1, <2>1 DEF CallUpdate, At
      <3>2. QED
        BY <1>2, <1>5, <1>11, <2>1, <3>1
    <2>2. CASE ~refresh
      BY <1>1, <2>2
    <2>3. QED
      BY <2>1, <2>2
  <1>13. \A g \in Caller : InCall("stats", g)' = (stage'[g] # "idle")
    <2>1. \A g \in Caller : InCall("stats", g) = (stage[g] # "idle")
      BY DEF LifecycleInv, JobsOK
    <2>2. QED
      BY <1>10, <1>11, <1>12, <2>1
  <1>14. JobsOK'
    BY <1>6, <1>8, <1>9, <1>13 DEF JobsOK
  <1>15. \A g \in Caller : InCall("maintenance", g)' = InCall("maintenance", g)
    BY <1>10, <1>11
  <1>16. QED
    BY <1>14, <1>15

LEMMA JobsStep ==
  ASSUME LifecycleInv, Next
  PROVE  JobsOK'
  <1>1. CASE UNCHANGED <<loop, current, reloads, stage>>
    BY <1>1 DEF LifecycleInv, JobsOK, InCall
  <1>2. ASSUME NEW j \in Job, NEW g \in Caller, Fire(j, g) \/ EndCall(j, g) \/ FailCall(j, g)
        PROVE  JobsOK'
    BY <1>2, CallsStep
  <1>3. ASSUME NEW g \in Caller, RefreshStatistics(g)
        PROVE  JobsOK'
    <2>1. "stats" \in Job
      BY DEF Job
    <2>2. QED
      BY <1>3, <2>1, CallsStep
  <1>4. CASE Sighup
    BY <1>4, SighupJobs
  <1>5. ASSUME NEW g \in Caller, LockHost(g) \/ UnlockHost(g)
        PROVE  JobsOK'
    BY <1>1, <1>5 DEF LockHost, UnlockHost
  <1>6. ASSUME NEW q \in Request, LockRequest(q) \/ EndRequest(q)
        PROVE  JobsOK'
    BY <1>1, <1>6 DEF LockRequest, EndRequest
  <1>7. CASE Reopen \/ BeginStop \/ Closed \/ PollLocks \/ EndStop
    BY <1>1, <1>7 DEF Reopen, BeginStop, Closed, PollLocks, EndStop, NextPhase
  <1>8. CASE Surroundings /\ UNCHANGED <<jobs, listener, work, stop, reloads>>
    <2>1. UNCHANGED stage
      BY <1>8 DEF Surroundings, ReportStep, AddReport, RefreshReport, ExpireReport, RestOfReports,
                  NextDay, GetPage, PollPage, Render
    <2>2. QED
      BY <1>1, <1>8, <2>1
  <1>9. QED
    BY <1>2, <1>3, <1>4, <1>5, <1>6, <1>7, <1>8 DEF Next, Working

--------------------------------------------------------------------------------
(* The port, and the stop.                                                    *)

\* stop_listening and start_listening: reloads and the stop.
LEMMA ListenerStep ==
  ASSUME LifecycleInv, Next
  PROVE  ListenerOK'
  <1> USE DEF LifecycleInv, ListenerOK, ClosedStaysClosed
  <1>1. CASE UNCHANGED <<listener, phase>>
    BY <1>1
  <1>2. CASE Sighup
    BY <1>2 DEF Sighup, Pending, Closes
  <1>3. CASE Reopen
    BY <1>3 DEF Reopen, Next
  <1>4. CASE BeginStop
    BY <1>4 DEF BeginStop
  <1>5. CASE Closed \/ PollLocks \/ EndStop
    BY <1>5 DEF Closed, PollLocks, EndStop, NextPhase
  <1>6. CASE Working
    BY <1>1, <1>6 DEF Working, EndCall, UnlockHost, RefreshStatistics, EndRequest
  <1>7. ASSUME NEW j \in Job, NEW g \in Caller, Fire(j, g) \/ FailCall(j, g)
        PROVE  ListenerOK'
    BY <1>1, <1>7 DEF Fire, FailCall
  <1>8. ASSUME NEW g \in Caller, LockHost(g)
        PROVE  ListenerOK'
    BY <1>1, <1>8 DEF LockHost
  <1>9. ASSUME NEW q \in Request, LockRequest(q)
        PROVE  ListenerOK'
    BY <1>1, <1>9 DEF LockRequest
  <1>10. CASE UNCHANGED <<jobs, listener, work, stop, reloads>>
    BY <1>1, <1>10
  <1>11. QED
    BY <1>2, <1>3, <1>4, <1>5, <1>6, <1>7, <1>8, <1>9, <1>10 DEF Next

\* A LoopingCall of maintenance that holds a lock stays in its call.
LEMMA CallsHold ==
  ASSUME LifecycleInv, Next
  PROVE  locked' \subseteq {g \in Caller : InCall("maintenance", g)}'
  <1> USE DEF InCall
  <1>1. locked \subseteq Caller /\ \A g \in locked : InCall("maintenance", g)
    BY DEF LifecycleInv, WorkOK
  <1>2. loop \in [Job -> [Caller -> {"none", "idle", "running", "stopped", "over"}]]
        /\ "maintenance" \in Job
    BY JobTypes DEF Job
  <1>3. CASE UNCHANGED loop /\ locked' \subseteq locked
    BY <1>1, <1>3
  <1>4. ASSUME NEW g \in Caller, LockHost(g)
        PROVE  locked' \subseteq {h \in Caller : InCall("maintenance", h)}'
    BY <1>1, <1>4 DEF LockHost
  <1>5. ASSUME NEW j \in Job, NEW g \in Caller, Fire(j, g)
        PROVE  locked' \subseteq {h \in Caller : InCall("maintenance", h)}'
    BY <1>1, <1>2, <1>5 DEF Fire
  <1>6. ASSUME NEW j \in Job, NEW g \in Caller, EndCall(j, g)
        PROVE  locked' \subseteq {h \in Caller : InCall("maintenance", h)}'
    BY <1>1, <1>2, <1>6 DEF EndCall, Ended
  <1>7. ASSUME NEW j \in Job, NEW g \in Caller, FailCall(j, g)
        PROVE  locked' \subseteq {h \in Caller : InCall("maintenance", h)}'
    BY <1>1, <1>2, <1>7 DEF FailCall, Failed
  <1>8. ASSUME NEW g \in Caller, RefreshStatistics(g)
        PROVE  locked' \subseteq {h \in Caller : InCall("maintenance", h)}'
    <2>1. UNCHANGED locked /\ loop'["maintenance"] = loop["maintenance"]
      BY <1>2, <1>8 DEF RefreshStatistics, Ended, Failed
    <2>2. QED
      BY <1>1, <2>1
  <1>9. CASE Sighup
    <2>1. UNCHANGED locked
      BY <1>9 DEF Sighup
    <2>2. QED
      BY <1>1, <1>9, <2>1, SighupJobs
  <1>10. ASSUME NEW g \in Caller, UnlockHost(g)
         PROVE  locked' \subseteq {h \in Caller : InCall("maintenance", h)}'
    BY <1>3, <1>10 DEF UnlockHost
  <1>11. ASSUME NEW q \in Request, LockRequest(q) \/ EndRequest(q)
         PROVE  locked' \subseteq {h \in Caller : InCall("maintenance", h)}'
    BY <1>3, <1>11 DEF LockRequest, EndRequest
  <1>12. CASE Reopen \/ BeginStop \/ Closed \/ PollLocks \/ EndStop
    BY <1>3, <1>12 DEF Reopen, BeginStop, Closed, PollLocks, EndStop, NextPhase
  <1>13. CASE UNCHANGED <<jobs, listener, work, stop, reloads>>
    BY <1>3, <1>13
  <1>14. QED
    BY <1>4, <1>5, <1>6, <1>7, <1>8, <1>9, <1>10, <1>11, <1>12, <1>13 DEF Next, Working

\* shutdown: what held a lock when the stop began, and still does.
LEMMA EarlyStep ==
  ASSUME LifecycleInv, Next
  PROVE  /\ request' \in [Request -> {"none", "locked", "done"}] /\ hasty' \in BOOLEAN
         /\ early' \subseteq Locks'
         /\ phase' \in {"running", "grace"} => early' = {}
         /\ NoLockIsCut'
  <1> DEFINE G == /\ request \in [Request -> {"none", "locked", "done"}] /\ hasty \in BOOLEAN
                  /\ early \subseteq Locks
                  /\ phase \in {"running", "grace"} => early = {}
                  /\ NoLockIsCut
  <1>1. G /\ phase # "stopped"
    BY DEF LifecycleInv, WorkOK, Next
  <1> SUFFICES G'
    OBVIOUS
  <1> USE DEF NoLockIsCut, Locks
  <1>2. CASE UNCHANGED <<work, stop>>
    BY <1>1, <1>2
  <1>3. ASSUME NEW g \in Caller, LockHost(g)
        PROVE  G'
    BY <1>1, <1>3 DEF LockHost
  <1>4. ASSUME NEW g \in Caller, UnlockHost(g)
        PROVE  G'
    BY <1>1, <1>4 DEF UnlockHost
  <1>5. ASSUME NEW j \in Job, NEW g \in Caller, FailCall(j, g)
        PROVE  G'
    <2>1. PICK held : locked' = locked \ held /\ early' = early \ held
      BY <1>5 DEF FailCall
    <2>2. UNCHANGED <<request, phase, hasty>>
      BY <1>5 DEF FailCall
    <2>3. QED
      BY <1>1, <2>1, <2>2
  <1>6. ASSUME NEW q \in Request, LockRequest(q)
        PROVE  G'
    BY <1>1, <1>6 DEF LockRequest
  <1>7. ASSUME NEW q \in Request, EndRequest(q)
        PROVE  G'
    BY <1>1, <1>7 DEF EndRequest
  <1>8. CASE BeginStop
    BY <1>1, <1>8 DEF BeginStop
  <1>9. CASE Closed
    BY <1>1, <1>9 DEF Closed, NextPhase
  <1>10. CASE PollLocks
    BY <1>1, <1>10 DEF PollLocks, NextPhase
  <1>11. CASE EndStop
    BY <1>1, <1>11 DEF EndStop, NextPhase
  <1>12. ASSUME NEW j \in Job, NEW g \in Caller, Fire(j, g) \/ EndCall(j, g)
         PROVE  G'
    BY <1>2, <1>12 DEF Fire, EndCall
  <1>13. ASSUME NEW g \in Caller, RefreshStatistics(g)
         PROVE  G'
    BY <1>2, <1>13 DEF RefreshStatistics
  <1>14. CASE Sighup \/ Reopen \/ UNCHANGED <<jobs, listener, work, stop, reloads>>
    BY <1>2, <1>14 DEF Sighup, Reopen
  <1> HIDE DEF G
  <1>15. QED
    BY <1>3, <1>4, <1>5, <1>6, <1>7, <1>8, <1>9, <1>10, <1>11, <1>12, <1>13, <1>14
    DEF Next, Working

--------------------------------------------------------------------------------
(* The statistics.                                                            *)

\* What main.py does to the statistics is a step of Statistics, nothing, or a failure
\* of something else.
LEMMA RefreshStep ==
  ASSUME LifecycleInv, Next
  PROVE  StatisticsNext \/ UNCHANGED <<day, rows, tables, busy, stage, pages, records>>
  <1> DEFINE Quiet == UNCHANGED <<day, rows, tables, busy, stage, pages, records>>
  <1> SUFFICES StatisticsNext \/ Quiet
    OBVIOUS
  <1>1. ASSUME NEW j \in Job, NEW g \in Caller, Fire(j, g) \/ EndCall(j, g) \/ FailCall(j, g)
        PROVE  StatisticsNext \/ Quiet
    <2>1. CallUpdate(g) \/ Quiet
      BY <1>1 DEF Fire, EndCall, FailCall
    <2>2. QED
      BY <2>1 DEF StatisticsNext
  <1>2. ASSUME NEW g \in Caller, RefreshStatistics(g)
        PROVE  StatisticsNext
    BY <1>2 DEF RefreshStatistics, StatisticsNext, UpdateStep
  <1>3. CASE Sighup
    <2>1. current["stats"] + 1 \in Caller
      <3>1. "stats" \in Job
        BY DEF Job
      <3>2. reloads < MaxReloads
        BY <1>3 DEF Sighup
      <3>3. current["stats"] <= reloads
        BY <3>1 DEF LifecycleInv, JobsOK
      <3>4. current["stats"] \in 0..MaxReloads /\ reloads \in 0..MaxReloads /\ MaxReloads \in Nat
        BY <3>1, JobTypes
      <3>5. current["stats"] + 1 \in 0..MaxReloads
        BY <3>2, <3>3, <3>4
      <3>6. QED
        BY <3>5
    <2>2. CallUpdate(current["stats"] + 1) \/ Quiet
      BY <1>3 DEF Sighup
    <2>3. QED
      BY <2>1, <2>2 DEF StatisticsNext
  <1>4. ASSUME NEW g \in Caller, LockHost(g) \/ UnlockHost(g)
        PROVE  Quiet
    BY <1>4 DEF LockHost, UnlockHost
  <1>5. ASSUME NEW q \in Request, LockRequest(q) \/ EndRequest(q)
        PROVE  Quiet
    BY <1>5 DEF LockRequest, EndRequest
  <1>6. CASE Reopen \/ BeginStop \/ Closed \/ PollLocks \/ EndStop
    BY <1>6 DEF Reopen, BeginStop, Closed, PollLocks, EndStop, NextPhase
  <1>7. CASE Surroundings
    BY <1>7 DEF StatisticsNext
  <1> HIDE DEF Quiet
  <1>8. QED
    BY <1>1, <1>2, <1>3, <1>4, <1>5, <1>6, <1>7 DEF Next, Working

--------------------------------------------------------------------------------
(* Theorems.                                                                  *)

LEMMA LifecycleStart ==
  Init => LifecycleInv
  <1> SUFFICES ASSUME Init PROVE LifecycleInv
    OBVIOUS
  <1>1. StatisticsInv
    BY StatisticsStart DEF Init
  <1>2. MaxReloads \in Nat /\ 0 \in Caller /\ stage = [u \in Caller |-> "idle"]
    BY DEF Init, StatisticsInit
  <1>3. JobsOK
    BY <1>2 DEF Init, JobsOK, InCall, Job
  <1>4. ListenerOK
    BY DEF Init, ListenerOK, ClosedStaysClosed
  <1>5. WorkOK
    BY DEF Init, WorkOK, Locks, NoLockIsCut
  <1>6. QED
    BY <1>1, <1>3, <1>4, <1>5 DEF LifecycleInv

LEMMA LifecycleStutter ==
  ASSUME LifecycleInv, UNCHANGED lifecycleVars
  PROVE  LifecycleInv'
  <1>1. StatisticsInv'
    BY StatisticsStep DEF LifecycleInv, lifecycleVars
  <1>2. JobsOK' /\ ListenerOK' /\ WorkOK'
    BY DEF lifecycleVars, LifecycleInv, JobsOK, ListenerOK, WorkOK, InCall, Locks, NoLockIsCut,
           ClosedStaysClosed
  <1>3. QED
    BY <1>1, <1>2 DEF LifecycleInv

THEOREM LifecycleInvariant == Spec => []LifecycleInv
  <1>1. ASSUME LifecycleInv, Next PROVE LifecycleInv'
    <2>1. StatisticsInv'
      BY <1>1, RefreshStep, StatisticsStep DEF LifecycleInv
    <2>2. JobsOK' /\ ListenerOK'
      BY <1>1, JobsStep, ListenerStep
    <2>3. WorkOK'
      BY <1>1, CallsHold, EarlyStep DEF WorkOK
    <2>4. QED
      BY <2>1, <2>2, <2>3 DEF LifecycleInv
  <1>2. LifecycleInv /\ [Next]_lifecycleVars => LifecycleInv'
    BY <1>1, LifecycleStutter
  <1>3. QED
    BY LifecycleStart, <1>2, PTL DEF Spec

\* The state has its types; maintenance locks only within its calls, and a LoopingCall
\* of the statistics is in its call as long as update_stats_cache is.
THEOREM LifecycleTypes == Spec => []TypeOK
  <1>1. LifecycleInv => TypeOK
    BY DEF LifecycleInv, StatisticsInv, JobsOK, ListenerOK, WorkOK, TypeOK
  <1>2. QED
    BY <1>1, LifecycleInvariant, PTL

\* schedule_jobs leaves a refresh of the stopped LoopingCall running and starts another
\* at once: _stats_busy keeps them apart.
THEOREM ReloadsDoNotOverlap == Spec => []UpdatesDoNotOverlap
  BY LifecycleInvariant, PTL DEF LifecycleInv, StatisticsInv

\* sighup_handler and stop_listening: no reload opens the port of a server that stops.
THEOREM StopIsFinal == Spec => []ClosedStaysClosed
  BY LifecycleInvariant, PTL DEF LifecycleInv, ListenerOK

\* shutdown waits for the locks: what held one when the port was closed has ended.
THEOREM StopWaitsForLocks == Spec => []NoLockIsCut
  BY LifecycleInvariant, PTL DEF LifecycleInv, WorkOK

\* Whatever main.py does, it drives update_stats_cache by the steps of Statistics;
\* only failures of other jobs are counted besides.
THEOREM StatisticsAreDriven ==
  Spec => [][StatisticsNext]_<<day, rows, tables, busy, stage, pages, records>>
  <1>1. LifecycleInv /\ [Next]_lifecycleVars =>
          [StatisticsNext]_<<day, rows, tables, busy, stage, pages, records>>
    BY RefreshStep DEF lifecycleVars
  <1>2. QED
    BY <1>1, LifecycleInvariant, PTL DEF Spec
================================================================================
