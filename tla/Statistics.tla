------------------------------ MODULE Statistics ------------------------------
(***************************************************************************)
(* stats.py: the refresh of the statistics (update_stats_cache), which     *)
(* fills the tables history and country_history and the cache, and the     *)
(* page that is rendered from the cache.  Time is counted in days, and all *)
(* attackers are from one country.                                         *)
(***************************************************************************)
EXTENDS Tables, FiniteSets, FiniteSetsExt

CONSTANTS
  Caller,     \* the LoopingCalls that call update_stats_cache
  Page,       \* requests of the statistics page
  NULL,       \* no cache
  EXPIRY,     \* days after which maintenance removes a report
  MaxDay,     \* bound: last day
  MaxReports, \* bound: number of reports created
  MaxTotal,   \* bound: a country's total stays there once it gets there
  MaxFaults   \* bound: number of failures

ASSUME StatisticsAssumption ==
  /\ NULL \notin Nat /\ EXPIRY \in Nat /\ MaxDay \in Nat /\ MaxReports \in Nat
  /\ MaxTotal \in Nat

VARIABLES
  day,      \* today
  reports,  \* table: id -> day of the first and of the latest report
  history,  \* table: date -> number of reports
  totals,   \* country_history: num_reports
  busy,     \* _stats_busy
  stage,    \* what the call of each caller does next
  cache,    \* _cache: the day of the last refresh, or NULL
  page,     \* what each request of the page waits for
  created,  \* number of rows of reports ever created
  active,   \* for each day, the rows that a client reported on it
  blurred,  \* for each day, those that no longer tell so before its history was filled
  skipped,  \* dates whose history could not be filled
  escaped,  \* an exception left update_stats_cache
  faults    \* number of failures so far

rows    == <<reports, created>>
tables  == <<history, totals>>
pages   == <<cache, page>>
records == <<active, blurred, skipped, escaped>>
statisticsVars == <<day, rows, tables, busy, stage, pages, records, faults>>

Day == 0..MaxDay

StatisticsInit ==
  /\ day = 0
  /\ reports = <<>> /\ history = <<>> /\ totals = 0
  /\ busy = FALSE /\ stage = [u \in Caller |-> "idle"]
  /\ cache = NULL /\ page = [p \in Page |-> "none"]
  /\ created = 0 /\ active = [d \in Day |-> {}] /\ blurred = [d \in Day |-> {}]
  /\ skipped = {} /\ escaped = FALSE /\ faults = 0

Fault == faults < MaxFaults /\ faults' = faults + 1

--------------------------------------------------------------------------------
(* The table of reports, as the requests and the maintenance job change it.   *)

\* Row r no longer tells of these dates, and their history is still to be filled.
Blur(r, dates) ==
  blurred' = [d \in Day |-> IF d \in dates \ DOMAIN history THEN blurred[d] \cup {r}
                                                            ELSE blurred[d]]

RestOfReports ==
  UNCHANGED <<day, tables, busy, stage, pages, skipped, escaped, faults>>

AddReport ==
  /\ created < MaxReports /\ created' = created + 1
  /\ reports' = InsertRow(reports, created', [first |-> day, latest |-> day])
  /\ active' = [active EXCEPT ![day] = @ \cup {created'}]
  /\ UNCHANGED blurred
  /\ RestOfReports

RefreshReport ==
  /\ \E r \in DOMAIN reports :
       /\ reports[r].latest < day
       /\ reports' = UpdateRow(reports, r, [reports[r] EXCEPT !.latest = day])
       /\ active' = [active EXCEPT ![day] = @ \cup {r}]
       /\ Blur(r, {reports[r].latest} \ {reports[r].first})
  /\ UNCHANGED created
  /\ RestOfReports

ExpireReport ==
  /\ \E r \in DOMAIN reports :
       /\ reports[r].latest < day - EXPIRY
       /\ reports' = DeleteRow(reports, r)
       /\ Blur(r, {reports[r].first, reports[r].latest})
  /\ UNCHANGED <<created, active>>
  /\ RestOfReports

ReportStep == AddReport \/ RefreshReport \/ ExpireReport

--------------------------------------------------------------------------------
(* update_stats_cache.                                                        *)

At(u, from, to) == stage[u] = from /\ stage' = [stage EXCEPT ![u] = to]

\* Mutant of CallUpdate: a caller does not notice that another one is at work.
CallAlways(u) ==
  /\ At(u, "idle", "history")
  /\ busy' = TRUE
  /\ UNCHANGED <<day, rows, tables, pages, records, faults>>

\* A call while another one is under way returns at once.
CallUpdate(u) ==
  /\ ~busy
  /\ At(u, "idle", "history")
  /\ busy' = TRUE
  /\ UNCHANGED <<day, rows, tables, pages, records, faults>>

\* update_history_txn: the reports that began or ended on a date.
Reported(date) ==
  Cardinality({r \in DOMAIN reports : date \in {reports[r].first, reports[r].latest}})

LastFilled ==
  IF history # <<>> THEN Max(DOMAIN history)
  ELSE IF reports # <<>> THEN Min({reports[r].first : r \in DOMAIN reports})
  ELSE day

\* Mutants of Unfilled: only yesterday; today as well.
OnlyYesterday == (LastFilled + 1 .. day - 1) \cap {day - 1}
TodayAsWell   == LastFilled + 1 .. day

\* The dates that update_recent_history_txn fills: up to yesterday.
Unfilled == LastFilled + 1 .. day - 1

\* update_recent_history.  An error on a date is logged and the next date is tried.
FillHistory(u) ==
  /\ At(u, "history", "country")
  /\ \E failed \in SUBSET Unfilled :
       /\ IF failed = {} THEN UNCHANGED faults ELSE Fault
       /\ history' = [d \in DOMAIN history \cup (Unfilled \ failed) |->
                        IF d \in Unfilled THEN Reported(d) ELSE history[d]]
       /\ skipped' = (skipped \cup failed) \ DOMAIN history'
  /\ UNCHANGED <<day, rows, totals, busy, pages, active, blurred, escaped>>

\* update_country_history: yesterday's new reports are added to the totals.
AddCountries(u) ==
  /\ At(u, "country", "page")
  /\ LET new == Cardinality({r \in DOMAIN reports : reports[r].first = day - 1})
     IN  totals' = Min({MaxTotal, totals + new})
  /\ UNCHANGED <<day, rows, history, busy, pages, records, faults>>

\* The numbers and graphs.
FillCache(u) ==
  /\ At(u, "page", "idle")
  /\ cache' = day
  /\ busy' = FALSE
  /\ UNCHANGED <<day, rows, tables, page, records, faults>>

\* Mutant of FailCache: the update that failed counts as under way.
FailCacheBusy(u) ==
  /\ At(u, "page", "idle")
  /\ Fault
  /\ UNCHANGED <<day, rows, tables, busy, pages, records>>

\* An error in these is logged.
FailCache(u) ==
  /\ At(u, "page", "idle")
  /\ busy' = FALSE
  /\ Fault
  /\ UNCHANGED <<day, rows, tables, pages, records>>

\* An error of the transactions before the try: _stats_busy stays set.
Escape(u) ==
  /\ At(u, "history", "idle") \/ At(u, "country", "idle")
  /\ escaped' = TRUE
  /\ Fault
  /\ UNCHANGED <<day, rows, tables, busy, pages, active, blurred, skipped>>

UpdateStep(u) == FillHistory(u) \/ AddCountries(u) \/ FillCache(u)

--------------------------------------------------------------------------------
(* render_stats.                                                              *)

Render(p, from) ==
  /\ page[p] = from
  /\ page' = [page EXCEPT ![p] = IF cache = NULL THEN "waiting" ELSE "rendered"]
  /\ UNCHANGED <<day, rows, tables, busy, stage, cache, records, faults>>

GetPage(p)  == Render(p, "none")
PollPage(p) == cache # NULL /\ Render(p, "waiting")

NextDay ==
  /\ day < MaxDay /\ day' = day + 1
  /\ UNCHANGED <<rows, tables, busy, stage, pages, records, faults>>

--------------------------------------------------------------------------------

\* What goes on besides the refresh.
Surroundings == ReportStep \/ NextDay \/ \E p \in Page : GetPage(p) \/ PollPage(p)

StatisticsNext ==
  \/ Surroundings
  \/ \E u \in Caller : CallUpdate(u) \/ UpdateStep(u) \/ FailCache(u) \/ Escape(u)

StatisticsSpec == StatisticsInit /\ [][StatisticsNext]_statisticsVars

\* The LoopingCall calls again and again, an update goes on, and a page polls.
FairStatistics ==
  /\ StatisticsSpec
  /\ \A u \in Caller : WF_statisticsVars(CallUpdate(u) \/ UpdateStep(u))
  /\ \A p \in Page : WF_statisticsVars(PollPage(p))

--------------------------------------------------------------------------------
(* Properties.                                                                *)

StatisticsTypeOK ==
  /\ day \in Day /\ DOMAIN reports \subseteq 1..created /\ created \in 0..MaxReports
  /\ \A r \in DOMAIN reports : reports[r].first <= reports[r].latest /\ reports[r].latest <= day
  /\ \A d \in DOMAIN history : d < day /\ history[d] \in 0..MaxReports
  /\ totals \in 0..MaxTotal /\ busy \in BOOLEAN /\ escaped \in BOOLEAN
  /\ stage \in [Caller -> {"idle", "history", "country", "page"}]
  /\ cache \in Day \cup {NULL} /\ page \in [Page -> {"none", "waiting", "rendered"}]
  /\ skipped \subseteq Day

\* _stats_busy keeps two refreshes from adding to the tables at the same time.
UpdatesDoNotOverlap ==
  \A u, v \in Caller : stage[u] # "idle" /\ stage[v] # "idle" => u = v

\* From the first date in the history on no date is missing, whatever days there was
\* no refresh on, except those that could not be filled when their turn came.
HistoryIsContiguous ==
  \A d, e \in DOMAIN history : d..e \subseteq DOMAIN history \cup skipped

\* The history of a date counts the reports of that date.  The only ones missing are
\* those that a client repeated, or maintenance removed, before the date was filled.
HistoryCounts ==
  \A d \in DOMAIN history :
    history[d] \in Cardinality(active[d] \ blurred[d])..Cardinality(active[d])

\* stats.py:391, the title of the graph drawn from this table: "Number of attacks per
\* country of origin": no more than there were.
TotalsCountReports == totals <= created

\* A request of the page that came before the first refresh is answered, though
\* refreshes fail, unless one of them failed outside its try.
PageIsRendered == \A p \in Page : page[p] = "waiting" ~> (page[p] = "rendered" \/ escaped)
================================================================================
