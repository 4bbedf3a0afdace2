---------------------------- MODULE StatisticsProofs ----------------------------
(***************************************************************************)
(* Theorems about Statistics, for any callers, days, reports and failures: *)
(* its types, that refreshes do not overlap, and what the history says of  *)
(* the reports.                                                            *)
(***************************************************************************)
EXTENDS Statistics, FiniteSetTheorems, WellFoundedInduction, TLAPS

USE StatisticsAssumption
USE DEF rows, tables, pages, records

--------------------------------------------------------------------------------
(* Minima and maxima.                                                         *)

\* A set of numbers that is not empty has a least element.
LEMMA MinOfNaturals ==
  ASSUME NEW S \in SUBSET Nat, S # {}
  PROVE  Min(S) \in S /\ \A x \in S : Min(S) <= x
  <1> DEFINE below == {0..k : k \in S}
  <1>1. below \subseteq FiniteSubsetsOf(Nat) /\ below # {}
    <2>1. ASSUME NEW k \in S PROVE 0..k \in FiniteSubsetsOf(Nat)
      <3>1. k \in Int /\ 0 \in Int /\ 0..k \subseteq Nat
        OBVIOUS
      <3>2. IsFiniteSet(0..k)
        BY <3>1, FS_Interval
      <3>3. QED
        BY <3>1, <3>2 DEF FiniteSubsetsOf
    <2>2. QED
      BY <2>1
  <1>2. IsWellFoundedOn(StrictSubsetOrdering(Nat), FiniteSubsetsOf(Nat))
    BY FS_StrictSubsetOrderingWellFounded
  <1>3. PICK B \in below : \A C \in below : <<C, B>> \notin StrictSubsetOrdering(Nat)
    <2> HIDE DEF below
    <2>1. QED
      BY <1>1, <1>2, WFMin
  <1>4. PICK m \in S : B = 0..m
    OBVIOUS
  <1>5. ASSUME NEW x \in S PROVE m <= x
    <2>1. SUFFICES ASSUME x < m PROVE FALSE
      OBVIOUS
    <2>2. 0..x \subseteq 0..m /\ 0..x # 0..m
      <3>1. m \in 0..m /\ m \notin 0..x
        BY <2>1
      <3>2. QED
        BY <2>1, <3>1
    <2>3. <<0..x, 0..m>> \in StrictSubsetOrdering(Nat)
      BY <2>2 DEF StrictSubsetOrdering
    <2>4. QED
      BY <1>3, <1>4, <2>3
  <1>6. QED
    BY <1>5 DEF Min

\* A set of numbers that is bounded and not empty has a greatest element.
LEMMA MaxOfBounded ==
  ASSUME NEW n \in Nat, NEW S \in SUBSET (0..n), S # {}
  PROVE  Max(S) \in S /\ \A x \in S : x <= Max(S)
  <1> DEFINE T == {n - x : x \in S}
  <1>1. T \in SUBSET Nat /\ T # {}
    <2>1. \A x \in S : x \in 0..n
      OBVIOUS
    <2>2. \A x \in 0..n : n - x \in Nat
      OBVIOUS
    <2>3. QED
      BY <2>1, <2>2
  <1>2. Min(T) \in T /\ \A t \in T : Min(T) <= t
    <2> HIDE DEF T
    <2>1. QED
      BY <1>1, MinOfNaturals
  <1>3. PICK m \in S : Min(T) = n - m
    BY <1>2
  <1>4. \A x \in S : x \in Int /\ m >= x
    <2>1. \A x \in S : x \in 0..n /\ n - m <= n - x
      BY <1>2, <1>3
    <2>2. QED
      BY <2>1
  <1>5. Max(S) \in S /\ \A x \in S : Max(S) >= x
    BY <1>4 DEF Max
  <1>6. QED
    BY <1>4, <1>5

--------------------------------------------------------------------------------
(* The inductive invariant.                                                   *)

\* What StatisticsTypeOK leaves out of the types.
RecordsOK ==
  /\ reports \in [DOMAIN reports -> [first : Day, latest : Day]]
  /\ history \in [DOMAIN history -> 0..MaxReports] /\ DOMAIN history \subseteq Day
  /\ active \in [Day -> SUBSET (1..created)]
  /\ blurred \in [Day -> SUBSET (1..created)]

\* The reports that began or ended on a date.
Telling(d) == {r \in DOMAIN reports : d \in {reports[r].first, reports[r].latest}}

\* Until a date is filled, its reports that are not blurred can still be told.
Traceable ==
  \A d \in Day \ DOMAIN history :
    Telling(d) \subseteq active[d] /\ active[d] \ blurred[d] \subseteq Telling(d)

\* An update under way has set _stats_busy.
BusyWhileUpdating == \A u \in Caller : stage[u] # "idle" => busy

StatisticsInv ==
  /\ StatisticsTypeOK /\ RecordsOK
  /\ BusyWhileUpdating /\ UpdatesDoNotOverlap
  /\ HistoryIsContiguous
  /\ Traceable /\ HistoryCounts

--------------------------------------------------------------------------------
(* Lemmas about the dates and the numbers of reports.                         *)

\* A table without rows is <<>>.
LEMMA EmptyTable ==
  ASSUME NEW f, f = [x \in DOMAIN f |-> f[x]], DOMAIN f = {}
  PROVE  f = <<>>
  OBVIOUS

\* The days up to today.
LEMMA DayType ==
  ASSUME StatisticsInv
  PROVE  day \in Nat /\ day \in Day /\ MaxDay \in Nat /\ DOMAIN history \subseteq 0..day - 1
         /\ DOMAIN history \subseteq Day
  <1>1. MaxDay \in Nat /\ day \in 0..MaxDay
    BY DEF StatisticsInv, StatisticsTypeOK, Day
  <1>2. \A d \in DOMAIN history : d \in Day /\ d < day
    BY DEF StatisticsInv, StatisticsTypeOK, RecordsOK
  <1>3. QED
    BY <1>1, <1>2 DEF Day

\* The row of a report.
LEMMA RowType ==
  ASSUME StatisticsInv, NEW r \in DOMAIN reports
  PROVE  /\ r \in 1..created /\ created \in Nat
         /\ reports[r] \in [first : Day, latest : Day]
         /\ reports[r].first \in 0..day /\ reports[r].latest \in 0..day
         /\ reports[r].first <= reports[r].latest
  <1>1. reports[r] \in [first : Day, latest : Day]
    BY DEF StatisticsInv, RecordsOK
  <1>2. reports[r].first <= reports[r].latest /\ reports[r].latest <= day
    BY Zenon DEF StatisticsInv, StatisticsTypeOK
  <1>3. r \in 1..created /\ created \in 0..MaxReports
    <2>1. DOMAIN reports \subseteq 1..created /\ created \in 0..MaxReports
      BY Zenon DEF StatisticsInv, StatisticsTypeOK
    <2>2. QED
      BY <2>1
  <1>4. reports[r].first \in 0..MaxDay /\ reports[r].latest \in 0..MaxDay
    BY <1>1 DEF Day
  <1>5. QED
    BY <1>1, <1>2, <1>3, <1>4, DayType

\* update_recent_history_txn starts after the last date that has a history, so no
\* date is filled twice.
LEMMA UnfilledType ==
  ASSUME StatisticsInv
  PROVE  /\ Unfilled \subseteq 0..day - 1 /\ Unfilled \subseteq Day
         /\ Unfilled \cap DOMAIN history = {}
         /\ LastFilled \in Int
         /\ \A d \in DOMAIN history : d <= LastFilled
  <1>1. CASE history # <<>>
    <2>1. DOMAIN history # {}
      <3>1. history = [d \in DOMAIN history |-> history[d]]
        BY DEF StatisticsInv, RecordsOK
      <3>2. QED
        BY <1>1, <3>1, EmptyTable
    <2>2. day - 1 \in Nat /\ DOMAIN history \in SUBSET (0..day - 1)
      BY <2>1, DayType
    <2>3. Max(DOMAIN history) \in DOMAIN history
          /\ \A d \in DOMAIN history : d <= Max(DOMAIN history)
      BY <2>1, <2>2, MaxOfBounded
    <2>4. LastFilled = Max(DOMAIN history)
      BY <1>1 DEF LastFilled
    <2>5. LastFilled \in 0..day - 1 /\ \A d \in DOMAIN history : d \in Int /\ d <= LastFilled
      BY <2>2, <2>3, <2>4
    <2>6. Unfilled = LastFilled + 1 .. day - 1
      BY DEF Unfilled
    <2>7. QED
      BY <2>5, <2>6, DayType DEF Day
  <1>2. CASE history = <<>>
    <2>1. DOMAIN history = {}
      BY <1>2
    <2>2. LastFilled \in Nat
      <3>1. CASE reports # <<>>
        <4>1. {reports[r].first : r \in DOMAIN reports} \in SUBSET Nat
          BY RowType, DayType
        <4>2. DOMAIN reports # {}
          <5>1. reports = [r \in DOMAIN reports |-> reports[r]]
            BY DEF StatisticsInv, RecordsOK
          <5>2. QED
            BY <3>1, <5>1, EmptyTable
        <4>3. Min({reports[r].first : r \in DOMAIN reports}) \in Nat
          BY <4>1, <4>2, MinOfNaturals
        <4>4. QED
          BY <1>2, <3>1, <4>3 DEF LastFilled
      <3>2. CASE reports = <<>>
        BY <1>2, <3>2, DayType DEF LastFilled
      <3>3. QED
        BY <3>1, <3>2
    <2>3. Unfilled = LastFilled + 1 .. day - 1
      BY DEF Unfilled
    <2>4. QED
      BY <2>1, <2>2, <2>3, DayType DEF Day
  <1>3. QED
    BY <1>1, <1>2

\* The reports of a date are finitely many, at most as many as were created.
LEMMA TellingFinite ==
  ASSUME StatisticsInv, NEW S \in SUBSET (1..created)
  PROVE  IsFiniteSet(S) /\ Cardinality(S) \in 0..MaxReports
  <1>1. created \in 0..MaxReports /\ MaxReports \in Nat
    BY DEF StatisticsInv, StatisticsTypeOK
  <1>2. IsFiniteSet(1..created) /\ Cardinality(1..created) = created
    BY <1>1, FS_Interval
  <1>3. IsFiniteSet(S) /\ Cardinality(S) <= created
    BY <1>2, FS_Subset
  <1>4. Cardinality(S) \in Nat
    BY <1>3, FS_CardinalityType
  <1>5. QED
    BY <1>1, <1>3, <1>4

\* What is counted for a date that has no history yet is between what a client
\* reported then and what of it can still be told.
LEMMA ReportedBounds ==
  ASSUME StatisticsInv, NEW d \in Day \ DOMAIN history
  PROVE  /\ Reported(d) \in Cardinality(active[d] \ blurred[d])..Cardinality(active[d])
         /\ Reported(d) \in 0..MaxReports
  <1>1. Reported(d) = Cardinality(Telling(d))
    BY DEF Reported, Telling
  <1>2. Telling(d) \subseteq active[d] /\ active[d] \ blurred[d] \subseteq Telling(d)
    BY DEF StatisticsInv, Traceable
  <1>3. active[d] \in SUBSET (1..created)
    BY DEF StatisticsInv, RecordsOK
  <1>4. /\ IsFiniteSet(active[d]) /\ Cardinality(active[d]) \in Nat
        /\ IsFiniteSet(Telling(d)) /\ Cardinality(Telling(d)) \in 0..MaxReports
        /\ Cardinality(active[d] \ blurred[d]) \in Nat
    <2>1. Telling(d) \in SUBSET (1..created) /\ active[d] \ blurred[d] \in SUBSET (1..created)
      BY <1>2, <1>3
    <2>2. MaxReports \in Nat
      OBVIOUS
    <2>3. QED
      BY <1>3, <2>1, <2>2, TellingFinite
  <1>5. Cardinality(Telling(d)) <= Cardinality(active[d])
    BY <1>2, <1>4, FS_Subset
  <1>6. Cardinality(active[d] \ blurred[d]) <= Cardinality(Telling(d))
    BY <1>2, <1>4, FS_Subset
  <1>7. QED
    BY <1>1, <1>4, <1>5, <1>6

--------------------------------------------------------------------------------
(* The steps of the table of reports.                                         *)

\* They leave alone what the refresh keeps.
LEMMA ReportsFrame ==
  ASSUME StatisticsInv, RestOfReports,
         RecordsOK', created' \in 0..MaxReports, DOMAIN reports' \subseteq 1..created',
         \A r \in DOMAIN reports' : /\ reports'[r].first <= reports'[r].latest
                                    /\ reports'[r].latest <= day,
         Traceable',
         \A d \in DOMAIN history : active'[d] = active[d] /\ blurred'[d] = blurred[d]
  PROVE  StatisticsInv'
  <1>1. StatisticsTypeOK'
    BY Zenon DEF RestOfReports, StatisticsInv, StatisticsTypeOK
  <1>2. BusyWhileUpdating' /\ UpdatesDoNotOverlap' /\ HistoryIsContiguous'
    BY Zenon DEF RestOfReports, StatisticsInv, BusyWhileUpdating, UpdatesDoNotOverlap,
                 HistoryIsContiguous
  <1>3. HistoryCounts'
    BY DEF RestOfReports, StatisticsInv, HistoryCounts
  <1>4. QED
    BY <1>1, <1>2, <1>3 DEF StatisticsInv

\* Blur leaves the dates that have a history alone, and every other one has at least
\* what it had.
LEMMA BlurType ==
  ASSUME StatisticsInv, NEW r \in DOMAIN reports, NEW dates \in SUBSET Day, Blur(r, dates)
  PROVE  /\ blurred' \in [Day -> SUBSET (1..created)]
         /\ \A d \in DOMAIN history : blurred'[d] = blurred[d]
         /\ \A d \in Day : blurred[d] \subseteq blurred'[d] /\ blurred'[d] \subseteq blurred[d] \cup {r}
         /\ \A d \in dates \ DOMAIN history : r \in blurred'[d]
  <1>1. blurred \in [Day -> SUBSET (1..created)]
    BY DEF StatisticsInv, RecordsOK
  <1>2. r \in 1..created
    BY RowType
  <1>3. \A d \in Day : blurred'[d] = IF d \in dates \ DOMAIN history THEN blurred[d] \cup {r}
                                                                     ELSE blurred[d]
    BY DEF Blur
  <1>4. blurred' \in [Day -> SUBSET (1..created)]
    <2>1. \A d \in Day : blurred'[d] \in SUBSET (1..created)
      BY <1>1, <1>2, <1>3
    <2>2. blurred' = [d \in Day |-> blurred'[d]]
      BY DEF Blur
    <2>3. QED
      BY <2>1, <2>2
  <1>5. QED
    BY <1>3, <1>4, DayType

\* A report is added: it begins and ends today.
LEMMA AddReportStep ==
  ASSUME StatisticsInv, AddReport
  PROVE  StatisticsInv'
  <1> DEFINE row == [first |-> day, latest |-> day]
  <1>1. /\ created' = created + 1 /\ created' \in 0..MaxReports /\ created \in Nat
        /\ created' \notin DOMAIN reports /\ created' \in 1..created'
    <2>1. created \in 0..MaxReports /\ created < MaxReports /\ created' = created + 1
      BY Zenon DEF AddReport, StatisticsInv, StatisticsTypeOK
    <2>2. \A r \in DOMAIN reports : r \in 1..created
      BY RowType
    <2>3. QED
      BY <2>1, <2>2
  <1>2. DOMAIN reports' = DOMAIN reports \cup {created'}
        /\ reports' = [i \in DOMAIN reports \cup {created'} |->
                          IF i = created' THEN row ELSE reports[i]]
    BY DEF AddReport, InsertRow
  <1>3. \A r \in DOMAIN reports : reports'[r] = reports[r]
    BY <1>1, <1>2
  <1>4. reports'[created'] = row
    BY <1>2
  <1>5. row \in [first : Day, latest : Day] /\ row.first = day /\ row.latest = day
    BY DayType
  <1>6. active' = [active EXCEPT ![day] = @ \cup {created'}] /\ blurred' = blurred
        /\ history' = history
    BY DEF AddReport, RestOfReports
  <1>7. active \in [Day -> SUBSET (1..created)] /\ blurred \in [Day -> SUBSET (1..created)]
    BY DEF StatisticsInv, RecordsOK
  <1>8. 1..created \subseteq 1..created'
    BY <1>1
  <1> HIDE DEF row
  <1>9. /\ active'[day] = active[day] \cup {created'}
        /\ \A d \in Day \ {day} : active'[d] = active[d]
    BY <1>6, <1>7, DayType
  <1>10. active' \in [Day -> SUBSET (1..created')] /\ blurred' \in [Day -> SUBSET (1..created')]
    BY <1>1, <1>6, <1>7, <1>8
  <1>11. RecordsOK'
    <2>1. \A r \in DOMAIN reports' : reports'[r] \in [first : Day, latest : Day]
      BY <1>2, <1>3, <1>4, <1>5, RowType
    <2>2. reports' \in [DOMAIN reports' -> [first : Day, latest : Day]]
      BY <1>2, <2>1
    <2>3. history' \in [DOMAIN history' -> 0..MaxReports] /\ DOMAIN history' \subseteq Day
      BY <1>6 DEF StatisticsInv, RecordsOK
    <2>4. QED
      BY <1>10, <2>2, <2>3 DEF RecordsOK
  <1>12. \A r \in DOMAIN reports' : r \in 1..created' /\ reports'[r].first <= reports'[r].latest
                                    /\ reports'[r].latest <= day
    <2>1. \A r \in DOMAIN reports : r \in 1..created' /\ reports[r].first <= reports[r].latest
                                     /\ reports[r].latest <= day
      BY <1>8, RowType, DayType
    <2>2. QED
      BY <1>1, <1>2, <1>3, <1>4, <1>5, <2>1, DayType
  <1>13. Traceable'
    <2>1. SUFFICES ASSUME NEW d \in Day \ DOMAIN history
                   PROVE  /\ Telling(d)' \subseteq active'[d]
                          /\ active'[d] \ blurred[d] \subseteq Telling(d)'
      BY <1>6 DEF Traceable
    <2>2. Telling(d) \subseteq active[d] /\ active[d] \ blurred[d] \subseteq Telling(d)
      BY DEF StatisticsInv, Traceable
    <2>3. Telling(d)' = Telling(d) \cup (IF d = day THEN {created'} ELSE {})
      BY <1>1, <1>2, <1>3, <1>4, <1>5 DEF Telling
    <2>4. QED
      BY <1>9, <2>2, <2>3
  <1>14. \A d \in DOMAIN history : active'[d] = active[d] /\ blurred'[d] = blurred[d]
    <2>1. \A d \in DOMAIN history : d \in Day \ {day}
      BY DayType
    <2>2. QED
      BY <1>6, <1>9, <2>1
  <1>15. RestOfReports
    BY DEF AddReport
  <1>16. QED
    BY <1>1, <1>11, <1>12, <1>13, <1>14, <1>15, ReportsFrame

\* A report is repeated: it ends today, and no longer on the date it ended on.
LEMMA RefreshReportStep ==
  ASSUME StatisticsInv, RefreshReport
  PROVE  StatisticsInv'
  <1>1. PICK r \in DOMAIN reports :
          /\ reports[r].latest < day
          /\ reports' = UpdateRow(reports, r, [reports[r] EXCEPT !.latest = day])
          /\ active' = [active EXCEPT ![day] = @ \cup {r}]
          /\ Blur(r, {reports[r].latest} \ {reports[r].first})
    BY DEF RefreshReport
  <1>2. created' = created /\ RestOfReports /\ history' = history
    BY DEF RefreshReport, RestOfReports
  <1>3. /\ reports[r] \in [first : Day, latest : Day] /\ r \in 1..created
        /\ reports[r].first \in 0..day /\ reports[r].first \in Day /\ reports[r].latest \in Day
    BY RowType
  <1> DEFINE first == reports[r].first
             last == reports[r].latest
             row == [reports[r] EXCEPT !.latest = day]
  <1>4. row \in [first : Day, latest : Day] /\ row.first = first /\ row.latest = day
    BY <1>3, DayType
  <1> HIDE DEF row
  <1>5. DOMAIN reports' = DOMAIN reports /\ reports'[r] = row
        /\ (\A s \in DOMAIN reports \ {r} : reports'[s] = reports[s])
        /\ reports' = [s \in DOMAIN reports |-> IF s = r THEN row ELSE reports[s]]
    BY <1>1 DEF UpdateRow, row
  <1>6. active \in [Day -> SUBSET (1..created)]
    BY DEF StatisticsInv, RecordsOK
  <1>7. /\ active' \in [Day -> SUBSET (1..created)]
        /\ active'[day] = active[day] \cup {r}
        /\ \A d \in Day \ {day} : active'[d] = active[d]
    BY <1>1, <1>3, <1>6, DayType
  <1>8. /\ blurred' \in [Day -> SUBSET (1..created)]
        /\ \A d \in DOMAIN history : blurred'[d] = blurred[d]
        /\ \A d \in Day : blurred[d] \subseteq blurred'[d]
        /\ \A d \in ({last} \ {first}) \ DOMAIN history : r \in blurred'[d]
    BY <1>1, <1>3, BlurType
  <1>9. \A s \in DOMAIN reports' : reports'[s] \in [first : Day, latest : Day]
    BY <1>4, <1>5, RowType
  <1>10. RecordsOK'
    <2>1. reports' \in [DOMAIN reports' -> [first : Day, latest : Day]]
      <3>1. reports' \in [DOMAIN reports -> [first : Day, latest : Day]]
        <4>1. \A s \in DOMAIN reports : reports[s] \in [first : Day, latest : Day]
          BY RowType
        <4>2. QED
          BY <1>4, <1>5, <4>1
      <3>2. QED
        BY <1>5, <3>1
    <2>2. history' \in [DOMAIN history' -> 0..MaxReports] /\ DOMAIN history' \subseteq Day
      BY <1>2 DEF StatisticsInv, RecordsOK
    <2>3. QED
      BY <1>2, <1>7, <1>8, <2>1, <2>2 DEF RecordsOK
  <1>11. \A s \in DOMAIN reports' : s \in 1..created /\ reports'[s].first <= reports'[s].latest
                                    /\ reports'[s].latest <= day
    <2>1. row.first <= row.latest /\ row.latest <= day
      BY <1>3, <1>4, DayType
    <2>2. \A s \in DOMAIN reports : s \in 1..created /\ reports[s].first <= reports[s].latest
                                     /\ reports[s].latest <= day
      BY RowType, DayType
    <2>3. QED
      BY <1>3, <1>5, <2>1, <2>2
  <1>12. Traceable'
    <2>1. SUFFICES ASSUME NEW d \in Day \ DOMAIN history
                   PROVE  /\ Telling(d)' \subseteq active'[d]
                          /\ active'[d] \ blurred'[d] \subseteq Telling(d)'
      BY <1>2 DEF Traceable
    <2>2. Telling(d) \subseteq active[d] /\ active[d] \ blurred[d] \subseteq Telling(d)
      BY DEF StatisticsInv, Traceable
    <2>3. \A s : s # r => (s \in Telling(d)' <=> s \in Telling(d))
      BY <1>5 DEF Telling
    <2>4. /\ r \in Telling(d)' <=> d \in {first, day}
          /\ r \in Telling(d) <=> d \in {first, last}
      BY <1>4, <1>5 DEF Telling
    <2>5. active[d] \subseteq active'[d] /\ active'[d] \subseteq active[d] \cup {r}
          /\ (d = day => r \in active'[d]) /\ (d # day => active'[d] = active[d])
      BY <1>7
    <2>6. d = last /\ d # first => r \in blurred'[d]
      BY <1>8
    <2>7. blurred[d] \subseteq blurred'[d]
      BY <1>8
    <2>8. Telling(d)' \subseteq active'[d]
      BY <2>2, <2>3, <2>4, <2>5
    <2>9. active'[d] \ blurred'[d] \subseteq Telling(d)'
      BY <2>2, <2>3, <2>4, <2>5, <2>6, <2>7
    <2>10. QED
      BY <2>8, <2>9
  <1>13. \A d \in DOMAIN history : active'[d] = active[d]
    <2>1. \A d \in DOMAIN history : d \in Day \ {day}
      BY DayType
    <2>2. QED
      BY <1>7, <2>1
  <1>14. created' \in 0..MaxReports /\ DOMAIN reports' \subseteq 1..created'
    BY Zenon, <1>2, <1>5 DEF StatisticsInv, StatisticsTypeOK
  <1>15. QED
    BY <1>2, <1>8, <1>10, <1>11, <1>12, <1>13, <1>14, ReportsFrame

\* Maintenance removes a report.
LEMMA ExpireReportStep ==
  ASSUME StatisticsInv, ExpireReport
  PROVE  StatisticsInv'
  <1>1. PICK r \in DOMAIN reports :
          /\ reports' = DeleteRow(reports, r)
          /\ Blur(r, {reports[r].first, reports[r].latest})
    BY DEF ExpireReport
  <1>2. created' = created /\ active' = active /\ RestOfReports /\ history' = history
    BY DEF ExpireReport, RestOfReports
  <1>3. reports[r].first \in Day /\ reports[r].latest \in Day
    BY RowType
  <1>4. DOMAIN reports' = DOMAIN reports \ {r}
        /\ (\A s \in DOMAIN reports \ {r} : reports'[s] = reports[s])
        /\ reports' = [s \in DOMAIN reports \ {r} |-> reports[s]]
    BY <1>1 DEF DeleteRow, Restrict
  <1>5. active \in [Day -> SUBSET (1..created)]
    BY DEF StatisticsInv, RecordsOK
  <1>6. /\ blurred' \in [Day -> SUBSET (1..created)]
        /\ \A d \in DOMAIN history : blurred'[d] = blurred[d]
        /\ \A d \in Day : blurred[d] \subseteq blurred'[d]
        /\ \A d \in {reports[r].first, reports[r].latest} \ DOMAIN history : r \in blurred'[d]
    BY <1>1, <1>3, BlurType
  <1>7. RecordsOK'
    <2>1. \A s \in DOMAIN reports \ {r} : reports[s] \in [first : Day, latest : Day]
      BY RowType
    <2>2. reports' \in [DOMAIN reports' -> [first : Day, latest : Day]]
      <3>1. reports' \in [DOMAIN reports \ {r} -> [first : Day, latest : Day]]
        BY <1>4, <2>1
      <3>2. QED
        BY <1>4, <3>1
    <2>3. history' \in [DOMAIN history' -> 0..MaxReports] /\ DOMAIN history' \subseteq Day
      BY <1>2 DEF StatisticsInv, RecordsOK
    <2>4. QED
      BY <1>2, <1>5, <1>6, <2>2, <2>3 DEF RecordsOK
  <1>8. \A s \in DOMAIN reports' : s \in 1..created /\ reports'[s].first <= reports'[s].latest
                                    /\ reports'[s].latest <= day
    BY <1>4, RowType, DayType
  <1>9. Traceable'
    <2>1. SUFFICES ASSUME NEW d \in Day \ DOMAIN history
                   PROVE  /\ Telling(d)' \subseteq active[d]
                          /\ active[d] \ blurred'[d] \subseteq Telling(d)'
      BY <1>2 DEF Traceable
    <2>2. Telling(d) \subseteq active[d] /\ active[d] \ blurred[d] \subseteq Telling(d)
      BY DEF StatisticsInv, Traceable
    <2>3. Telling(d)' = Telling(d) \ {r}
      BY <1>4 DEF Telling
    <2>4. r \in Telling(d) => r \in blurred'[d]
      BY <1>6 DEF Telling
    <2>5. blurred[d] \subseteq blurred'[d]
      BY <1>6
    <2>6. QED
      BY <2>2, <2>3, <2>4, <2>5
  <1>10. created' \in 0..MaxReports /\ DOMAIN reports' \subseteq 1..created'
    <2>1. created \in 0..MaxReports
      BY Zenon DEF StatisticsInv, StatisticsTypeOK
    <2>2. QED
      BY <1>2, <1>8, <2>1
  <1>11. QED
    BY <1>2, <1>6, <1>7, <1>8, <1>9, <1>10, ReportsFrame

--------------------------------------------------------------------------------
(* The steps of update_stats_cache.                                           *)

\* The dates that are filled get a history; the earlier ones keep theirs.
LEMMA FillHistoryStep ==
  ASSUME StatisticsInv, NEW u \in Caller, FillHistory(u)
  PROVE  StatisticsInv'
  <1>1. PICK failed \in SUBSET Unfilled :
          /\ history' = [d \in DOMAIN history \cup (Unfilled \ failed) |->
                           IF d \in Unfilled THEN Reported(d) ELSE history[d]]
          /\ skipped' = (skipped \cup failed) \ DOMAIN history'
    BY DEF FillHistory
  <1>2. /\ day' = day /\ reports' = reports /\ created' = created /\ totals' = totals
        /\ busy' = busy /\ cache' = cache /\ page' = page
        /\ active' = active /\ blurred' = blurred /\ escaped' = escaped
        /\ stage[u] = "history" /\ stage' = [stage EXCEPT ![u] = "country"]
    BY DEF FillHistory, At
  <1>3. stage \in [Caller -> {"idle", "history", "country", "page"}]
    BY Zenon DEF StatisticsInv, StatisticsTypeOK
  <1>4. /\ Unfilled \subseteq 0..day - 1 /\ Unfilled \subseteq Day
        /\ Unfilled \cap DOMAIN history = {}
    BY UnfilledType
  <1>5. /\ DOMAIN history' = DOMAIN history \cup (Unfilled \ failed)
        /\ \A d \in DOMAIN history : history'[d] = history[d]
        /\ \A d \in Unfilled \ failed : history'[d] = Reported(d)
    BY <1>1, <1>4
  <1>6. \A d \in Unfilled :
          /\ Reported(d) \in Cardinality(active[d] \ blurred[d])..Cardinality(active[d])
          /\ Reported(d) \in 0..MaxReports
    BY <1>4, ReportedBounds
  <1>7. history \in [DOMAIN history -> 0..MaxReports] /\ DOMAIN history \subseteq Day
    BY DEF StatisticsInv, RecordsOK
  <1>8. \A d \in DOMAIN history' : d \in Day /\ d < day /\ history'[d] \in 0..MaxReports
    <2>1. \A d \in 0..day - 1 : d < day
      BY DayType
    <2>2. QED
      BY <1>4, <1>5, <1>6, <1>7, <2>1, DayType
  <1>9. RecordsOK'
    <2>1. history' = [d \in DOMAIN history' |-> history'[d]]
      BY <1>1
    <2>2. history' \in [DOMAIN history' -> 0..MaxReports] /\ DOMAIN history' \subseteq Day
      BY <1>8, <2>1
    <2>3. QED
      BY <1>2, <2>2 DEF StatisticsInv, RecordsOK
  <1>10. skipped' \subseteq Day
    <2>1. skipped \subseteq Day
      BY Zenon DEF StatisticsInv, StatisticsTypeOK
    <2>2. QED
      BY <1>1, <1>4, <2>1
  <1>11. stage' \in [Caller -> {"idle", "history", "country", "page"}]
         /\ \A v \in Caller : stage'[v] # "idle" <=> stage[v] # "idle"
    BY <1>2, <1>3
  <1>12. StatisticsTypeOK'
    <2>1. \A d \in DOMAIN history' : d < day /\ history'[d] \in 0..MaxReports
      BY <1>8
    <2>2. QED
      BY Zenon, <1>2, <1>10, <1>11, <2>1 DEF StatisticsInv, StatisticsTypeOK
  <1>13. BusyWhileUpdating' /\ UpdatesDoNotOverlap'
    BY <1>2, <1>11 DEF StatisticsInv, BusyWhileUpdating, UpdatesDoNotOverlap
  <1>14. HistoryIsContiguous'
    <2>1. SUFFICES ASSUME NEW d \in DOMAIN history', NEW e \in DOMAIN history', NEW f \in d..e
                   PROVE  f \in DOMAIN history' \cup skipped'
      BY DEF HistoryIsContiguous
    <2>2. f \in Int /\ d \in Int /\ e \in Int /\ day \in Int
          /\ d <= f /\ f <= e /\ f < day /\ LastFilled \in Int
      BY <1>8, DayType, UnfilledType DEF Day
    <2>3. CASE f \in DOMAIN history \cup skipped \cup Unfilled
      BY <1>1, <1>5, <2>3
    <2>4. CASE f \notin Unfilled
      <3>1. f <= LastFilled
        BY <2>2, <2>4 DEF Unfilled
      <3>2. d \notin Unfilled
        BY <2>2, <3>1 DEF Unfilled
      <3>3. d \in DOMAIN history
        BY <1>5, <3>2
      <3>4. CASE e \in DOMAIN history
        BY <2>3, <3>3, <3>4 DEF StatisticsInv, HistoryIsContiguous
      <3>5. CASE history # <<>>
        <4>1. LastFilled \in DOMAIN history
          <5>1. DOMAIN history \in SUBSET (0..day - 1) /\ day - 1 \in Nat
            BY <3>3, DayType
          <5>2. Max(DOMAIN history) \in DOMAIN history
            BY <3>3, <5>1, MaxOfBounded
          <5>3. QED
            BY <3>5, <5>2 DEF LastFilled
        <4>2. f \in d..LastFilled
          BY <2>2, <3>1
        <4>3. QED
          BY <2>3, <3>3, <4>1, <4>2 DEF StatisticsInv, HistoryIsContiguous
      <3>6. QED
        BY <3>3, <3>5
    <2>5. QED
      BY <2>3, <2>4
  <1>15. Traceable'
    <2>1. \A d : Telling(d)' = Telling(d)
      BY <1>2 DEF Telling
    <2>2. QED
      BY <1>2, <1>5, <2>1 DEF StatisticsInv, Traceable
  <1>16. HistoryCounts'
    BY <1>2, <1>5, <1>6 DEF StatisticsInv, HistoryCounts
  <1>17. QED
    BY <1>9, <1>12, <1>13, <1>14, <1>15, <1>16 DEF StatisticsInv

\* The total of the country stays within its bound.
LEMMA AddCountriesStep ==
  ASSUME StatisticsInv, NEW u \in Caller, AddCountries(u)
  PROVE  StatisticsInv'
  <1> DEFINE new == Cardinality({r \in DOMAIN reports : reports[r].first = day - 1})
  <1>1. totals' = Min({MaxTotal, totals + new})
    BY DEF AddCountries
  <1>2. UNCHANGED <<day, rows, history, busy, pages, records>>
        /\ stage[u] = "country" /\ stage' = [stage EXCEPT ![u] = "page"]
    BY DEF AddCountries, At
  <1>3. new \in Nat
    <2>1. {r \in DOMAIN reports : reports[r].first = day - 1} \in SUBSET (1..created)
      BY RowType
    <2>2. QED
      BY <2>1, TellingFinite
  <1>4. totals \in 0..MaxTotal
    BY Zenon DEF StatisticsInv, StatisticsTypeOK
  <1> HIDE DEF new
  <1>5. {MaxTotal, totals + new} \in SUBSET Nat
    BY <1>3, <1>4
  <1>6. totals' \in 0..MaxTotal
    <2>1. totals' \in Nat /\ totals' <= MaxTotal
      BY <1>1, <1>5, MinOfNaturals
    <2>2. QED
      BY <2>1
  <1>7. stage \in [Caller -> {"idle", "history", "country", "page"}]
    BY Zenon DEF StatisticsInv, StatisticsTypeOK
  <1>8. stage' \in [Caller -> {"idle", "history", "country", "page"}]
        /\ \A v \in Caller : stage'[v] # "idle" <=> stage[v] # "idle"
    BY <1>2, <1>7
  <1>9. StatisticsTypeOK'
    BY Zenon, <1>2, <1>6, <1>8 DEF StatisticsInv, StatisticsTypeOK
  <1>10. BusyWhileUpdating' /\ UpdatesDoNotOverlap'
    BY <1>2, <1>8 DEF StatisticsInv, BusyWhileUpdating, UpdatesDoNotOverlap
  <1>11. RecordsOK' /\ HistoryIsContiguous' /\ Traceable' /\ HistoryCounts'
    BY Zenon, <1>2 DEF StatisticsInv, RecordsOK, HistoryIsContiguous, Traceable, Telling, HistoryCounts
  <1>12. QED
    BY <1>9, <1>10, <1>11 DEF StatisticsInv

\* Starting and ending a refresh, whether it fails or not: what may overlap changes,
\* the tables do not.
LEMMA ControlStep ==
  ASSUME StatisticsInv, NEW u \in Caller,
         CallUpdate(u) \/ FillCache(u) \/ FailCache(u) \/ Escape(u)
  PROVE  StatisticsInv'
  <1>1. UNCHANGED <<day, rows, tables, page, active, blurred, skipped>>
    BY DEF CallUpdate, FillCache, FailCache, Escape
  <1>2. stage \in [Caller -> {"idle", "history", "country", "page"}]
        /\ busy \in BOOLEAN /\ cache \in Day \cup {NULL} /\ escaped \in BOOLEAN
    BY Zenon DEF StatisticsInv, StatisticsTypeOK
  <1>3. \/ ~busy /\ busy' = TRUE /\ stage' = [stage EXCEPT ![u] = "history"]
        \/ stage' = [stage EXCEPT ![u] = "idle"] /\ stage[u] # "idle" /\ busy' = FALSE
        \/ stage' = [stage EXCEPT ![u] = "idle"] /\ stage[u] # "idle" /\ busy' = busy
    BY DEF CallUpdate, FillCache, FailCache, Escape, At
  <1>4. stage' \in [Caller -> {"idle", "history", "country", "page"}] /\ busy' \in BOOLEAN
    BY <1>2, <1>3
  <1>5. cache' \in Day \cup {NULL} /\ escaped' \in BOOLEAN
    BY <1>2, DayType DEF CallUpdate, FillCache, FailCache, Escape
  <1>6. StatisticsTypeOK'
    BY Zenon, <1>1, <1>4, <1>5 DEF StatisticsInv, StatisticsTypeOK
  <1>7. BusyWhileUpdating' /\ UpdatesDoNotOverlap'
    BY <1>2, <1>3 DEF StatisticsInv, BusyWhileUpdating, UpdatesDoNotOverlap
  <1>8. RecordsOK' /\ HistoryIsContiguous' /\ Traceable' /\ HistoryCounts'
    BY Zenon, <1>1 DEF StatisticsInv, RecordsOK, HistoryIsContiguous, Traceable, Telling, HistoryCounts
  <1>9. QED
    BY <1>6, <1>7, <1>8 DEF StatisticsInv

\* A new day, and the page.
LEMMA DayOrPageStep ==
  ASSUME StatisticsInv, NextDay \/ \E p \in Page : GetPage(p) \/ PollPage(p)
  PROVE  StatisticsInv'
  <1>1. UNCHANGED <<rows, tables, busy, stage, cache, records>>
    BY DEF NextDay, GetPage, PollPage, Render
  <1>2. page \in [Page -> {"none", "waiting", "rendered"}]
    BY Zenon DEF StatisticsInv, StatisticsTypeOK
  <1>3. page' \in [Page -> {"none", "waiting", "rendered"}]
    BY <1>2 DEF NextDay, GetPage, PollPage, Render
  <1>4. day' \in Day /\ day <= day'
    BY DayType DEF NextDay, GetPage, PollPage, Render, Day
  <1>5. /\ \A r \in DOMAIN reports : /\ reports[r].first <= reports[r].latest
                                     /\ reports[r].latest <= day'
        /\ \A d \in DOMAIN history : d < day' /\ history[d] \in 0..MaxReports
    <2>1. \A r \in DOMAIN reports : /\ reports[r].first \in Int /\ reports[r].latest \in 0..day
                                    /\ reports[r].first <= reports[r].latest
      BY RowType
    <2>2. history \in [DOMAIN history -> 0..MaxReports]
      BY DEF StatisticsInv, RecordsOK
    <2>3. QED
      BY <1>4, <2>1, <2>2, DayType DEF Day
  <1>6. StatisticsTypeOK'
    BY Zenon, <1>1, <1>3, <1>4, <1>5 DEF StatisticsInv, StatisticsTypeOK
  <1>7. /\ BusyWhileUpdating' /\ UpdatesDoNotOverlap'
        /\ RecordsOK' /\ HistoryIsContiguous' /\ Traceable' /\ HistoryCounts'
    BY Zenon, <1>1 DEF StatisticsInv, BusyWhileUpdating, UpdatesDoNotOverlap, RecordsOK,
                       HistoryIsContiguous, Traceable, Telling, HistoryCounts
  <1>8. QED
    BY <1>6, <1>7 DEF StatisticsInv

--------------------------------------------------------------------------------
(* Theorems.                                                                  *)

LEMMA StatisticsStart ==
  StatisticsInit => StatisticsInv
  <1> SUFFICES ASSUME StatisticsInit PROVE StatisticsInv
    OBVIOUS
  <1> USE DEF StatisticsInit
  <1>1. DOMAIN reports = {} /\ DOMAIN history = {}
    OBVIOUS
  <1>2. 0 \in Day /\ 0 \in 0..MaxReports /\ 0 \in 0..MaxTotal
    BY DEF Day
  <1>3. StatisticsTypeOK
    BY <1>1, <1>2 DEF StatisticsTypeOK
  <1>4. RecordsOK
    BY <1>1, <1>2 DEF RecordsOK
  <1>5. BusyWhileUpdating /\ UpdatesDoNotOverlap
    BY DEF BusyWhileUpdating, UpdatesDoNotOverlap
  <1>6. HistoryIsContiguous /\ HistoryCounts
    BY <1>1 DEF HistoryIsContiguous, HistoryCounts
  <1>7. Traceable
    BY <1>1 DEF Traceable, Telling
  <1>8. QED
    BY <1>3, <1>4, <1>5, <1>6, <1>7 DEF StatisticsInv

\* Every step keeps the invariant, and so does a failure of something else.
LEMMA StatisticsStep ==
  ASSUME StatisticsInv,
         StatisticsNext \/ UNCHANGED <<day, rows, tables, busy, stage, pages, records>>
  PROVE  StatisticsInv'
  <1>1. CASE UNCHANGED <<day, rows, tables, busy, stage, pages, records>>
    BY Zenon, <1>1
    DEF StatisticsInv, StatisticsTypeOK, BusyWhileUpdating, UpdatesDoNotOverlap, RecordsOK,
        HistoryIsContiguous, Traceable, Telling, HistoryCounts
  <1>2. CASE ReportStep
    BY <1>2, AddReportStep, RefreshReportStep, ExpireReportStep DEF ReportStep
  <1>3. CASE NextDay \/ \E p \in Page : GetPage(p) \/ PollPage(p)
    BY <1>3, DayOrPageStep
  <1>4. ASSUME NEW u \in Caller, CallUpdate(u) \/ UpdateStep(u) \/ FailCache(u) \/ Escape(u)
        PROVE  StatisticsInv'
    <2>1. CASE FillHistory(u)
      BY <2>1, FillHistoryStep
    <2>2. CASE AddCountries(u)
      BY <2>2, AddCountriesStep
    <2>3. CASE CallUpdate(u) \/ FillCache(u) \/ FailCache(u) \/ Escape(u)
      BY <2>3, ControlStep
    <2>4. QED
      BY <1>4, <2>1, <2>2, <2>3 DEF UpdateStep
  <1>5. QED
    BY <1>1, <1>2, <1>3, <1>4 DEF StatisticsNext, Surroundings

THEOREM StatisticsInvariant == StatisticsSpec => []StatisticsInv
  <1>1. StatisticsInv /\ [StatisticsNext]_statisticsVars => StatisticsInv'
    BY StatisticsStep DEF statisticsVars
  <1>2. QED
    BY StatisticsStart, <1>1, PTL DEF StatisticsSpec

\* stats.py: _stats_busy is set and tested without an await between, so that two
\* refreshes are never under way, whatever fails.
THEOREM RefreshesExclude == StatisticsSpec => []UpdatesDoNotOverlap
  BY StatisticsInvariant, PTL DEF StatisticsInv

\* update_recent_history_txn: catching up from the last date leaves no gap but the
\* dates whose transaction failed.
THEOREM HistoryHasNoGaps == StatisticsSpec => []HistoryIsContiguous
  BY StatisticsInvariant, PTL DEF StatisticsInv

\* update_history_txn: what it counts for a date is what clients reported on it, less
\* at most the reports that were repeated or removed before their date was filled.
THEOREM HistoryIsAccurate == StatisticsSpec => []HistoryCounts
  BY StatisticsInvariant, PTL DEF StatisticsInv
================================================================================
