---------------------------- MODULE SchemaEvolution ----------------------------
(***************************************************************************)
(* database.py: the commands --recreate-database and --evolve-database,    *)
(* which run while the server is down and may be killed at any statement.  *)
(*                                                                         *)
(* A statement that creates, alters or drops something (DDL) commits what  *)
(* the transaction did before it and is permanent at once, with MySQL as   *)
(* with Python's sqlite3.  INSERTs and UPDATEs wait for the next of these  *)
(* commits, or for the end of the transaction.                             *)
(***************************************************************************)
EXTENDS Integers, Sequences, FiniteSets, Functions

CONSTANTS
  NULL,       \* no version
  MaxRuns,    \* bound: number of commands
  MaxCrashes  \* bound: how often a command is killed

ASSUME EvolutionAssumption ==
  NULL \notin Int /\ MaxRuns \in Nat /\ MaxCrashes \in Nat

VARIABLES
  objects,  \* tables, and the columns and indexes that a later step adds or drops
  version,  \* info: schema_version; NULL when there is no such row
  unsaved,  \* the same, as the transaction sees it
  mode,     \* the command that runs
  pc,       \* what it does next
  step,     \* current_version
  stmt,     \* DDL statements of the step that are done
  damaged,  \* a command was killed, and the tables were not recreated since
  runs,     \* number of commands so far
  crashes   \* number of kills so far

schema == <<objects, version, unsaved>>
place  == <<step, stmt>>
bounds == <<runs, crashes>>
evolutionVars == <<schema, mode, pc, place, damaged, bounds>>

\* _evolve_database_initial and _evolutions: the DDL of each step.  An index that no
\* other step touches stands and falls with its table and is left out.
Script == [k \in 0..8 |->
  CASE k = 0 -> <<<<"create", "crackers">>, <<"create", "reports">>,
                  <<"create", "report_cracker_ip">>, <<"create", "legacy">>>>
    [] k = 1 -> <<<<"create", "info">>>>
    [] k = 2 -> <<<<"create", "resiliency">>, <<"create", "cracker_qual">>>>
    [] k = 3 -> <<<<"drop", "cracker_qual">>, <<"create", "cracker_qual">>>>
    [] k = 4 -> <<<<"create", "report_latest">>>>
    [] k = 5 -> <<<<"drop", "report_cracker_ip">>, <<"create", "report_cracker_ip">>>>
    [] k = 6 -> <<>>
    [] k = 7 -> <<<<"create", "history">>>>
    [] k = 8 -> <<<<"create", "country_history">>>>]

\* What goes with a table.
Parts(table) ==
  {table} \cup CASE table = "crackers" -> {"resiliency", "cracker_qual"}
                 [] table = "reports"  -> {"report_cracker_ip", "report_latest"}
                 [] OTHER              -> {}

Latest == 8  \* _schema_version

\* The objects of a database at version v.
Whole(v) == {s[2] : s \in UNION {Range(Script[k]) : k \in 0..v}}

\* An empty database, or one that some earlier release left behind.
EvolutionInit ==
  /\ \/ objects = {} /\ version = NULL
     \/ \E v \in 1..Latest : objects = Whole(v) /\ version = v
  /\ unsaved = version
  /\ mode = "none" /\ pc = "off" /\ step = 0 /\ stmt = 0
  /\ damaged = FALSE /\ runs = 0 /\ crashes = 0

--------------------------------------------------------------------------------

\* A transaction begins.
Begin(label) == pc' = label /\ step' = 0 /\ stmt' = 0

Command(name, label) ==
  /\ mode = "none" /\ runs < MaxRuns
  /\ runs' = runs + 1
  /\ mode' = name /\ Begin(label)
  /\ UNCHANGED <<schema, damaged, crashes>>

Evolve   == Command("evolve", "select")
Recreate == Command("recreate", "drop")

\* Mutant of Dropped: the table added last is not in the list.
DroppedBefore == <<"info", "crackers", "reports", "legacy", "history">>

\* _remove_tables.
Dropped == <<"info", "crackers", "reports", "legacy", "history", "country_history">>

DropTable ==
  /\ pc = "drop"
  /\ IF stmt < Len(Dropped)
     THEN /\ objects' = objects \ Parts(Dropped[stmt + 1])
          /\ version' = IF stmt = 0 THEN NULL ELSE version
          /\ stmt' = stmt + 1
          /\ UNCHANGED <<pc, step, damaged>>
     ELSE /\ Begin("select") /\ damaged' = FALSE
          /\ UNCHANGED <<objects, version>>
  /\ unsaved' = version'
  /\ UNCHANGED <<mode, bounds>>

\* Mutant of NextStep: starts with the step the database is at.
SameStep == IF version = NULL THEN 0 ELSE version

\* Without an info table, or without the row in it, the initial tables come first.
NextStep == IF version = NULL THEN 0 ELSE version + 1

SelectVersion ==
  /\ pc = "select"
  /\ pc' = IF NextStep > Latest THEN "commit" ELSE "ddl"
  /\ step' = NextStep
  /\ UNCHANGED <<schema, mode, stmt, damaged, bounds>>

\* A statement refuses to create what is there, or to drop what is not.
Refused(s) == (s[1] = "create") = (s[2] \in objects)

ExecuteDdl ==
  /\ pc = "ddl" /\ stmt < Len(Script[step])
  /\ LET s == Script[step][stmt + 1] IN
       /\ ~Refused(s)
       /\ objects' = IF s[1] = "create" THEN objects \cup {s[2]} ELSE objects \ {s[2]}
  /\ version' = unsaved
  /\ stmt' = stmt + 1
  /\ UNCHANGED <<unsaved, mode, pc, step, damaged, bounds>>

\* The command ends with an error; the transaction is rolled back.
Quit ==
  /\ mode' = "none" /\ pc' = "off" /\ step' = 0 /\ stmt' = 0
  /\ unsaved' = version
  /\ UNCHANGED <<objects, version>>

FailDdl ==
  /\ pc = "ddl" /\ stmt < Len(Script[step])
  /\ Refused(Script[step][stmt + 1])
  /\ Quit
  /\ UNCHANGED <<damaged, bounds>>

\* Mutant of EndStep: the version is written when all steps are done.
EndAllSteps ==
  /\ pc = "ddl" /\ stmt = Len(Script[step])
  /\ unsaved' = IF step = 1 \/ step = Latest THEN Latest ELSE unsaved
  /\ stmt' = 0
  /\ IF step < Latest THEN step' = step + 1 /\ UNCHANGED pc
                      ELSE pc' = "commit" /\ UNCHANGED step
  /\ UNCHANGED <<objects, version, mode, damaged, bounds>>

\* The INSERTs and UPDATEs of a step, the last of which is that of the version.
\* Step 1 inserts the row, with the latest version, and overwrites it at once.
EndStep ==
  /\ pc = "ddl" /\ stmt = Len(Script[step])
  /\ unsaved' = IF step = 0 THEN unsaved ELSE step
  /\ stmt' = 0
  /\ IF step < Latest THEN step' = step + 1 /\ UNCHANGED pc
                      ELSE pc' = "commit" /\ UNCHANGED step
  /\ UNCHANGED <<objects, version, mode, damaged, bounds>>

\* The transaction is over; a bootstrap goes on.
Commit ==
  /\ pc = "commit"
  /\ version' = unsaved
  /\ IF mode = "bootstrap" THEN Begin("compare") /\ UNCHANGED mode
                           ELSE Begin("off") /\ mode' = "none"
  /\ UNCHANGED <<objects, unsaved, damaged, bounds>>

\* The process is killed.
Kill ==
  /\ mode # "none" /\ crashes < MaxCrashes
  /\ crashes' = crashes + 1
  /\ damaged' = TRUE
  /\ Quit
  /\ UNCHANGED runs

EvolutionStep ==
  DropTable \/ SelectVersion \/ ExecuteDdl \/ FailDdl \/ EndStep \/ Commit

--------------------------------------------------------------------------------
(* Properties.                                                                *)

EvolutionTypeOK ==
  /\ objects \subseteq Whole(Latest)
  /\ version \in 1..Latest \cup {NULL} /\ unsaved \in 1..Latest \cup {NULL}
  /\ mode \in {"none", "evolve", "recreate", "bootstrap"}
  /\ step \in 0..Latest + 1 /\ stmt \in 0..Len(Dropped)
  /\ damaged \in BOOLEAN /\ runs \in 0..MaxRuns /\ crashes \in 0..MaxCrashes

\* The server starts when the version is the latest one (check_database_version):
\* then the schema is whole, whatever command was killed at whatever statement.
VersionIsTrue == version = Latest => objects = Whole(Latest)

\* A statement is refused only in a database that a killed command left behind.
\* (There it is: a command that was killed between two commits cannot be repeated.)
StepsFollowOn ==
  pc = "ddl" /\ stmt < Len(Script[step]) /\ Refused(Script[step][stmt + 1]) => damaged

\* From whatever a killed command left behind, recreating the tables leads to the
\* latest version, if it is not killed as well.
RecreateRepairs ==
  (pc = "drop" /\ crashes = MaxCrashes) ~> (version = Latest)
================================================================================
