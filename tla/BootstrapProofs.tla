----------------------------- MODULE BootstrapProofs -----------------------------
(***************************************************************************)
(* Theorems about SchemaEvolution and Bootstrap, for any commands, kills,  *)
(* peers and failures: the version tells the truth about the schema, the   *)
(* statements of the evolutions follow on one another, and a bootstrap     *)
(* copies what the peer has.                                               *)
(***************************************************************************)
EXTENDS Bootstrap, FiniteSetTheorems, TLAPS

USE EvolutionAssumption, BootstrapAssumption
USE DEF schema, place, bounds, local, peer, copying, history, counts

--------------------------------------------------------------------------------
(* The scripts of the evolutions.                                             *)

\* The objects before a step, those its first n statements create, those it drops
\* (with its first statement) and those there are after n statements.
Before(k)     == IF k = 0 THEN {} ELSE Whole(k - 1)
Made(k, n)    == {Script[k][i][2] : i \in {i \in 1..n : Script[k][i][1] = "create"}}
Dropping(k)   == {Script[k][i][2] : i \in {i \in 1..Len(Script[k]) : Script[k][i][1] = "drop"}}
Present(k, n) == IF n = 1 THEN (Before(k) \ Dropping(k)) \cup Made(k, n)
                          ELSE Before(k) \cup Made(k, n)

\* What of them is there for certain, though a command may have been killed in the
\* middle of the step.
Certain(k, n) == IF n = 0 THEN Present(k, n) \ Dropping(k) ELSE Present(k, n)

\* A statement makes the next set of objects out of the one before, and is possible.
Follows(k, n) ==
  LET s == Script[k][n + 1] IN
  \/ /\ s[1] = "create" /\ s[2] \notin Present(k, n)
     /\ Present(k, n + 1) = Present(k, n) \cup {s[2]}
     /\ Certain(k, n + 1) = Certain(k, n) \cup {s[2]}
  \/ /\ s[1] = "drop" /\ s[2] \in Present(k, n) /\ n = 0 /\ k > 1
     /\ Present(k, n + 1) = Present(k, n) \ {s[2]}
     /\ Certain(k, n + 1) = Certain(k, n) /\ s[2] \notin Certain(k, n)

\* The objects that a script names.
Named(k) == {s[2] : s \in Range(Script[k])}

LEMMA WholeGrows ==
  /\ Whole(0) = Named(0)
  /\ \A k \in 1..8 : Whole(k) = Whole(k - 1) \cup Named(k)
  <1>1. ASSUME NEW v \in 0..8, NEW x
        PROVE  x \in Whole(v) <=> \E k \in 0..v : x \in Named(k)
    BY DEF Whole, Named
  <1>2. ASSUME NEW k \in 1..8
        PROVE  Whole(k) = Whole(k - 1) \cup Named(k)
    <2>1. k - 1 \in 0..8 /\ k \in 0..8 /\ 0..k = (0..k - 1) \cup {k}
      OBVIOUS
    <2>2. \A x : x \in Whole(k) <=> x \in Whole(k - 1) \cup Named(k)
      BY <1>1, <2>1
    <2>3. QED
      BY <2>2
  <1>3. Whole(0) = Named(0)
    <2>1. 0 \in 0..8 /\ 0..0 = {0}
      OBVIOUS
    <2>2. \A x : x \in Whole(0) <=> x \in Named(0)
      BY <1>1, <2>1
    <2>3. QED
      BY <2>2
  <1>4. QED
    BY <1>2, <1>3

LEMMA ScriptsAre ==
  /\ Script[0] = <<<<"create", "crackers">>, <<"create", "reports">>, <<"create", "report_cracker_ip">>, <<"create", "legacy">>>>
  /\ Script[1] = <<<<"create", "info">>>>
  /\ Script[2] = <<<<"create", "resiliency">>, <<"create", "cracker_qual">>>>
  /\ Script[3] = <<<<"drop", "cracker_qual">>, <<"create", "cracker_qual">>>>
  /\ Script[4] = <<<<"create", "report_latest">>>>
  /\ Script[5] = <<<<"drop", "report_cracker_ip">>, <<"create", "report_cracker_ip">>>>
  /\ Script[6] = <<>>
  /\ Script[7] = <<<<"create", "history">>>>
  /\ Script[8] = <<<<"create", "country_history">>>>
  BY DEF Script

LEMMA NamedAre ==
  /\ Named(0) = {"crackers", "reports", "report_cracker_ip", "legacy"}
  /\ Named(1) = {"info"}
  /\ Named(2) = {"resiliency", "cracker_qual"}
  /\ Named(3) = {"cracker_qual"}
  /\ Named(4) = {"report_latest"}
  /\ Named(5) = {"report_cracker_ip"}
  /\ Named(6) = {}
  /\ Named(7) = {"history"}
  /\ Named(8) = {"country_history"}
  BY ScriptsAre DEF Named, Range

LEMMA WholeAre ==
  /\ Whole(0) = {"crackers", "reports", "report_cracker_ip", "legacy"}
  /\ Whole(1) = {"crackers", "reports", "report_cracker_ip", "legacy", "info"}
  /\ Whole(2) = {"crackers", "reports", "report_cracker_ip", "legacy", "info", "resiliency", "cracker_qual"}
  /\ Whole(3) = {"crackers", "reports", "report_cracker_ip", "legacy", "info", "resiliency", "cracker_qual"}
  /\ Whole(4) = {"crackers", "reports", "report_cracker_ip", "legacy", "info", "resiliency", "cracker_qual", "report_latest"}
  /\ Whole(5) = {"crackers", "reports", "report_cracker_ip", "legacy", "info", "resiliency", "cracker_qual", "report_latest"}
  /\ Whole(6) = {"crackers", "reports", "report_cracker_ip", "legacy", "info", "resiliency", "cracker_qual", "report_latest"}
  /\ Whole(7) = {"crackers", "reports", "report_cracker_ip", "legacy", "info", "resiliency", "cracker_qual", "report_latest", "history"}
  /\ Whole(8) = {"crackers", "reports", "report_cracker_ip", "legacy", "info", "resiliency", "cracker_qual", "report_latest", "history", "country_history"}
  BY WholeGrows, NamedAre

\* The scripts follow on one another.
LEMMA ScriptsFollowOn ==
  \A k \in 0..8 :
    /\ Len(Script[k]) \in 0..4
    /\ \A n \in 0..3 : n < Len(Script[k]) => Follows(k, n) /\ Script[k][n + 1][2] \in Whole(8)
    /\ Present(k, Len(Script[k])) = Whole(k) /\ Certain(k, Len(Script[k])) = Whole(k)
  <1> DEFINE Good(k) ==
        /\ Len(Script[k]) \in 0..4
        /\ \A n \in 0..3 : n < Len(Script[k]) => Follows(k, n) /\ Script[k][n + 1][2] \in Whole(8)
        /\ Present(k, Len(Script[k])) = Whole(k) /\ Certain(k, Len(Script[k])) = Whole(k)
  <1>1. Good(0)
    BY WholeAre, ScriptsAre DEF Good, Follows, Present, Certain, Before, Made, Dropping
  <1>2. Good(1)
    <2>1. Before(1) = Whole(0) /\ Dropping(1) = {} /\ Made(1, 0) = {}
      BY ScriptsAre DEF Before, Dropping, Made
    <2>2. Made(1, 1) = {"info"}
      BY ScriptsAre DEF Made
    <2>3. QED
      BY <2>1, <2>2, WholeAre, ScriptsAre DEF Good, Follows, Present, Certain
  <1>3. Good(2)
    <2>1. Before(2) = Whole(1) /\ Dropping(2) = {} /\ Made(2, 0) = {}
      BY ScriptsAre DEF Before, Dropping, Made
    <2>2. Made(2, 1) = {"resiliency"}
      BY ScriptsAre DEF Made
    <2>3. Made(2, 2) = {"resiliency", "cracker_qual"}
      BY ScriptsAre DEF Made
    <2>4. QED
      BY <2>1, <2>2, <2>3, WholeAre, ScriptsAre DEF Good, Follows, Present, Certain
  <1>4. Good(3)
    BY WholeAre, ScriptsAre DEF Good, Follows, Present, Certain, Before, Made, Dropping
  <1>5. Good(4)
    BY WholeAre, ScriptsAre DEF Good, Follows, Present, Certain, Before, Made, Dropping
  <1>6. Good(5)
    BY WholeAre, ScriptsAre DEF Good, Follows, Present, Certain, Before, Made, Dropping
  <1>7. Good(6)
    BY WholeAre, ScriptsAre DEF Good, Follows, Present, Certain, Before, Made, Dropping
  <1>8. Good(7)
    BY WholeAre, ScriptsAre DEF Good, Follows, Present, Certain, Before, Made, Dropping
  <1>9. Good(8)
    <2>1. Before(8) = Whole(7) /\ Dropping(8) = {} /\ Made(8, 0) = {}
      BY ScriptsAre DEF Before, Dropping, Made
    <2>2. Made(8, 1) = {"country_history"}
      BY ScriptsAre DEF Made
    <2>3. Len(Script[8]) = 1 /\ Script[8][1] = <<"create", "country_history">>
      BY ScriptsAre
    <2>4. Whole(8) = Whole(7) \cup {"country_history"} /\ "country_history" \notin Whole(7)
      BY WholeAre
    <2>5. /\ Present(8, 0) = Whole(7) /\ Present(8, 1) = Whole(8)
          /\ Certain(8, 0) = Whole(7) /\ Certain(8, 1) = Whole(8)
      BY <2>1, <2>2, <2>4 DEF Present, Certain
    <2>6. Follows(8, 0) /\ Script[8][1][2] \in Whole(8)
      BY <2>3, <2>4, <2>5 DEF Follows
    <2>7. QED
      BY <2>3, <2>5, <2>6
  <1> HIDE DEF Good
  <1>10. ASSUME NEW k \in 0..8 PROVE Good(k)
    BY <1>1, <1>2, <1>3, <1>4, <1>5, <1>6, <1>7, <1>8, <1>9
  <1>11. QED
    BY <1>10 DEF Good

\* What is there for certain while a step goes on is there from its beginning; a step
\* begins with what the one before made.
LEMMA StepsBegin ==
  /\ \A k \in 0..8 : \A n \in 0..4 : Certain(k, 0) \subseteq Certain(k, n)
  /\ \A k \in 0..7 : Present(k + 1, 0) = Whole(k) /\ Certain(k + 1, 0) \subseteq Whole(k)
  /\ Present(0, 0) = {} /\ Certain(0, 0) = {}
  <1>1. \A k : Made(k, 0) = {}
    BY DEF Made
  <1>2. \A k \in 0..8 : \A n \in 0..4 : Certain(k, 0) \subseteq Certain(k, n)
    BY <1>1 DEF Certain, Present
  <1>3. \A k \in 0..7 : Before(k + 1) = Whole(k)
    BY DEF Before
  <1>4. \A k \in 0..7 : Present(k + 1, 0) = Whole(k) /\ Certain(k + 1, 0) \subseteq Whole(k)
    BY <1>1, <1>3 DEF Certain, Present
  <1>5. Present(0, 0) = {} /\ Certain(0, 0) = {}
    BY <1>1 DEF Certain, Present, Before
  <1>6. QED
    BY <1>2, <1>4, <1>5

\* _remove_tables leaves nothing.
LEMMA NothingIsLeft ==
  /\ Len(Dropped) = 6
  /\ \A S \in SUBSET Whole(8) : (\A i \in 1..6 : S \cap Parts(Dropped[i]) = {}) => S = {}
  <1>1. /\ Dropped[1] = "info" /\ Dropped[2] = "crackers" /\ Dropped[3] = "reports"
        /\ Dropped[4] = "legacy" /\ Dropped[5] = "history" /\ Dropped[6] = "country_history"
        /\ Len(Dropped) = 6
    BY DEF Dropped
  <1>2. /\ Parts("crackers") = {"crackers", "resiliency", "cracker_qual"}
        /\ Parts("reports") = {"reports", "report_cracker_ip", "report_latest"}
        /\ "info" \in Parts("info") /\ "legacy" \in Parts("legacy")
        /\ "history" \in Parts("history") /\ "country_history" \in Parts("country_history")
    BY DEF Parts
  <1>3. ASSUME NEW x \in Whole(8) PROVE \E i \in 1..6 : x \in Parts(Dropped[i])
    <2>1. x \in Parts(Dropped[1]) \/ x \in Parts(Dropped[2]) \/ x \in Parts(Dropped[3])
          \/ x \in Parts(Dropped[4]) \/ x \in Parts(Dropped[5]) \/ x \in Parts(Dropped[6])
      BY <1>1, <1>2, WholeAre
    <2>2. QED
      BY <2>1
  <1>4. QED
    BY <1>1, <1>3

--------------------------------------------------------------------------------
(* The inductive invariant of the schema.                                     *)

\* The objects of a database at a version, and those that are there though a command
\* may have been killed in the middle of the next step.
Settled(v) == IF v = NULL THEN {} ELSE Whole(v)
Kept(v)    == IF v = NULL THEN {} ELSE IF v = Latest THEN Whole(Latest) ELSE Certain(v + 1, 0)

\* The database has what its version and the place of the command say, and, if no
\* command was killed, nothing else.
EvolutionInv ==
  /\ EvolutionTypeOK
  /\ Kept(version) \subseteq objects
  /\ pc \notin {"ddl", "commit"} => unsaved = version
  /\ pc \in {"ask", "select"} => stmt = 0
  /\ pc = "drop" => /\ stmt > 0 => version = NULL
                    /\ \A i \in 1..stmt : objects \cap Parts(Dropped[i]) = {}
  /\ pc = "ddl" => /\ step \in 0..Latest /\ stmt \in 0..Len(Script[step])
                   /\ unsaved = IF step <= 1 THEN NULL ELSE step - 1
                   /\ Certain(step, stmt) \subseteq objects
  /\ pc = "commit" => unsaved = Latest /\ objects = Whole(Latest)
  /\ ~damaged => /\ pc = "ddl" => objects = Present(step, stmt)
                 /\ pc \notin {"drop", "ddl", "commit"} => objects = Settled(version)

LEMMA EvolutionTypes ==
  ASSUME EvolutionInv
  PROVE  /\ objects \subseteq Whole(8) /\ Latest = 8
         /\ version \in 1..8 \cup {NULL} /\ unsaved \in 1..8 \cup {NULL}
         /\ mode \in {"none", "evolve", "recreate", "bootstrap"}
         /\ step \in 0..9 /\ stmt \in 0..6 /\ damaged \in BOOLEAN
         /\ runs \in 0..MaxRuns /\ crashes \in 0..MaxCrashes
         /\ \A v \in 1..8 : v # NULL
  BY NothingIsLeft DEF EvolutionInv, EvolutionTypeOK, Latest

\* _remove_tables.
LEMMA DropStep ==
  ASSUME EvolutionInv, DropTable
  PROVE  EvolutionInv'
  <1>1. /\ pc = "drop" /\ unsaved' = version' /\ unsaved = version
        /\ mode' = mode /\ runs' = runs /\ crashes' = crashes
    BY DEF DropTable, EvolutionInv
  <1>2. CASE stmt < Len(Dropped)
    <2>1. /\ objects' = objects \ Parts(Dropped[stmt + 1])
          /\ version' = (IF stmt = 0 THEN NULL ELSE version)
          /\ stmt' = stmt + 1 /\ pc' = pc /\ step' = step /\ damaged' = damaged
      BY <1>2 DEF DropTable
    <2>2. version' = NULL /\ stmt' \in 1..6 /\ Kept(NULL) = {}
      BY <1>1, <1>2, <2>1, EvolutionTypes, NothingIsLeft DEF EvolutionInv, Kept
    <2>3. \A i \in 1..stmt' : objects' \cap Parts(Dropped[i]) = {}
      <3>1. \A i \in 1..stmt : objects \cap Parts(Dropped[i]) = {}
        BY <1>1 DEF EvolutionInv
      <3>2. \A i \in 1..stmt' : i \in 1..stmt \/ i = stmt + 1
        BY <2>1, EvolutionTypes
      <3>3. QED
        BY <2>1, <3>1, <3>2
    <2>4. EvolutionTypeOK'
      <3>1. objects' \subseteq Whole(Latest)
        BY <2>1, EvolutionTypes
      <3>2. QED
        BY <1>1, <2>1, <2>2, <3>1, EvolutionTypes, NothingIsLeft DEF EvolutionTypeOK
    <2>5. QED
      BY <1>1, <2>1, <2>2, <2>3, <2>4 DEF EvolutionInv
  <1>3. CASE ~(stmt < Len(Dropped))
    <2>1. /\ objects' = objects /\ version' = version
          /\ pc' = "select" /\ step' = 0 /\ stmt' = 0 /\ damaged' = FALSE
      BY <1>3 DEF DropTable, Begin
    <2>2. stmt = 6
      BY <1>3, EvolutionTypes, NothingIsLeft
    <2>3. version = NULL /\ objects = {}
      BY <1>1, <2>2, EvolutionTypes, NothingIsLeft DEF EvolutionInv
    <2>4. Settled(NULL) = {} /\ Kept(NULL) = {}
      BY DEF Settled, Kept
    <2>5. EvolutionTypeOK'
      <3>1. objects' \subseteq Whole(Latest) /\ version' \in 1..Latest \cup {NULL}
            /\ unsaved' \in 1..Latest \cup {NULL}
        BY <1>1, <2>1, <2>3
      <3>2. step' \in 0..Latest + 1 /\ stmt' \in 0..Len(Dropped) /\ damaged' \in BOOLEAN
        <4>1. damaged' \in BOOLEAN
          BY <2>1
        <4>2. Latest = 8 /\ Len(Dropped) = 6
          BY EvolutionTypes, NothingIsLeft
        <4>3. QED
          BY <2>1, <4>1, <4>2
      <3>3. mode' \in {"none", "evolve", "recreate", "bootstrap"} /\ runs' \in 0..MaxRuns
            /\ crashes' \in 0..MaxCrashes
        BY <1>1, EvolutionTypes
      <3>4. QED
        BY <3>1, <3>2, <3>3 DEF EvolutionTypeOK
    <2>6. QED
      BY <1>1, <2>1, <2>3, <2>4, <2>5 DEF EvolutionInv
  <1>4. QED
    BY <1>2, <1>3

\* get_schema_version: the steps begin after the version.
LEMMA SelectStep ==
  ASSUME EvolutionInv, SelectVersion
  PROVE  EvolutionInv'
  <1>1. /\ pc = "select" /\ unsaved = version /\ stmt = 0
        /\ pc' = (IF NextStep > Latest THEN "commit" ELSE "ddl") /\ step' = NextStep
        /\ UNCHANGED <<objects, version, unsaved, mode, stmt, damaged, runs, crashes>>
    BY DEF SelectVersion, EvolutionInv
  <1>2. ~damaged => objects = Settled(version)
    BY <1>1 DEF EvolutionInv
  <1>3. Kept(version) \subseteq objects
    BY DEF EvolutionInv
  <1>4. CASE version = NULL
    <2>1. NextStep = 0 /\ pc' = "ddl"
      BY <1>1, <1>4, EvolutionTypes DEF NextStep
    <2>2. Certain(0, 0) = {} /\ Present(0, 0) = {} /\ Settled(NULL) = {}
      BY StepsBegin DEF Settled
    <2>3. 0 \in 0..Len(Script[0])
      BY ScriptsFollowOn
    <2>4. EvolutionTypeOK'
      BY <1>1, <2>1, EvolutionTypes DEF EvolutionInv, EvolutionTypeOK
    <2>5. unsaved' = IF step' <= 1 THEN NULL ELSE step' - 1
      BY <1>1, <1>4, <2>1
    <2>6. ~damaged' => objects' = Present(step', stmt')
      BY <1>1, <1>2, <1>4, <2>1, <2>2
    <2>7. Certain(step', stmt') \subseteq objects' /\ Kept(version') \subseteq objects'
      BY <1>1, <1>3, <2>1, <2>2
    <2>8. step' \in 0..Latest /\ stmt' \in 0..Len(Script[step'])
      BY <1>1, <2>1, <2>3, EvolutionTypes
    <2>9. QED
      BY <1>1, <2>1, <2>4, <2>5, <2>6, <2>7, <2>8 DEF EvolutionInv
  <1>5. CASE version \in 1..7
    <2>1. NextStep = version + 1 /\ pc' = "ddl" /\ version + 1 \in 2..8
      BY <1>1, <1>5, EvolutionTypes DEF NextStep
    <2>2. Present(version + 1, 0) = Whole(version)
      BY <1>5, StepsBegin
    <2>3. Settled(version) = Whole(version) /\ Kept(version) = Certain(version + 1, 0)
      BY <1>5, EvolutionTypes DEF Settled, Kept
    <2>4. 0 \in 0..Len(Script[version + 1])
      <3>1. Len(Script[version + 1]) \in 0..4
        BY <2>1, ScriptsFollowOn
      <3>2. QED
        BY <3>1
    <2>5. EvolutionTypeOK'
      BY <1>1, <2>1, EvolutionTypes DEF EvolutionInv, EvolutionTypeOK
    <2>6. unsaved' = IF step' <= 1 THEN NULL ELSE step' - 1
      BY <1>1, <1>5, <2>1
    <2>7. QED
      BY <1>1, <1>2, <1>3, <1>5, <2>1, <2>2, <2>3, <2>4, <2>5, <2>6, EvolutionTypes
      DEF EvolutionInv
  <1>6. CASE version = 8
    <2>1. NextStep = 9 /\ pc' = "commit"
      BY <1>1, <1>6, EvolutionTypes DEF NextStep
    <2>2. Kept(version) = Whole(8)
      BY <1>6, EvolutionTypes DEF Kept
    <2>3. objects = Whole(8)
      BY <1>3, <2>2, EvolutionTypes
    <2>4. EvolutionTypeOK'
      BY <1>1, <2>1, EvolutionTypes DEF EvolutionInv, EvolutionTypeOK
    <2>5. QED
      BY <1>1, <1>3, <1>6, <2>1, <2>2, <2>3, <2>4, EvolutionTypes DEF EvolutionInv
  <1>7. QED
    BY <1>4, <1>5, <1>6, EvolutionTypes

\* One statement of a step.
LEMMA DdlStep ==
  ASSUME EvolutionInv, ExecuteDdl
  PROVE  EvolutionInv'
  <1> DEFINE s == Script[step][stmt + 1]
  <1>1. /\ pc = "ddl" /\ pc' = "ddl" /\ stmt < Len(Script[step]) /\ stmt' = stmt + 1
        /\ ~Refused(s)
        /\ objects' = (IF s[1] = "create" THEN objects \cup {s[2]} ELSE objects \ {s[2]})
        /\ version' = unsaved
        /\ UNCHANGED <<unsaved, mode, step, damaged, runs, crashes>>
    BY DEF ExecuteDdl
  <1>2. /\ step \in 0..8 /\ stmt \in 0..Len(Script[step])
        /\ unsaved = (IF step <= 1 THEN NULL ELSE step - 1)
        /\ Certain(step, stmt) \subseteq objects
        /\ ~damaged => objects = Present(step, stmt)
    BY <1>1, EvolutionTypes DEF EvolutionInv
  <1>3. Len(Script[step]) \in 0..4
    BY <1>2, ScriptsFollowOn
  <1>4. stmt \in 0..3 /\ stmt + 1 \in 0..Len(Script[step]) /\ stmt + 1 \in 0..4
    BY <1>1, <1>2, <1>3
  <1>5. Follows(step, stmt) /\ s[2] \in Whole(8)
    BY <1>1, <1>2, <1>4, ScriptsFollowOn
  <1>6. /\ Certain(step, stmt + 1) \subseteq objects'
        /\ ~damaged => objects' = Present(step, stmt + 1)
        /\ objects' \subseteq Whole(8)
    <2> HIDE DEF s
    <2>1. CASE /\ s[1] = "create" /\ s[2] \notin Present(step, stmt)
               /\ Present(step, stmt + 1) = Present(step, stmt) \cup {s[2]}
               /\ Certain(step, stmt + 1) = Certain(step, stmt) \cup {s[2]}
      BY <1>1, <1>2, <1>5, <2>1, EvolutionTypes
    <2>2. CASE /\ s[1] = "drop"
               /\ Present(step, stmt + 1) = Present(step, stmt) \ {s[2]}
               /\ Certain(step, stmt + 1) = Certain(step, stmt) /\ s[2] \notin Certain(step, stmt)
      BY <1>1, <1>2, <2>2, EvolutionTypes
    <2>3. QED
      BY <1>5, <2>1, <2>2 DEF Follows, s
  <1>7. Kept(version') \subseteq objects'
    <2>1. CASE step <= 1
      BY <1>1, <1>2, <2>1 DEF Kept
    <2>2. CASE ~(step <= 1)
      <3>1. unsaved = step - 1 /\ step - 1 \in 1..7 /\ (step - 1) + 1 = step
        BY <1>2, <2>2
      <3>2. Kept(version') = Certain(step, 0)
        BY <1>1, <3>1, EvolutionTypes DEF Kept
      <3>3. Certain(step, 0) \subseteq Certain(step, stmt + 1)
        BY <1>2, <1>4, StepsBegin
      <3>4. QED
        BY <1>6, <3>2, <3>3
    <2>3. QED
      BY <2>1, <2>2
  <1> HIDE DEF s
  <1>8. EvolutionTypeOK'
    BY <1>1, <1>4, <1>6, EvolutionTypes, NothingIsLeft DEF EvolutionTypeOK
  <1>9. QED
    BY <1>1, <1>2, <1>4, <1>6, <1>7, <1>8, EvolutionTypes DEF EvolutionInv

\* A refused statement, or the process that is killed: the transaction is rolled back.
LEMMA QuitStep ==
  ASSUME EvolutionInv, Quit, damaged' \in BOOLEAN,
         ~damaged' => ~damaged /\ pc \notin {"drop", "ddl", "commit"},
         runs' \in 0..MaxRuns, crashes' \in 0..MaxCrashes
  PROVE  EvolutionInv'
  <1>1. /\ mode' = "none" /\ pc' = "off" /\ step' = 0 /\ stmt' = 0
        /\ unsaved' = version /\ objects' = objects /\ version' = version
    BY DEF Quit
  <1>2. /\ Kept(version) \subseteq objects
        /\ ~damaged /\ pc \notin {"drop", "ddl", "commit"} => objects = Settled(version)
    BY DEF EvolutionInv
  <1>3. EvolutionTypeOK'
    BY <1>1, EvolutionTypes, NothingIsLeft DEF EvolutionTypeOK
  <1>4. QED
    BY <1>1, <1>2, <1>3 DEF EvolutionInv

\* A statement that is possible is not refused: only what a killed command left behind
\* is in its way.
LEMMA RefusedIsDamaged ==
  ASSUME EvolutionInv
  PROVE  StepsFollowOn
  <1> SUFFICES ASSUME pc = "ddl", stmt < Len(Script[step]), Refused(Script[step][stmt + 1]),
                      ~damaged
               PROVE  FALSE
    BY EvolutionTypes DEF StepsFollowOn
  <1> DEFINE s == Script[step][stmt + 1]
  <1>1. step \in 0..8 /\ stmt \in 0..Len(Script[step]) /\ objects = Present(step, stmt)
    BY EvolutionTypes DEF EvolutionInv
  <1>2. Len(Script[step]) \in 0..4
    BY <1>1, ScriptsFollowOn
  <1>3. stmt \in 0..3
    BY <1>1, <1>2
  <1>4. Follows(step, stmt)
    BY <1>1, <1>3, ScriptsFollowOn
  <1>5. (s[1] = "create") = (s[2] \in objects)
    BY DEF Refused
  <1>6. \/ s[1] = "create" /\ s[2] \notin objects
        \/ s[1] = "drop" /\ s[2] \in objects
    BY <1>1, <1>4 DEF Follows
  <1>7. QED
    BY <1>5, <1>6

\* The end of a step, and of the transaction.
LEMMA EndStepStep ==
  ASSUME EvolutionInv, EndStep
  PROVE  EvolutionInv'
  <1>1. /\ pc = "ddl" /\ stmt = Len(Script[step]) /\ stmt' = 0
        /\ unsaved' = (IF step = 0 THEN unsaved ELSE step)
        /\ \/ step < Latest /\ step' = step + 1 /\ pc' = pc
           \/ ~(step < Latest) /\ pc' = "commit" /\ step' = step
        /\ UNCHANGED <<objects, version, mode, damaged, runs, crashes>>
    BY DEF EndStep
  <1>2. /\ step \in 0..8
        /\ unsaved = (IF step <= 1 THEN NULL ELSE step - 1)
        /\ Certain(step, stmt) \subseteq objects
        /\ ~damaged => objects = Present(step, stmt)
        /\ Kept(version) \subseteq objects
    BY <1>1, EvolutionTypes DEF EvolutionInv
  <1>3. Whole(step) \subseteq objects /\ (~damaged => objects = Whole(step))
    BY <1>1, <1>2, ScriptsFollowOn
  <1>4. unsaved' \in 1..8 \cup {NULL}
    BY <1>1, <1>2
  <1>5. CASE step < 8
    <2>1. pc' = "ddl" /\ step' = step + 1 /\ step \in 0..7 /\ step + 1 \in 0..8
      BY <1>1, <1>2, <1>5, EvolutionTypes
    <2>2. Present(step + 1, 0) = Whole(step) /\ Certain(step + 1, 0) \subseteq Whole(step)
      BY <2>1, StepsBegin
    <2>3. unsaved' = IF step' <= 1 THEN NULL ELSE step' - 1
      BY <1>1, <1>2, <2>1
    <2>4. 0 \in 0..Len(Script[step'])
      <3>1. Len(Script[step + 1]) \in 0..4
        BY <2>1, ScriptsFollowOn
      <3>2. QED
        BY <2>1, <3>1
    <2>5. EvolutionTypeOK'
      BY <1>1, <1>4, <2>1, EvolutionTypes, NothingIsLeft DEF EvolutionTypeOK
    <2>6. QED
      BY <1>1, <1>2, <1>3, <2>1, <2>2, <2>3, <2>4, <2>5, EvolutionTypes DEF EvolutionInv
  <1>6. CASE step = 8
    <2>1. pc' = "commit" /\ step' = 8 /\ unsaved' = 8
      BY <1>1, <1>6, EvolutionTypes
    <2>2. objects = Whole(8)
      BY <1>3, <1>6, EvolutionTypes
    <2>3. EvolutionTypeOK'
      BY <1>1, <1>4, <2>1, EvolutionTypes, NothingIsLeft DEF EvolutionTypeOK
    <2>4. QED
      BY <1>1, <1>2, <2>1, <2>2, <2>3, EvolutionTypes DEF EvolutionInv
  <1>7. QED
    BY <1>2, <1>5, <1>6

LEMMA CommitStep ==
  ASSUME EvolutionInv, Commit
  PROVE  EvolutionInv'
  <1>1. /\ pc = "commit" /\ version' = unsaved /\ unsaved' = unsaved /\ objects' = objects
        /\ pc' \in {"compare", "off"} /\ step' = 0 /\ stmt' = 0
        /\ mode' \in {mode, "none"} /\ damaged' = damaged /\ runs' = runs /\ crashes' = crashes
    BY DEF Commit, Begin
  <1>2. unsaved = 8 /\ objects = Whole(8)
    BY <1>1, EvolutionTypes DEF EvolutionInv
  <1>3. Kept(8) = Whole(8) /\ Settled(8) = Whole(8)
    BY EvolutionTypes DEF Kept, Settled
  <1>4. EvolutionTypeOK'
    BY <1>1, <1>2, EvolutionTypes, NothingIsLeft DEF EvolutionTypeOK
  <1>5. QED
    BY <1>1, <1>2, <1>3, <1>4 DEF EvolutionInv

\* A step of a command that is not about the schema.
LEMMA MoveStep ==
  ASSUME EvolutionInv, UNCHANGED <<objects, version, unsaved, damaged, crashes>>,
         pc \notin {"drop", "ddl", "commit"}, pc' \notin {"ddl", "commit"},
         mode' \in {"none", "evolve", "recreate", "bootstrap"}, runs' \in 0..MaxRuns,
         step' \in 0..9, stmt' = 0 \/ (stmt' = stmt /\ pc' \notin {"ask", "select", "drop"})
  PROVE  EvolutionInv'
  <1>1. /\ Kept(version) \subseteq objects /\ unsaved = version
        /\ ~damaged => objects = Settled(version)
    BY DEF EvolutionInv
  <1>2. EvolutionTypeOK'
    BY EvolutionTypes, NothingIsLeft DEF EvolutionTypeOK
  <1>3. stmt' \in 0..6 /\ (pc' \in {"ask", "select", "drop"} => stmt' = 0)
    BY EvolutionTypes
  <1>4. QED
    BY <1>1, <1>2, <1>3 DEF EvolutionInv

LEMMA EvolutionStepStep ==
  ASSUME EvolutionInv, EvolutionStep
  PROVE  EvolutionInv'
  <1>1. CASE FailDdl
    <2>1. damaged
      BY <1>1, RefusedIsDamaged DEF FailDdl, StepsFollowOn
    <2>2. Quit /\ damaged' = damaged /\ runs' = runs /\ crashes' = crashes
      BY <1>1 DEF FailDdl
    <2>3. QED
      BY <2>1, <2>2, QuitStep, EvolutionTypes
  <1>2. QED
    BY <1>1, DropStep, SelectStep, DdlStep, EndStepStep, CommitStep DEF EvolutionStep

--------------------------------------------------------------------------------
(* The inductive invariant of the bootstrap.                                  *)

Copying == {"insert", "reports", "tables", "exit"}

\* What goes with each label.
PlaceOK ==
  /\ pc \in {"off", "ask", "drop", "select", "ddl", "commit", "compare", "hosts"} \cup Copying
  /\ mode = "none" <=> pc = "off"
  /\ pc \in {"ask", "compare", "hosts"} \cup Copying => mode = "bootstrap"
  /\ pc \notin Copying => hosts = {} /\ queue = {}
  /\ pc \in {"tables", "exit"} => hosts = {}
  /\ pc # "reports" => host = NULL
  /\ pc = "reports" => host \in [id : Id, ip : Host] /\ host.id \in DOMAIN crackers
                                                   /\ crackers[host.id] = host.ip

\* A table that is not there has no rows, and a bootstrap begins without any.
EmptyOK ==
  /\ "crackers" \notin objects => crackers = <<>>
  /\ "reports" \notin objects => reports = <<>>
  /\ mode = "bootstrap" /\ pc \in {"select", "ddl", "commit", "compare", "hosts"} =>
       crackers = <<>> /\ reports = <<>>
  /\ pc \in {"compare", "hosts"} \cup Copying => {"crackers", "reports"} \subseteq objects

\* The peer's tables are consistent.
PeerOK ==
  /\ peerIds \in [crackers : Id, reports : Id]
  /\ peerCrackers \in [DOMAIN peerCrackers -> Host]
  /\ peerReports \in [DOMAIN peerReports -> DOMAIN peerCrackers]
  /\ \A c \in DOMAIN peerCrackers : c \in Id /\ c < peerIds.crackers
  /\ \A r \in DOMAIN peerReports : r \in Id /\ r < peerIds.reports
  /\ \A c, d \in DOMAIN peerCrackers : peerCrackers[c] = peerCrackers[d] => c = d

\* The crackers copied and those still to be copied have different ids and addresses.
LocalOK ==
  /\ crackers \in [DOMAIN crackers -> Host] /\ DOMAIN crackers \subseteq Id
  /\ \A c, d \in DOMAIN crackers : crackers[c] = crackers[d] => c = d
  /\ reports \in [DOMAIN reports -> Id] /\ DOMAIN reports \subseteq Id
  /\ hosts \subseteq [id : Id, ip : Host]
  /\ \A c \in hosts : c.id \notin DOMAIN crackers /\ \A d \in DOMAIN crackers : crackers[d] # c.ip
  /\ \A c, d \in hosts : c.id = d.id \/ c.ip = d.ip => c = d
  /\ queue \subseteq [id : Id, cracker : Id]
  /\ changed \in BOOLEAN /\ lost \in BOOLEAN /\ renewed \subseteq Id

\* The peer's crackers that were not created since the list was read are copied, or
\* still to be copied; a report waits for its cracker.
CopyOK ==
  pc \in Copying =>
    /\ \A r \in DOMAIN reports : reports[r] \in DOMAIN crackers \cup renewed
    /\ \A q \in queue : q.cracker \in DOMAIN crackers \cup renewed
    /\ pc # "exit" =>
         \A c \in DOMAIN peerCrackers :
           \/ c \in renewed
           \/ [id |-> c, ip |-> peerCrackers[c]] \in hosts
           \/ c \in DOMAIN crackers /\ crackers[c] = peerCrackers[c]

\* While nothing changes and nothing is lost, the rows copied are the peer's, and the
\* reports of the crackers that were dealt with are there or under way.
FaithOK ==
  pc \in Copying /\ ~changed /\ ~lost =>
    /\ \A c \in DOMAIN peerCrackers :
         \/ [id |-> c, ip |-> peerCrackers[c]] \in hosts
         \/ c \in DOMAIN crackers
    /\ \A c \in DOMAIN crackers : c \in DOMAIN peerCrackers /\ crackers[c] = peerCrackers[c]
    /\ \A c \in hosts : c.id \in DOMAIN peerCrackers /\ peerCrackers[c.id] = c.ip
    /\ \A r \in DOMAIN reports : r \in DOMAIN peerReports /\ reports[r] = peerReports[r]
    /\ \A q \in queue : q.id \in DOMAIN peerReports /\ peerReports[q.id] = q.cracker
    /\ \A r \in DOMAIN peerReports :
         peerReports[r] \in DOMAIN crackers /\ ~(pc = "reports" /\ host.id = peerReports[r]) =>
           r \in DOMAIN reports \/ [id |-> r, cracker |-> peerReports[r]] \in queue

BootstrapInv ==
  EvolutionInv /\ PlaceOK /\ EmptyOK /\ PeerOK /\ LocalOK /\ CopyOK /\ FaithOK

--------------------------------------------------------------------------------
(* The steps of the commands that do not copy.                                *)

\* No step of a command touches the peer.
LEMMA SamePeer ==
  ASSUME BootstrapInv, UNCHANGED peer
  PROVE  PeerOK'
  BY DEF BootstrapInv, PeerOK

\* Outside of the copying, the local tables are what they were, or empty.
LEMMA NotCopying ==
  ASSUME BootstrapInv, pc' \notin Copying, UNCHANGED <<peer, history>>,
         hosts' = {}, queue' = {}, host' = NULL,
         crackers' \in {crackers, <<>>}, reports' \in {reports, <<>>}
  PROVE  PeerOK' /\ LocalOK' /\ CopyOK' /\ FaithOK'
  <1>1. CopyOK' /\ FaithOK'
    BY DEF CopyOK, FaithOK
  <1>2. LocalOK'
    <2>1. /\ crackers' \in [DOMAIN crackers' -> Host] /\ DOMAIN crackers' \subseteq Id
          /\ \A c, d \in DOMAIN crackers' : crackers'[c] = crackers'[d] => c = d
      <3>1. CASE crackers' = crackers
        BY <3>1 DEF BootstrapInv, LocalOK
      <3>2. CASE crackers' = <<>>
        BY <3>2
      <3>3. QED
        BY <3>1, <3>2
    <2>2. reports' \in [DOMAIN reports' -> Id] /\ DOMAIN reports' \subseteq Id
      <3>1. CASE reports' = reports
        BY <3>1 DEF BootstrapInv, LocalOK
      <3>2. CASE reports' = <<>>
        BY <3>2
      <3>3. QED
        BY <3>1, <3>2
    <2>3. changed' \in BOOLEAN /\ lost' \in BOOLEAN /\ renewed' \subseteq Id
      BY DEF BootstrapInv, LocalOK
    <2>4. QED
      BY <2>1, <2>2, <2>3 DEF LocalOK
  <1>3. QED
    BY <1>1, <1>2, SamePeer

\* Dropping and recreating the tables.
LEMMA SchemaStepStep ==
  ASSUME BootstrapInv, SchemaStep
  PROVE  BootstrapInv'
  <1>1. /\ EvolutionStep /\ UNCHANGED <<peer, peerVersion, copying, history, counts>>
        /\ crackers' = (IF "crackers" \in objects' THEN crackers ELSE <<>>)
        /\ reports' = (IF "reports" \in objects' THEN reports ELSE <<>>)
    BY DEF SchemaStep, Emptied
  <1>2. EvolutionInv'
    BY <1>1, EvolutionStepStep DEF BootstrapInv
  <1>3. /\ pc \in {"drop", "select", "ddl", "commit"}
        /\ \/ pc = "drop" /\ pc' \in {"drop", "select"} /\ mode' = mode
           \/ pc = "select" /\ pc' \in {"ddl", "commit"} /\ mode' = mode
           \/ pc = "ddl" /\ pc' \in {"ddl", "commit"} /\ mode' = mode
           \/ pc = "ddl" /\ pc' = "off" /\ mode' = "none"
           \/ pc = "commit" /\ pc' = "compare" /\ mode = "bootstrap" /\ mode' = mode
           \/ pc = "commit" /\ pc' = "off" /\ mode' = "none"
    BY <1>1 DEF EvolutionStep, DropTable, SelectVersion, ExecuteDdl, FailDdl, EndStep, Commit,
                Begin, Quit
  <1>4. mode # "none" /\ hosts = {} /\ queue = {} /\ host = NULL
    BY <1>3 DEF BootstrapInv, PlaceOK, Copying
  <1>5. PlaceOK'
    BY <1>1, <1>3, <1>4 DEF PlaceOK, Copying
  <1>6. pc' \notin Copying
    BY <1>3 DEF Copying
  <1>7. PeerOK' /\ LocalOK' /\ CopyOK' /\ FaithOK'
    BY <1>1, <1>4, <1>6, NotCopying
  <1>8. EmptyOK'
    <2>1. CASE pc = "drop" /\ pc' = "select"
      <3>1. stmt = 6 /\ objects' = objects
        BY <1>1, <2>1, EvolutionTypes, NothingIsLeft
        DEF BootstrapInv, EvolutionStep, DropTable, SelectVersion, ExecuteDdl, FailDdl, EndStep,
            Commit
      <3>2. objects' = {}
        BY <2>1, <3>1, EvolutionTypes, NothingIsLeft DEF BootstrapInv, EvolutionInv
      <3>3. QED
        BY <1>1, <2>1, <3>2 DEF EmptyOK, Copying
    <2>2. CASE pc' = "drop" \/ pc' = "off"
      BY <1>1, <2>2 DEF EmptyOK, Copying
    <2>3. CASE pc \in {"select", "ddl", "commit"} /\ pc' # "off"
      <3>1. pc' = "compare" => {"crackers", "reports"} \subseteq objects'
        <4>1. SUFFICES ASSUME pc' = "compare" PROVE {"crackers", "reports"} \subseteq objects'
          OBVIOUS
        <4>2. objects' = objects /\ pc = "commit"
          BY <1>1, <1>3, <4>1
          DEF EvolutionStep, DropTable, SelectVersion, ExecuteDdl, FailDdl, EndStep, Commit, Quit,
              Begin
        <4>3. objects = Whole(8)
          BY <4>2, EvolutionTypes DEF BootstrapInv, EvolutionInv
        <4>4. QED
          BY <4>2, <4>3, WholeAre
      <3>2. QED
        BY <1>1, <1>3, <2>3, <3>1 DEF BootstrapInv, EmptyOK, Copying
    <2>4. QED
      BY <1>3, <2>1, <2>2, <2>3
  <1>9. QED
    BY <1>2, <1>5, <1>7, <1>8 DEF BootstrapInv

\* A command begins.
LEMMA BeginStep ==
  ASSUME BootstrapInv,
         \/ StartBootstrap
         \/ (Evolve \/ Recreate) /\ UNCHANGED <<local, peer, peerVersion, copying, history, counts>>
  PROVE  BootstrapInv'
  <1>1. /\ UNCHANGED <<local, peer, peerVersion, copying, history, counts>>
        /\ mode = "none" /\ runs < MaxRuns /\ runs' = runs + 1
        /\ \/ mode' = "bootstrap" /\ pc' = "ask"
           \/ mode' = "evolve" /\ pc' = "select"
           \/ mode' = "recreate" /\ pc' = "drop"
        /\ step' = 0 /\ stmt' = 0
        /\ UNCHANGED <<objects, version, unsaved, damaged, crashes>>
    BY DEF StartBootstrap, Evolve, Recreate, Command, Begin
  <1>2. pc = "off" /\ hosts = {} /\ queue = {} /\ host = NULL
    BY <1>1 DEF BootstrapInv, PlaceOK, Copying
  <1>3. runs' \in 0..MaxRuns
    BY <1>1, EvolutionTypes DEF BootstrapInv
  <1>4. EvolutionInv'
    BY <1>1, <1>2, <1>3, MoveStep DEF BootstrapInv
  <1>5. PlaceOK'
    BY <1>1, <1>2 DEF PlaceOK, Copying
  <1>6. EmptyOK'
    BY <1>1 DEF BootstrapInv, EmptyOK, Copying
  <1>7. PeerOK' /\ LocalOK' /\ CopyOK' /\ FaithOK'
    BY <1>1, <1>2, NotCopying DEF Copying
  <1>8. QED
    BY <1>4, <1>5, <1>6, <1>7 DEF BootstrapInv

\* The schema of the peer is asked for, and compared with the new one.
LEMMA AskCompareStep ==
  ASSUME BootstrapInv, AskSchema \/ CompareSchemas
  PROVE  BootstrapInv'
  <1>1. /\ UNCHANGED <<local, peer, peerVersion, hosts, host, queue, history, counts>>
        /\ \/ pc = "ask" /\ pc' = "drop" /\ UNCHANGED <<schema, mode, place, damaged, bounds>>
           \/ pc = "compare" /\ pc' = "hosts" /\ UNCHANGED <<schema, mode, place, damaged, bounds>>
           \/ pc = "compare" /\ Quit /\ UNCHANGED <<damaged, bounds>>
    BY DEF AskSchema, CompareSchemas, Goto
  <1>2. hosts = {} /\ queue = {} /\ host = NULL /\ mode = "bootstrap"
    BY <1>1 DEF BootstrapInv, PlaceOK, Copying
  <1>3. CASE pc = "ask" /\ pc' = "drop" /\ UNCHANGED <<schema, mode, place, damaged, bounds>>
    <2>1. stmt = 0
      BY <1>3 DEF BootstrapInv, EvolutionInv
    <2>2. EvolutionInv'
      BY <1>3, <2>1, MoveStep, EvolutionTypes DEF BootstrapInv
    <2>3. PlaceOK' /\ EmptyOK'
      BY <1>1, <1>2, <1>3 DEF BootstrapInv, PlaceOK, EmptyOK, Copying
    <2>4. PeerOK' /\ LocalOK' /\ CopyOK' /\ FaithOK'
      BY <1>1, <1>2, <1>3, NotCopying DEF Copying
    <2>5. QED
      BY <2>2, <2>3, <2>4 DEF BootstrapInv
  <1>4. CASE pc = "compare" /\ pc' = "hosts" /\ UNCHANGED <<schema, mode, place, damaged, bounds>>
    <2>1. EvolutionInv'
      BY <1>4, MoveStep, EvolutionTypes DEF BootstrapInv
    <2>2. PlaceOK' /\ EmptyOK'
      BY <1>1, <1>2, <1>4 DEF BootstrapInv, PlaceOK, EmptyOK, Copying
    <2>3. PeerOK' /\ LocalOK' /\ CopyOK' /\ FaithOK'
      BY <1>1, <1>2, <1>4, NotCopying DEF Copying
    <2>4. QED
      BY <2>1, <2>2, <2>3 DEF BootstrapInv
  <1>5. CASE pc = "compare" /\ Quit /\ UNCHANGED <<damaged, bounds>>
    <2>1. EvolutionInv'
      BY <1>5, QuitStep, EvolutionTypes DEF BootstrapInv
    <2>2. mode' = "none" /\ pc' = "off" /\ objects' = objects
      BY <1>5 DEF Quit
    <2>3. PlaceOK' /\ EmptyOK'
      BY <1>1, <1>2, <2>2 DEF BootstrapInv, PlaceOK, EmptyOK, Copying
    <2>4. PeerOK' /\ LocalOK' /\ CopyOK' /\ FaithOK'
      BY <1>1, <1>2, <2>2, NotCopying DEF Copying
    <2>5. QED
      BY <2>1, <2>3, <2>4 DEF BootstrapInv
  <1>6. QED
    BY <1>1, <1>3, <1>4, <1>5

\* The command is killed.
LEMMA KillStep ==
  ASSUME BootstrapInv, KillCommand
  PROVE  BootstrapInv'
  <1>1. /\ Quit /\ damaged' = TRUE /\ runs' = runs /\ crashes' = crashes + 1
        /\ crashes < MaxCrashes /\ hosts' = {} /\ queue' = {} /\ host' = NULL
        /\ UNCHANGED <<local, peer, peerVersion, history, counts>>
    BY DEF KillCommand, Kill, Forget
  <1>2. crashes' \in 0..MaxCrashes
    BY <1>1, EvolutionTypes DEF BootstrapInv
  <1>3. EvolutionInv'
    BY <1>1, <1>2, QuitStep, EvolutionTypes DEF BootstrapInv
  <1>4. mode' = "none" /\ pc' = "off" /\ objects' = objects
    BY <1>1 DEF Quit
  <1>5. PlaceOK' /\ EmptyOK'
    BY <1>1, <1>4 DEF BootstrapInv, PlaceOK, EmptyOK, Copying
  <1>6. PeerOK' /\ LocalOK' /\ CopyOK' /\ FaithOK'
    BY <1>1, <1>4, NotCopying DEF Copying
  <1>7. QED
    BY <1>3, <1>5, <1>6 DEF BootstrapInv

--------------------------------------------------------------------------------
(* The steps that copy.                                                       *)

\* A step that goes on to another label leaves the schema alone.
LEMMA GotoStep ==
  ASSUME BootstrapInv, NEW label, Goto(label), pc \in {"hosts"} \cup Copying,
         label \in Copying
  PROVE  EvolutionInv' /\ pc' = label /\ mode' = mode /\ mode = "bootstrap" /\ objects' = objects
  <1>1. pc' = label /\ UNCHANGED <<schema, mode, place, damaged, bounds>>
    BY DEF Goto
  <1>2. EvolutionInv'
    BY <1>1, MoveStep, EvolutionTypes DEF BootstrapInv, Copying
  <1>3. mode = "bootstrap"
    BY DEF BootstrapInv, PlaceOK
  <1>4. QED
    BY <1>1, <1>2, <1>3

\* While rows are copied, both tables are there.
LEMMA TablesAreThere ==
  ASSUME BootstrapInv, pc \in {"hosts"} \cup Copying, pc' \in Copying, objects' = objects
  PROVE  EmptyOK'
  BY DEF BootstrapInv, EmptyOK, Copying

\* handle_all_hosts reads the list of crackers.
LEMMA GetHostsStep ==
  ASSUME BootstrapInv, GetHosts
  PROVE  BootstrapInv'
  <1>1. /\ pc = "hosts"
        /\ hosts' = {[id |-> c, ip |-> peerCrackers[c]] : c \in DOMAIN peerCrackers}
        /\ changed' = FALSE /\ renewed' = {} /\ lost' = FALSE
        /\ UNCHANGED <<local, peer, peerVersion, remote, host, queue, counts>>
    BY DEF GetHosts
  <1>2. PICK label \in {"tables", "insert"} : Goto(label) /\ (label = "tables" => hosts' = {})
    BY DEF GetHosts, NextHost
  <1>3. EvolutionInv' /\ pc' = label /\ mode' = mode /\ mode = "bootstrap" /\ objects' = objects
    BY <1>1, <1>2, GotoStep DEF Copying
  <1>4. crackers = <<>> /\ reports = <<>> /\ queue = {} /\ host = NULL
    BY <1>1, <1>3 DEF BootstrapInv, EmptyOK, PlaceOK, Copying
  <1>5. PeerOK /\ PeerOK'
    BY <1>1, SamePeer DEF BootstrapInv
  <1>6. PlaceOK'
    BY <1>1, <1>2, <1>3, <1>4 DEF PlaceOK, Copying
  <1>7. EmptyOK'
    BY <1>1, <1>3, TablesAreThere DEF Copying
  <1>8. /\ \A c \in DOMAIN peerCrackers : c \in Id /\ peerCrackers[c] \in Host
        /\ \A c, d \in DOMAIN peerCrackers : peerCrackers[c] = peerCrackers[d] => c = d
    BY <1>5 DEF PeerOK
  <1>9. LocalOK'
    <2>1. hosts' \subseteq [id : Id, ip : Host]
      BY <1>1, <1>8
    <2>2. \A c, d \in hosts' : c.id = d.id \/ c.ip = d.ip => c = d
      BY <1>1, <1>8
    <2>3. DOMAIN crackers = {} /\ DOMAIN reports = {}
      BY <1>4
    <2>4. QED
      BY <1>1, <1>4, <2>1, <2>2, <2>3 DEF BootstrapInv, LocalOK
  <1>10. CopyOK'
    BY <1>1, <1>4 DEF CopyOK
  <1>11. FaithOK'
    <2>1. DOMAIN crackers = {} /\ DOMAIN reports = {}
      BY <1>4
    <2>2. \A c \in hosts' : c.id \in DOMAIN peerCrackers /\ peerCrackers[c.id] = c.ip
      BY <1>1
    <2>3. QED
      BY <1>1, <1>4, <2>1, <2>2 DEF FaithOK
  <1>12. QED
    BY <1>3, <1>5, <1>6, <1>7, <1>9, <1>10, <1>11 DEF BootstrapInv

\* The next cracker of the list is inserted.
LEMMA InsertCrackerStep ==
  ASSUME BootstrapInv, InsertCracker
  PROVE  BootstrapInv'
  <1>1. PICK c \in hosts : /\ crackers' = InsertRow(crackers, c.id, c.ip)
                           /\ host' = c /\ hosts' = hosts \ {c}
    BY DEF InsertCracker
  <1>2. /\ pc = "insert" /\ Goto("reports")
        /\ UNCHANGED <<reports, others, peer, peerVersion, remote, queue, history, counts>>
    BY DEF InsertCracker
  <1>3. EvolutionInv' /\ pc' = "reports" /\ mode' = mode /\ mode = "bootstrap" /\ objects' = objects
    BY <1>2, GotoStep DEF Copying
  <1>4. LocalOK
    BY DEF BootstrapInv
  <1>5. /\ c \in [id : Id, ip : Host] /\ c.id \in Id /\ c.ip \in Host
        /\ c.id \notin DOMAIN crackers /\ \A d \in DOMAIN crackers : crackers[d] # c.ip
    BY <1>4 DEF LocalOK
  <1> DEFINE i == c.id
             ip == c.ip
  <1>6. i \in Id /\ ip \in Host /\ i \notin DOMAIN crackers /\ \A d \in DOMAIN crackers : crackers[d] # ip
    BY <1>5
  <1>7. crackers' = [k \in DOMAIN crackers \cup {i} |-> IF k = i THEN ip ELSE crackers[k]]
    BY <1>1 DEF InsertRow
  <1>8. /\ \A d \in hosts : d.id = i \/ d.ip = ip => d = c
        /\ c.id = i /\ c.ip = ip /\ c = [id |-> i, ip |-> ip]
    BY <1>4, <1>5 DEF LocalOK
  <1> HIDE DEF i, ip
  <1>9. /\ DOMAIN crackers' = DOMAIN crackers \cup {i} /\ crackers'[i] = ip
        /\ \A k \in DOMAIN crackers : crackers'[k] = crackers[k]
    BY <1>6, <1>7
  <1>10. PlaceOK'
    BY <1>1, <1>3, <1>5, <1>8, <1>9 DEF PlaceOK, Copying
  <1>11. EmptyOK'
    BY <1>2, <1>3, TablesAreThere DEF Copying
  <1>12. PeerOK'
    BY <1>2, SamePeer
  <1>13. LocalOK'
    <2>1. crackers' \in [DOMAIN crackers' -> Host] /\ DOMAIN crackers' \subseteq Id
      <3>1. \A k \in DOMAIN crackers : crackers[k] \in Host /\ k \in Id
        BY <1>4 DEF LocalOK
      <3>2. crackers' \in [DOMAIN crackers \cup {i} -> Host]
        BY <1>6, <1>7, <3>1
      <3>3. QED
        BY <1>6, <1>9, <3>1, <3>2
    <2>2. \A k, d \in DOMAIN crackers' : crackers'[k] = crackers'[d] => k = d
      BY <1>4, <1>6, <1>9 DEF LocalOK
    <2>3. \A d \in hosts' : d.id \notin DOMAIN crackers' /\ \A k \in DOMAIN crackers' : crackers'[k] # d.ip
      <3>1. \A d \in hosts' : d \in hosts /\ d # c
        BY <1>1
      <3>2. \A d \in hosts' : d.id # i /\ d.ip # ip
        BY <1>8, <3>1
      <3>3. \A d \in hosts : d.id \notin DOMAIN crackers /\ \A k \in DOMAIN crackers : crackers[k] # d.ip
        BY <1>4 DEF LocalOK
      <3>4. QED
        BY <1>9, <3>1, <3>2, <3>3
    <2>4. hosts' \subseteq [id : Id, ip : Host] /\ \A d, e \in hosts' : d.id = e.id \/ d.ip = e.ip => d = e
      BY <1>1, <1>4 DEF LocalOK
    <2>5. QED
      BY <1>2, <1>4, <2>1, <2>2, <2>3, <2>4 DEF LocalOK
  <1>14. CopyOK'
    <2>1. /\ \A r \in DOMAIN reports : reports[r] \in DOMAIN crackers \cup renewed
          /\ \A q \in queue : q.cracker \in DOMAIN crackers \cup renewed
          /\ \A k \in DOMAIN peerCrackers :
               \/ k \in renewed
               \/ [id |-> k, ip |-> peerCrackers[k]] \in hosts
               \/ k \in DOMAIN crackers /\ crackers[k] = peerCrackers[k]
      BY <1>2 DEF BootstrapInv, CopyOK, Copying
    <2>2. ASSUME NEW k \in DOMAIN peerCrackers
          PROVE  \/ k \in renewed
                 \/ [id |-> k, ip |-> peerCrackers[k]] \in hosts'
                 \/ k \in DOMAIN crackers' /\ crackers'[k] = peerCrackers[k]
      <3>1. CASE [id |-> k, ip |-> peerCrackers[k]] = c
        BY <1>8, <1>9, <3>1
      <3>2. CASE [id |-> k, ip |-> peerCrackers[k]] # c
        BY <1>1, <1>9, <2>1, <3>2
      <3>3. QED
        BY <3>1, <3>2
    <2>3. QED
      BY <1>2, <1>9, <2>1, <2>2 DEF CopyOK
  <1>15. FaithOK'
    <2>1. SUFFICES ASSUME ~changed, ~lost
                   PROVE  FaithOK'
      BY <1>2 DEF FaithOK
    <2>2. /\ \A k \in DOMAIN peerCrackers :
               [id |-> k, ip |-> peerCrackers[k]] \in hosts \/ k \in DOMAIN crackers
          /\ \A k \in DOMAIN crackers : k \in DOMAIN peerCrackers /\ crackers[k] = peerCrackers[k]
          /\ \A d \in hosts : d.id \in DOMAIN peerCrackers /\ peerCrackers[d.id] = d.ip
          /\ \A r \in DOMAIN reports : r \in DOMAIN peerReports /\ reports[r] = peerReports[r]
          /\ \A q \in queue : q.id \in DOMAIN peerReports /\ peerReports[q.id] = q.cracker
          /\ \A r \in DOMAIN peerReports :
               peerReports[r] \in DOMAIN crackers =>
                 r \in DOMAIN reports \/ [id |-> r, cracker |-> peerReports[r]] \in queue
      BY <1>2, <2>1 DEF BootstrapInv, FaithOK, Copying
    <2>3. i \in DOMAIN peerCrackers /\ peerCrackers[i] = ip
      BY <1>8, <2>2
    <2>4. \A k \in DOMAIN peerCrackers :
            [id |-> k, ip |-> peerCrackers[k]] \in hosts' \/ k \in DOMAIN crackers'
      BY <1>1, <1>8, <1>9, <2>2
    <2>5. \A k \in DOMAIN crackers' : k \in DOMAIN peerCrackers /\ crackers'[k] = peerCrackers[k]
      BY <1>9, <2>2, <2>3
    <2>6. \A r \in DOMAIN peerReports :
            peerReports[r] \in DOMAIN crackers' /\ ~(host'.id = peerReports[r]) =>
              r \in DOMAIN reports \/ [id |-> r, cracker |-> peerReports[r]] \in queue
      BY <1>1, <1>8, <1>9, <2>2
    <2>7. QED
      BY <1>1, <1>2, <1>3, <2>2, <2>4, <2>5, <2>6 DEF FaithOK
  <1>16. QED
    BY <1>3, <1>10, <1>11, <1>12, <1>13, <1>14, <1>15 DEF BootstrapInv

\* dump_reports_for_cracker: the reports of the cracker just copied are queued.
LEMMA GetReportsStep ==
  ASSUME BootstrapInv, GetReports
  PROVE  BootstrapInv'
  <1> DEFINE New == {[id |-> r, cracker |-> peerReports[r]] : r \in ReportsOfHost(host.ip)}
  <1>1. /\ pc = "reports" /\ queue' = queue \cup New /\ host' = NULL
        /\ UNCHANGED <<local, peer, peerVersion, remote, hosts, history, counts>>
    BY DEF GetReports
  <1>2. PICK label \in {"tables", "insert"} : Goto(label) /\ (label = "tables" => hosts = {})
    BY DEF GetReports, NextHost
  <1>3. EvolutionInv' /\ pc' = label /\ mode' = mode /\ mode = "bootstrap" /\ objects' = objects
    BY <1>1, <1>2, GotoStep DEF Copying
  <1>4. PeerOK /\ LocalOK
    BY DEF BootstrapInv
  <1>5. host \in [id : Id, ip : Host] /\ host.id \in DOMAIN crackers /\ crackers[host.id] = host.ip
    BY <1>1 DEF BootstrapInv, PlaceOK
  <1>6. ASSUME NEW r \in ReportsOfHost(host.ip)
        PROVE  /\ r \in DOMAIN peerReports /\ r \in Id /\ peerReports[r] \in Id
               /\ peerReports[r] \in DOMAIN peerCrackers
               /\ peerCrackers[peerReports[r]] = host.ip
    BY <1>4 DEF PeerOK, ReportsOfHost
  <1>7. ASSUME NEW q \in New
        PROVE  \E r \in ReportsOfHost(host.ip) : q = [id |-> r, cracker |-> peerReports[r]]
    OBVIOUS
  <1> HIDE DEF New
  <1>8. PlaceOK'
    BY <1>1, <1>2, <1>3 DEF PlaceOK, Copying
  <1>9. EmptyOK'
    BY <1>1, <1>3, TablesAreThere DEF Copying
  <1>10. PeerOK'
    BY <1>1, SamePeer
  <1>11. LocalOK'
    <2>1. New \subseteq [id : Id, cracker : Id]
      BY <1>6, <1>7
    <2>2. queue' \subseteq [id : Id, cracker : Id]
      BY <1>1, <1>4, <2>1 DEF LocalOK
    <2>3. QED
      BY <1>1, <1>4, <2>2 DEF LocalOK
  <1>12. CopyOK'
    <2>1. /\ \A r \in DOMAIN reports : reports[r] \in DOMAIN crackers \cup renewed
          /\ \A q \in queue : q.cracker \in DOMAIN crackers \cup renewed
          /\ \A k \in DOMAIN peerCrackers :
               \/ k \in renewed
               \/ [id |-> k, ip |-> peerCrackers[k]] \in hosts
               \/ k \in DOMAIN crackers /\ crackers[k] = peerCrackers[k]
      BY <1>1 DEF BootstrapInv, CopyOK, Copying
    <2>2. ASSUME NEW r \in ReportsOfHost(host.ip)
          PROVE  peerReports[r] \in DOMAIN crackers \cup renewed
      <3>1. [id |-> peerReports[r], ip |-> host.ip] \notin hosts
        <4>1. \A c \in hosts : c.ip # host.ip
          BY <1>4, <1>5 DEF LocalOK
        <4>2. QED
          BY <4>1
      <3>2. QED
        BY <1>6, <2>1, <3>1
    <2>3. \A q \in New : q.cracker \in DOMAIN crackers \cup renewed
      BY <1>7, <2>2
    <2>4. QED
      BY <1>1, <2>1, <2>3 DEF CopyOK
  <1>13. FaithOK'
    <2>1. SUFFICES ASSUME ~changed, ~lost
                   PROVE  FaithOK'
      BY <1>1 DEF FaithOK
    <2>2. /\ \A k \in DOMAIN peerCrackers :
               [id |-> k, ip |-> peerCrackers[k]] \in hosts \/ k \in DOMAIN crackers
          /\ \A k \in DOMAIN crackers : k \in DOMAIN peerCrackers /\ crackers[k] = peerCrackers[k]
          /\ \A d \in hosts : d.id \in DOMAIN peerCrackers /\ peerCrackers[d.id] = d.ip
          /\ \A r \in DOMAIN reports : r \in DOMAIN peerReports /\ reports[r] = peerReports[r]
          /\ \A q \in queue : q.id \in DOMAIN peerReports /\ peerReports[q.id] = q.cracker
          /\ \A r \in DOMAIN peerReports :
               peerReports[r] \in DOMAIN crackers /\ ~(host.id = peerReports[r]) =>
                 r \in DOMAIN reports \/ [id |-> r, cracker |-> peerReports[r]] \in queue
      BY <1>1, <2>1 DEF BootstrapInv, FaithOK, Copying
    <2>3. \A q \in queue' : q.id \in DOMAIN peerReports /\ peerReports[q.id] = q.cracker
      BY <1>1, <1>6, <1>7, <2>2
    <2>4. ASSUME NEW r \in DOMAIN peerReports, peerReports[r] = host.id
          PROVE  [id |-> r, cracker |-> peerReports[r]] \in queue'
      <3>1. peerCrackers[peerReports[r]] = host.ip
        BY <1>5, <2>2, <2>4
      <3>2. r \in ReportsOfHost(host.ip)
        BY <3>1 DEF ReportsOfHost
      <3>3. QED
        BY <1>1, <3>2 DEF New
    <2>5. \A r \in DOMAIN peerReports :
            peerReports[r] \in DOMAIN crackers =>
              r \in DOMAIN reports \/ [id |-> r, cracker |-> peerReports[r]] \in queue'
      BY <1>1, <2>2, <2>4
    <2>6. QED
      BY <1>1, <2>2, <2>3, <2>5 DEF FaithOK
  <1>14. QED
    BY <1>3, <1>8, <1>9, <1>10, <1>11, <1>12, <1>13 DEF BootstrapInv

\* What the schema and the labels say, when neither changes.
LEMMA SamePlace ==
  ASSUME BootstrapInv, UNCHANGED evolutionVars
  PROVE  EvolutionInv'
  BY Zenon DEF BootstrapInv, EvolutionInv, EvolutionTypeOK, evolutionVars

\* A queued insert is carried out.
LEMMA InsertReportStep ==
  ASSUME BootstrapInv, InsertReport
  PROVE  BootstrapInv'
  <1>1. PICK q \in queue : /\ q.id \notin DOMAIN reports
                           /\ reports' = InsertRow(reports, q.id, q.cracker)
                           /\ queue' = queue \ {q}
    BY DEF InsertReport
  <1>2. UNCHANGED <<evolutionVars, crackers, others, peer, peerVersion, remote, hosts, host, history, counts>>
    BY DEF InsertReport
  <1>3. pc \in Copying /\ pc' = pc /\ mode' = mode /\ objects' = objects /\ mode = "bootstrap"
    BY <1>1, <1>2 DEF BootstrapInv, PlaceOK, evolutionVars
  <1>4. LocalOK
    BY DEF BootstrapInv
  <1> DEFINE i == q.id
             k == q.cracker
  <1>5. i \in Id /\ k \in Id /\ i \notin DOMAIN reports /\ q = [id |-> i, cracker |-> k]
    BY <1>1, <1>4 DEF LocalOK
  <1>6. reports' = [r \in DOMAIN reports \cup {i} |-> IF r = i THEN k ELSE reports[r]]
    BY <1>1 DEF InsertRow
  <1>7. q.id = i /\ q.cracker = k
    OBVIOUS
  <1> HIDE DEF i, k
  <1>8. /\ DOMAIN reports' = DOMAIN reports \cup {i} /\ reports'[i] = k
        /\ \A r \in DOMAIN reports : reports'[r] = reports[r]
    BY <1>5, <1>6
  <1>9. EvolutionInv'
    BY <1>2, SamePlace
  <1>10. PlaceOK'
    BY <1>2, <1>3 DEF BootstrapInv, PlaceOK, evolutionVars
  <1>11. EmptyOK'
    BY <1>3, TablesAreThere
  <1>12. PeerOK'
    BY <1>2, SamePeer
  <1>13. LocalOK'
    <2>1. \A r \in DOMAIN reports : reports[r] \in Id /\ r \in Id
      BY <1>4 DEF LocalOK
    <2>2. reports' \in [DOMAIN reports \cup {i} -> Id]
      BY <1>5, <1>6, <2>1
    <2>3. reports' \in [DOMAIN reports' -> Id] /\ DOMAIN reports' \subseteq Id
      BY <1>5, <1>8, <2>1, <2>2
    <2>4. QED
      BY <1>1, <1>2, <1>4, <2>3 DEF LocalOK
  <1>14. CopyOK'
    <2>1. CopyOK /\ pc \in Copying
      BY <1>3 DEF BootstrapInv
    <2>2. /\ \A r \in DOMAIN reports' : reports'[r] \in DOMAIN crackers \cup renewed
          /\ \A p \in queue' : p.cracker \in DOMAIN crackers \cup renewed
      BY <1>1, <1>7, <1>8, <2>1 DEF CopyOK
    <2>3. QED
      BY <1>2, <1>3, <2>1, <2>2 DEF CopyOK
  <1>15. FaithOK'
    <2>1. SUFFICES ASSUME ~changed, ~lost
                   PROVE  FaithOK'
      BY <1>2 DEF FaithOK
    <2>2. /\ \A r \in DOMAIN reports : r \in DOMAIN peerReports /\ reports[r] = peerReports[r]
          /\ \A p \in queue : p.id \in DOMAIN peerReports /\ peerReports[p.id] = p.cracker
          /\ \A r \in DOMAIN peerReports :
               peerReports[r] \in DOMAIN crackers /\ ~(pc = "reports" /\ host.id = peerReports[r]) =>
                 r \in DOMAIN reports \/ [id |-> r, cracker |-> peerReports[r]] \in queue
      BY <1>3, <2>1 DEF BootstrapInv, FaithOK
    <2>3. i \in DOMAIN peerReports /\ peerReports[i] = k
      BY <1>7, <2>2
    <2>4. \A r \in DOMAIN reports' : r \in DOMAIN peerReports /\ reports'[r] = peerReports[r]
      BY <1>8, <2>2, <2>3
    <2>5. \A p \in queue' : p.id \in DOMAIN peerReports /\ peerReports[p.id] = p.cracker
      BY <1>1, <2>2
    <2>6. ASSUME NEW r \in DOMAIN peerReports, peerReports[r] \in DOMAIN crackers,
                 ~(pc = "reports" /\ host.id = peerReports[r])
          PROVE  r \in DOMAIN reports' \/ [id |-> r, cracker |-> peerReports[r]] \in queue'
      <3>1. CASE [id |-> r, cracker |-> peerReports[r]] = q
        BY <1>7, <1>8, <3>1
      <3>2. CASE [id |-> r, cracker |-> peerReports[r]] # q
        BY <1>1, <1>8, <2>2, <2>6, <3>2
      <3>3. QED
        BY <3>1, <3>2
    <2>7. QED
      BY <1>2, <1>3, <2>1, <2>4, <2>5, <2>6 DEF BootstrapInv, FaithOK
  <1>16. QED
    BY <1>9, <1>10, <1>11, <1>12, <1>13, <1>14, <1>15 DEF BootstrapInv

\* A queued insert fails, unnoticed.
LEMMA LoseReportStep ==
  ASSUME BootstrapInv, LoseReport
  PROVE  BootstrapInv'
  <1>1. PICK q \in queue : queue' = queue \ {q}
    BY DEF LoseReport
  <1>2. /\ lost' = TRUE
        /\ UNCHANGED <<evolutionVars, local, peer, peerVersion, remote, hosts, host, changed, renewed>>
    BY DEF LoseReport
  <1>3. pc \in Copying /\ pc' = pc /\ mode' = mode /\ objects' = objects
    BY <1>1, <1>2 DEF BootstrapInv, PlaceOK, evolutionVars
  <1>4. EvolutionInv'
    BY <1>2, SamePlace
  <1>5. PlaceOK'
    BY <1>2, <1>3 DEF BootstrapInv, PlaceOK
  <1>6. EmptyOK'
    BY <1>3, TablesAreThere
  <1>7. PeerOK'
    BY <1>2, SamePeer
  <1>8. LocalOK'
    <2>1. lost' \in BOOLEAN
      BY <1>2
    <2>2. QED
      BY <1>1, <1>2, <2>1 DEF BootstrapInv, LocalOK
  <1>9. CopyOK'
    BY <1>1, <1>2, <1>3 DEF BootstrapInv, CopyOK
  <1>10. FaithOK'
    BY <1>2 DEF FaithOK
  <1>11. QED
    BY <1>4, <1>5, <1>6, <1>7, <1>8, <1>9, <1>10 DEF BootstrapInv

\* The other tables are "copied".
LEMMA CopyTablesStep ==
  ASSUME BootstrapInv, CopyTables
  PROVE  BootstrapInv'
  <1>1. pc = "tables" /\ UNCHANGED <<crackers, reports, peer, peerVersion, copying, history, counts>>
    BY DEF CopyTables
  <1>2. EvolutionInv' /\ pc' = "exit" /\ mode' = mode /\ mode = "bootstrap" /\ objects' = objects
    BY <1>1, GotoStep DEF Copying, CopyTables
  <1>3. PlaceOK'
    BY <1>1, <1>2 DEF BootstrapInv, PlaceOK, Copying
  <1>4. EmptyOK'
    BY <1>1, <1>2, TablesAreThere DEF Copying
  <1>5. PeerOK'
    BY <1>1, SamePeer
  <1>6. LocalOK'
    BY <1>1 DEF BootstrapInv, LocalOK
  <1>7. CopyOK'
    BY <1>1, <1>2 DEF BootstrapInv, CopyOK, Copying
  <1>8. FaithOK'
    BY <1>1, <1>2 DEF BootstrapInv, FaithOK, Copying
  <1>9. QED
    BY <1>2, <1>3, <1>4, <1>5, <1>6, <1>7, <1>8 DEF BootstrapInv

\* The process ends.
LEMMA ExitStep ==
  ASSUME BootstrapInv, Exit
  PROVE  BootstrapInv'
  <1>1. /\ pc = "exit" /\ queue = {} /\ pc' = "off" /\ step' = 0 /\ stmt' = 0 /\ mode' = "none"
        /\ UNCHANGED <<schema, damaged, bounds, local, peer, peerVersion, copying, history, counts>>
    BY DEF Exit, Begin
  <1>2. EvolutionInv'
    BY <1>1, MoveStep, EvolutionTypes DEF BootstrapInv
  <1>3. hosts = {} /\ host = NULL
    BY <1>1 DEF BootstrapInv, PlaceOK
  <1>4. PlaceOK' /\ EmptyOK'
    BY <1>1, <1>3 DEF BootstrapInv, PlaceOK, EmptyOK, Copying
  <1>5. PeerOK' /\ LocalOK' /\ CopyOK' /\ FaithOK'
    BY <1>1, <1>3, NotCopying DEF Copying
  <1>6. QED
    BY <1>2, <1>4, <1>5 DEF BootstrapInv

\* A call fails; the reports that were queued are still inserted.
LEMMA FailCallStep ==
  ASSUME BootstrapInv, FailCall
  PROVE  BootstrapInv'
  <1>1. /\ pc \in {"ask", "hosts", "insert", "reports", "tables"}
        /\ hosts' = {} /\ host' = NULL /\ lost' = TRUE
        /\ UNCHANGED <<local, peer, peerVersion, queue, changed, renewed, changes>>
        /\ \/ pc = "ask" /\ Quit /\ UNCHANGED <<damaged, bounds>>
           \/ pc # "ask" /\ Goto("exit")
    BY DEF FailCall
  <1>2. PeerOK'
    BY <1>1, SamePeer
  <1>3. LocalOK'
    <2>1. lost' \in BOOLEAN
      BY <1>1
    <2>2. \A c \in hosts' : FALSE
      BY <1>1
    <2>3. hosts' \subseteq [id : Id, ip : Host]
      BY <1>1
    <2>4. QED
      BY <1>1, <2>1, <2>2, <2>3 DEF BootstrapInv, LocalOK
  <1>4. FaithOK'
    BY <1>1 DEF FaithOK
  <1>5. CASE pc = "ask" /\ Quit /\ UNCHANGED <<damaged, bounds>>
    <2>1. EvolutionInv'
      BY <1>5, QuitStep, EvolutionTypes DEF BootstrapInv
    <2>2. mode' = "none" /\ pc' = "off" /\ objects' = objects /\ queue = {}
      BY <1>5 DEF Quit, BootstrapInv, PlaceOK, Copying
    <2>3. PlaceOK' /\ EmptyOK' /\ CopyOK'
      BY <1>1, <2>2 DEF BootstrapInv, PlaceOK, EmptyOK, CopyOK, Copying
    <2>4. QED
      BY <1>2, <1>3, <1>4, <2>1, <2>3 DEF BootstrapInv
  <1>6. CASE pc # "ask" /\ Goto("exit")
    <2>1. EvolutionInv' /\ pc' = "exit" /\ mode' = mode /\ mode = "bootstrap" /\ objects' = objects
      BY <1>1, <1>6, GotoStep DEF Copying
    <2>2. PlaceOK'
      BY <1>1, <2>1 DEF PlaceOK, Copying
    <2>3. EmptyOK'
      BY <1>1, <1>6, <2>1, TablesAreThere DEF Copying
    <2>4. CopyOK'
      <3>1. CASE pc = "hosts"
        <4>1. reports = <<>> /\ queue = {}
          BY <2>1, <3>1 DEF BootstrapInv, EmptyOK, PlaceOK, Copying
        <4>2. DOMAIN reports = {}
          BY <4>1
        <4>3. QED
          BY <1>1, <2>1, <4>1, <4>2 DEF CopyOK
      <3>2. CASE pc \in Copying
        BY <1>1, <2>1, <3>2 DEF BootstrapInv, CopyOK
      <3>3. QED
        BY <1>1, <1>6, <3>1, <3>2 DEF Copying
    <2>5. QED
      BY <1>2, <1>3, <1>4, <2>1, <2>2, <2>3, <2>4 DEF BootstrapInv
  <1>7. QED
    BY <1>1, <1>5, <1>6

--------------------------------------------------------------------------------
(* The steps of the peer.                                                     *)

\* They leave the command alone, and the copy may differ from then on.
LEMMA ChangeStep ==
  ASSUME BootstrapInv, Change, renewed \subseteq renewed', renewed' \subseteq Id
  PROVE  /\ EvolutionInv' /\ PlaceOK' /\ EmptyOK' /\ LocalOK' /\ FaithOK'
         /\ UNCHANGED <<pc, crackers, reports, hosts, queue>>
         /\ (\A c \in DOMAIN peerCrackers' :
               c \in renewed' \/ (c \in DOMAIN peerCrackers /\ peerCrackers'[c] = peerCrackers[c]))
            => CopyOK'
  <1>1. /\ changed' = TRUE
        /\ UNCHANGED <<evolutionVars, local, peerVersion, copying, lost, failures>>
    BY DEF Change
  <1>2. EvolutionInv'
    BY <1>1, SamePlace
  <1>3. PlaceOK' /\ EmptyOK'
    BY <1>1 DEF BootstrapInv, PlaceOK, EmptyOK, evolutionVars
  <1>4. LocalOK'
    <2>1. changed' \in BOOLEAN
      BY <1>1
    <2>2. QED
      BY <1>1, <2>1 DEF BootstrapInv, LocalOK
  <1>5. FaithOK'
    BY <1>1 DEF FaithOK
  <1>6. UNCHANGED <<pc, crackers, reports, hosts, queue>>
    BY <1>1 DEF evolutionVars
  <1>7. ASSUME \A c \in DOMAIN peerCrackers' :
                 c \in renewed' \/ (c \in DOMAIN peerCrackers /\ peerCrackers'[c] = peerCrackers[c])
        PROVE  CopyOK'
    <2>1. SUFFICES ASSUME pc \in Copying
                   PROVE  CopyOK'
      BY <1>6 DEF CopyOK
    <2>2. /\ \A r \in DOMAIN reports : reports[r] \in DOMAIN crackers \cup renewed
          /\ \A q \in queue : q.cracker \in DOMAIN crackers \cup renewed
          /\ pc # "exit" =>
               \A c \in DOMAIN peerCrackers :
                 \/ c \in renewed
                 \/ [id |-> c, ip |-> peerCrackers[c]] \in hosts
                 \/ c \in DOMAIN crackers /\ crackers[c] = peerCrackers[c]
      BY <2>1 DEF BootstrapInv, CopyOK
    <2>3. pc # "exit" =>
            \A c \in DOMAIN peerCrackers' :
              \/ c \in renewed'
              \/ [id |-> c, ip |-> peerCrackers'[c]] \in hosts
              \/ c \in DOMAIN crackers /\ crackers[c] = peerCrackers'[c]
      BY <1>7, <2>2
    <2>4. QED
      BY <1>6, <2>2, <2>3 DEF CopyOK
  <1>8. QED
    BY <1>2, <1>3, <1>4, <1>5, <1>6, <1>7

LEMMA PeerReportStep ==
  ASSUME BootstrapInv, NEW ip \in Host, PeerReport(ip)
  PROVE  BootstrapInv'
  <1>1. PeerOK /\ Change
    BY DEF PeerReport, BootstrapInv
  <1>2. renewed \subseteq Id
    BY DEF BootstrapInv, LocalOK
  <1>3. CASE CrackerOf(ip) = {}
    <2> DEFINE c == peerIds.crackers
               r == peerIds.reports
    <2>1. /\ peerCrackers' = InsertRow(peerCrackers, c, ip)
          /\ peerReports' = InsertRow(peerReports, r, c)
          /\ peerIds' = [crackers |-> c + 1, reports |-> r + 1]
          /\ renewed' = renewed \cup {c}
      BY <1>3 DEF PeerReport
    <2>2. /\ c \in Id /\ r \in Id
          /\ \A d \in DOMAIN peerCrackers : d \in Id /\ d < c
          /\ \A d \in DOMAIN peerReports : d \in Id /\ d < r
      BY <1>1 DEF PeerOK
    <2> HIDE DEF c, r
    <2>3. c \notin DOMAIN peerCrackers /\ r \notin DOMAIN peerReports
      BY <2>2 DEF Id
    <2>4. \A d \in DOMAIN peerCrackers : peerCrackers[d] # ip
      BY <1>3 DEF CrackerOf
    <2>5. /\ peerCrackers' = [k \in DOMAIN peerCrackers \cup {c} |-> IF k = c THEN ip ELSE peerCrackers[k]]
          /\ peerReports' = [k \in DOMAIN peerReports \cup {r} |-> IF k = r THEN c ELSE peerReports[k]]
      BY <2>1 DEF InsertRow
    <2>6. /\ \A k \in DOMAIN peerCrackers : peerCrackers[k] \in Host
          /\ \A k \in DOMAIN peerReports : peerReports[k] \in DOMAIN peerCrackers
      BY <1>1 DEF PeerOK
    <2>7. /\ DOMAIN peerCrackers' = DOMAIN peerCrackers \cup {c} /\ peerCrackers'[c] = ip
          /\ \A k \in DOMAIN peerCrackers : peerCrackers'[k] = peerCrackers[k]
          /\ DOMAIN peerReports' = DOMAIN peerReports \cup {r}
      BY <2>3, <2>5
    <2>8. peerCrackers' \in [DOMAIN peerCrackers' -> Host]
      <3>1. peerCrackers' \in [DOMAIN peerCrackers \cup {c} -> Host]
        BY <2>5, <2>6
      <3>2. QED
        BY <2>7, <3>1
    <2>9. peerReports' \in [DOMAIN peerReports' -> DOMAIN peerCrackers']
      <3>1. peerReports' \in [DOMAIN peerReports \cup {r} -> DOMAIN peerCrackers']
        BY <2>5, <2>6, <2>7
      <3>2. QED
        BY <2>7, <3>1
    <2>10. /\ peerIds' \in [crackers : Id, reports : Id]
           /\ peerIds'.crackers = c + 1 /\ peerIds'.reports = r + 1
      BY <2>1, <2>2 DEF Id
    <2>11. /\ \A d \in DOMAIN peerCrackers' : d \in Id /\ d < peerIds'.crackers
           /\ \A d \in DOMAIN peerReports' : d \in Id /\ d < peerIds'.reports
      BY <2>2, <2>7, <2>10 DEF Id
    <2>12. \A d, e \in DOMAIN peerCrackers' : peerCrackers'[d] = peerCrackers'[e] => d = e
      <3>1. \A d, e \in DOMAIN peerCrackers : peerCrackers[d] = peerCrackers[e] => d = e
        BY <1>1 DEF PeerOK
      <3>2. QED
        BY <2>4, <2>7, <3>1
    <2>13. PeerOK'
      BY <2>8, <2>9, <2>10, <2>11, <2>12 DEF PeerOK
    <2>14. renewed \subseteq renewed' /\ renewed' \subseteq Id
      BY <1>2, <2>1, <2>2
    <2>15. \A k \in DOMAIN peerCrackers' :
             k \in renewed' \/ (k \in DOMAIN peerCrackers /\ peerCrackers'[k] = peerCrackers[k])
      BY <2>1, <2>7
    <2>16. QED
      BY <1>1, <2>13, <2>14, <2>15, ChangeStep DEF BootstrapInv
  <1>4. CASE CrackerOf(ip) # {}
    <2> DEFINE r == peerIds.reports
    <2>1. PICK c \in CrackerOf(ip) : peerReports' = InsertRow(peerReports, r, c)
      BY <1>4 DEF PeerReport
    <2>2. peerIds' = [peerIds EXCEPT !.reports = @ + 1] /\ UNCHANGED <<peerCrackers, renewed>>
      BY <1>4 DEF PeerReport
    <2>3. /\ r \in Id /\ \A d \in DOMAIN peerReports : d \in Id /\ d < r
      BY <1>1 DEF PeerOK
    <2>4. /\ peerIds' \in [crackers : Id, reports : Id]
          /\ peerIds'.crackers = peerIds.crackers /\ peerIds'.reports = r + 1
      BY <1>1, <2>2 DEF PeerOK, Id
    <2> HIDE DEF r
    <2>5. peerReports' = [k \in DOMAIN peerReports \cup {r} |-> IF k = r THEN c ELSE peerReports[k]]
      BY <2>1 DEF InsertRow
    <2>6. c \in DOMAIN peerCrackers
      BY DEF CrackerOf
    <2>7. DOMAIN peerReports' = DOMAIN peerReports \cup {r}
      BY <2>5
    <2>8. peerReports' \in [DOMAIN peerReports' -> DOMAIN peerCrackers']
      <3>1. \A k \in DOMAIN peerReports : peerReports[k] \in DOMAIN peerCrackers
        BY <1>1 DEF PeerOK
      <3>2. peerReports' \in [DOMAIN peerReports \cup {r} -> DOMAIN peerCrackers]
        BY <2>5, <2>6, <3>1
      <3>3. QED
        BY <2>2, <2>7, <3>2
    <2>9. \A d \in DOMAIN peerReports' : d \in Id /\ d < peerIds'.reports
      BY <2>3, <2>4, <2>7 DEF Id
    <2>10. PeerOK'
      BY <1>1, <2>2, <2>4, <2>8, <2>9 DEF PeerOK
    <2>11. \A k \in DOMAIN peerCrackers' :
             k \in renewed' \/ (k \in DOMAIN peerCrackers /\ peerCrackers'[k] = peerCrackers[k])
      BY <2>2
    <2>12. QED
      BY <1>1, <1>2, <2>2, <2>10, <2>11, ChangeStep DEF BootstrapInv
  <1>5. QED
    BY <1>3, <1>4

LEMMA PeerExpireStep ==
  ASSUME BootstrapInv, NEW r \in DOMAIN peerReports, PeerExpire(r)
  PROVE  BootstrapInv'
  <1> DEFINE c == peerReports[r]
             last == \A s \in DOMAIN peerReports \ {r} : peerReports[s] # c
  <1>1. /\ PeerOK /\ Change
        /\ peerReports' = DeleteRow(peerReports, r)
        /\ peerCrackers' = (IF last THEN DeleteRow(peerCrackers, c) ELSE peerCrackers)
        /\ UNCHANGED <<peerIds, renewed>>
    BY DEF PeerExpire, BootstrapInv
  <1>2. renewed \subseteq Id
    BY DEF BootstrapInv, LocalOK
  <1>3. peerReports' = [k \in DOMAIN peerReports \ {r} |-> peerReports[k]]
    BY <1>1 DEF DeleteRow, Restrict
  <1>4. /\ DOMAIN peerReports' = DOMAIN peerReports \ {r}
        /\ \A k \in DOMAIN peerReports' : peerReports'[k] = peerReports[k]
    BY <1>3
  <1>5. /\ peerCrackers' = [k \in DOMAIN peerCrackers' |-> peerCrackers[k]]
        /\ DOMAIN peerCrackers' \subseteq DOMAIN peerCrackers
        /\ \A k \in DOMAIN peerCrackers' : peerCrackers'[k] = peerCrackers[k]
        /\ \A k \in DOMAIN peerReports' : peerReports[k] \in DOMAIN peerCrackers'
    <2>1. peerCrackers \in [DOMAIN peerCrackers -> Host] /\ \A k \in DOMAIN peerReports : peerReports[k] \in DOMAIN peerCrackers
      BY <1>1 DEF PeerOK
    <2>2. CASE last
      <3>1. peerCrackers' = [k \in DOMAIN peerCrackers \ {c} |-> peerCrackers[k]]
        BY <1>1, <2>2 DEF DeleteRow, Restrict
      <3>2. \A k \in DOMAIN peerReports' : peerReports[k] # c
        BY <1>4, <2>2
      <3> HIDE DEF c, last
      <3>3. DOMAIN peerCrackers' = DOMAIN peerCrackers \ {c}
        BY <3>1
      <3>4. QED
        BY <1>4, <2>1, <3>1, <3>2, <3>3
    <2>3. CASE ~last
      <3>1. peerCrackers' = peerCrackers
        BY <1>1, <2>3
      <3> HIDE DEF c, last
      <3>2. QED
        BY <1>4, <2>1, <3>1
    <2>4. QED
      BY <2>2, <2>3
  <1> HIDE DEF c, last
  <1>6. PeerOK'
    <2>1. \A k \in DOMAIN peerCrackers : peerCrackers[k] \in Host
      BY <1>1 DEF PeerOK
    <2>2. peerCrackers' \in [DOMAIN peerCrackers' -> Host]
      BY <1>5, <2>1
    <2>3. peerReports' \in [DOMAIN peerReports' -> DOMAIN peerCrackers']
      BY <1>3, <1>4, <1>5
    <2>4. QED
      BY <1>1, <1>4, <1>5, <2>2, <2>3 DEF PeerOK
  <1>7. QED
    BY <1>1, <1>2, <1>5, <1>6, ChangeStep DEF BootstrapInv

--------------------------------------------------------------------------------
(* The theorems.                                                              *)

LEMMA BootstrapStart == Init => BootstrapInv
  <1> SUFFICES ASSUME Init PROVE BootstrapInv
    OBVIOUS
  <1> DEFINE n == Cardinality(Host)
  <1>1. n \in Nat
    BY FS_CardinalityType
  <1>2. EvolutionInit
    BY DEF Init
  <1>3. EvolutionInv
    <2>1. /\ unsaved = version /\ mode = "none" /\ pc = "off" /\ step = 0 /\ stmt = 0
          /\ damaged = FALSE /\ runs = 0 /\ crashes = 0
      BY <1>2 DEF EvolutionInit
    <2>2. Latest = 8 /\ Len(Dropped) = 6
      BY NothingIsLeft DEF Latest
    <2>3. /\ objects \subseteq Whole(8) /\ version \in 1..8 \cup {NULL}
          /\ objects = Settled(version) /\ Kept(version) \subseteq objects
      <3>1. CASE objects = {} /\ version = NULL
        BY <3>1 DEF Settled, Kept
      <3>2. CASE \E v \in 1..Latest : objects = Whole(v) /\ version = v
        <4>1. PICK v \in 1..8 : objects = Whole(v) /\ version = v
          BY <2>2, <3>2
        <4>2. v # NULL /\ Settled(version) = objects
          BY <4>1 DEF Settled
        <4>3. Whole(v) \subseteq Whole(8)
          <5>1. v \in {1, 2, 3, 4, 5, 6, 7, 8}
            OBVIOUS
          <5>2. QED
            BY <5>1, WholeAre
        <4>4. CASE v = 8
          BY <2>2, <4>1, <4>2, <4>3, <4>4 DEF Kept
        <4>5. CASE v # 8
          <5>1. v \in 0..7 /\ Certain(v + 1, 0) \subseteq Whole(v)
            BY <4>5, StepsBegin
          <5>2. QED
            BY <2>2, <4>1, <4>2, <4>3, <4>5, <5>1 DEF Kept
        <4>6. QED
          BY <4>4, <4>5
      <3>3. QED
        BY <1>2, <3>1, <3>2 DEF EvolutionInit
    <2>4. EvolutionTypeOK
      <3>1. damaged \in BOOLEAN
        BY <2>1
      <3>2. runs \in 0..MaxRuns /\ crashes \in 0..MaxCrashes
        BY <2>1
      <3>3. unsaved \in 1..8 \cup {NULL} /\ step \in 0..9 /\ stmt \in 0..6
        BY <2>1, <2>3
      <3>4. QED
        BY <2>1, <2>2, <2>3, <3>1, <3>2, <3>3 DEF EvolutionTypeOK
    <2>5. QED
      BY <2>1, <2>3, <2>4 DEF EvolutionInv
  <1>4. /\ pc = "off" /\ mode = "none" /\ hosts = {} /\ queue = {} /\ host = NULL
        /\ changed = FALSE /\ lost = FALSE /\ renewed = {}
        /\ reports = (IF "reports" \in objects THEN <<1>> ELSE <<>>)
    BY <1>2 DEF Init, EvolutionInit
  <1>5. PICK h \in Host : crackers = IF "crackers" \in objects THEN <<h>> ELSE <<>>
    BY DEF Init
  <1>6. PICK s \in [1..n -> Host] : (\A i, k \in DOMAIN s : s[i] = s[k] => i = k) /\ peerCrackers = s
    BY DEF Init
  <1>7. /\ peerReports = [i \in 1..n |-> i]
        /\ peerIds = [crackers |-> n + 1, reports |-> n + 1]
    BY DEF Init
  <1> HIDE DEF n
  <1>8. PlaceOK /\ EmptyOK
    BY <1>4, <1>5 DEF PlaceOK, EmptyOK, Copying
  <1>9. PeerOK
    <2>1. DOMAIN peerCrackers = 1..n /\ DOMAIN peerReports = 1..n
      BY <1>6, <1>7
    <2>2. peerIds \in [crackers : Id, reports : Id] /\ peerIds.crackers = n + 1 /\ peerIds.reports = n + 1
      BY <1>1, <1>7 DEF Id
    <2>3. \A i \in 1..n : i \in Id /\ i < n + 1
      BY <1>1 DEF Id
    <2>4. peerReports \in [DOMAIN peerReports -> DOMAIN peerCrackers]
      BY <1>7, <2>1
    <2>5. QED
      BY <1>6, <2>1, <2>2, <2>3, <2>4 DEF PeerOK
  <1>10. LocalOK
    <2>1. /\ crackers \in [DOMAIN crackers -> Host] /\ DOMAIN crackers \subseteq Id
          /\ \A c, d \in DOMAIN crackers : crackers[c] = crackers[d] => c = d
      BY <1>5 DEF Id
    <2>2. reports \in [DOMAIN reports -> Id] /\ DOMAIN reports \subseteq Id
      BY <1>4 DEF Id
    <2>3. changed \in BOOLEAN /\ lost \in BOOLEAN
      BY <1>4
    <2>4. QED
      BY <1>4, <2>1, <2>2, <2>3 DEF LocalOK
  <1>11. CopyOK /\ FaithOK
    BY <1>4 DEF CopyOK, FaithOK, Copying
  <1>12. QED
    BY <1>3, <1>8, <1>9, <1>10, <1>11 DEF BootstrapInv

LEMMA BootstrapSteps ==
  ASSUME BootstrapInv, [Next]_vars
  PROVE  BootstrapInv'
  <1>1. CASE CommandStep
    BY <1>1, SchemaStepStep, AskCompareStep, GetHostsStep, InsertCrackerStep, GetReportsStep,
       InsertReportStep, CopyTablesStep, ExitStep
    DEF CommandStep, BootstrapStep
  <1>2. CASE PeerStep
    BY <1>2, PeerReportStep, PeerExpireStep DEF PeerStep
  <1>3. CASE UNCHANGED vars
    <2>1. UNCHANGED <<evolutionVars, local, peer, peerVersion, copying, history, counts>>
      BY <1>3 DEF vars
    <2>2. EvolutionInv'
      BY <2>1, SamePlace
    <2>3. PlaceOK' /\ EmptyOK' /\ PeerOK' /\ LocalOK' /\ CopyOK' /\ FaithOK'
      BY <2>1, Zenon
      DEF BootstrapInv, PlaceOK, EmptyOK, PeerOK, LocalOK, CopyOK, FaithOK, evolutionVars
    <2>4. QED
      BY <2>2, <2>3 DEF BootstrapInv
  <1>4. QED
    BY <1>1, <1>2, <1>3, FailCallStep, LoseReportStep, KillStep, BeginStep DEF Next

\* The inductive invariant: the schema is what the version and the place of the
\* command say; the rows copied, queued and still to be asked for are the peer's.
THEOREM BootstrapInvariant == Spec => []BootstrapInv
  BY BootstrapStart, BootstrapSteps, PTL DEF Spec

\* The tables, the queue and the list of hosts have their types, and no two local
\* crackers have the same address.
THEOREM BootstrapTypes == Spec => []TypeOK
  <1>1. BootstrapInv => TypeOK
    <2> SUFFICES ASSUME BootstrapInv PROVE TypeOK
      OBVIOUS
    <2>1. EvolutionTypeOK /\ PlaceOK /\ PeerOK /\ LocalOK
      BY DEF BootstrapInv, EvolutionInv
    <2>2. host \in [id : Id, ip : Host] \cup {NULL}
      BY <2>1 DEF PlaceOK
    <2>3. /\ \A c \in DOMAIN crackers : crackers[c] \in Host
          /\ \A c \in DOMAIN peerCrackers : peerCrackers[c] \in Host
      BY <2>1 DEF LocalOK, PeerOK
    <2>4. QED
      BY <2>1, <2>2, <2>3 DEF LocalOK, TypeOK
  <1>2. QED
    BY <1>1, BootstrapInvariant, PTL

\* check_database_version: the server only starts with the latest version, and then
\* the schema is whole, at whatever statements commands were killed.
THEOREM VersionTellsTheTruth == Spec => []VersionIsTrue
  <1>1. BootstrapInv => VersionIsTrue
    <2> SUFFICES ASSUME BootstrapInv, version = Latest PROVE objects = Whole(Latest)
      BY DEF VersionIsTrue
    <2>1. Kept(version) \subseteq objects /\ objects \subseteq Whole(Latest)
      BY DEF BootstrapInv, EvolutionInv, EvolutionTypeOK
    <2>2. Kept(version) = Whole(Latest)
      BY EvolutionTypes DEF BootstrapInv, Kept
    <2>3. QED
      BY <2>1, <2>2
  <1>2. QED
    BY <1>1, BootstrapInvariant, PTL

\* _evolve_database: from any release, each statement finds what it needs; only what
\* a killed command left behind is in its way.
THEOREM StatementsFollowOn == Spec => []StepsFollowOn
  <1>1. BootstrapInv => StepsFollowOn
    BY RefusedIsDamaged DEF BootstrapInv
  <1>2. QED
    BY <1>1, BootstrapInvariant, PTL

\* bootstrap_from: at its end the crackers and reports are those of a peer that did not
\* change, if nothing failed.
THEOREM BootstrapCopies == Spec => []CopyIsFaithful
  <1>1. BootstrapInv => CopyIsFaithful
    <2> SUFFICES ASSUME BootstrapInv, pc = "exit", queue = {}, ~changed, ~lost
                 PROVE  crackers = peerCrackers /\ reports = peerReports
      BY DEF CopyIsFaithful
    <2>1. /\ hosts = {} /\ FaithOK /\ pc \in Copying
      BY DEF BootstrapInv, PlaceOK, Copying
    <2>2. /\ crackers = [c \in DOMAIN crackers |-> crackers[c]]
          /\ reports = [r \in DOMAIN reports |-> reports[r]]
          /\ peerCrackers = [c \in DOMAIN peerCrackers |-> peerCrackers[c]]
          /\ peerReports = [r \in DOMAIN peerReports |-> peerReports[r]]
          /\ \A r \in DOMAIN peerReports : peerReports[r] \in DOMAIN peerCrackers
      BY DEF BootstrapInv, LocalOK, PeerOK
    <2>3. /\ DOMAIN crackers = DOMAIN peerCrackers
          /\ \A c \in DOMAIN crackers : crackers[c] = peerCrackers[c]
      BY <2>1 DEF FaithOK
    <2>4. /\ DOMAIN reports = DOMAIN peerReports
          /\ \A r \in DOMAIN reports : reports[r] = peerReports[r]
      BY <2>1, <2>2, <2>3 DEF FaithOK
    <2>5. QED
      BY <2>2, <2>3, <2>4
  <1>2. QED
    BY <1>1, BootstrapInvariant, PTL

\* Whatever the peer does meanwhile, a report is only copied together with its cracker,
\* or with one the peer created anew.
THEOREM CopiedReportsAreOwned == Spec => []CopiedReportsHaveCrackers
  <1>1. BootstrapInv => CopiedReportsHaveCrackers
    BY DEF BootstrapInv, CopyOK, CopiedReportsHaveCrackers, Copying
  <1>2. QED
    BY <1>1, BootstrapInvariant, PTL
================================================================================
