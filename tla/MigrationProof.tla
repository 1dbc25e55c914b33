---------------------------- MODULE MigrationProof ----------------------------
(***************************************************************************)
(* Safety of Migration for any scripts that create nothing twice and drop  *)
(* nothing they create, any releases, and any number of kills.             *)
(***************************************************************************)
EXTENDS Migration, TLAPS

\* What scripts 1 to v create.
Created(v) == UNION {Objects(w, "create") : w \in 1..v}

\* The statements of the scripts are what ScriptsAssumption says.
LEMMA Statements ==
  ASSUME NEW v \in Versions
  PROVE  /\ Len(Scripts) \in Nat \ {0} /\ DOMAIN Scripts = Versions
         /\ Len(Scripts[v]) \in Nat /\ DOMAIN Scripts[v] = 1..Len(Scripts[v])
         /\ \A n \in DOMAIN Scripts[v] :
              Scripts[v][n].op \in {"create", "drop"} /\ Scripts[v][n].object \in STRING
<1> DEFINE Statement0 == [op : {"create", "drop"}, object : STRING]
<1>1. Len(Scripts) \in Nat \ {0} /\ DOMAIN Scripts = Versions
  BY ScriptsAssumption DEF Versions
<1>2. Scripts[v] \in Seq(Statement0)
  BY ScriptsAssumption, <1>1 DEF Versions
<1>3. /\ Len(Scripts[v]) \in Nat /\ DOMAIN Scripts[v] = 1..Len(Scripts[v])
      /\ \A n \in DOMAIN Scripts[v] : Scripts[v][n] \in Statement0
  <2> HIDE DEF Statement0
  <2> QED
    BY <1>2
<1>4. QED
  BY <1>1, <1>3

\* No statement drops what one creates.
LEMMA NothingDropped ==
  ASSUME NEW v \in Versions, NEW w \in Versions
  PROVE  Objects(v, "create") \cap Objects(w, "drop") = {}
BY Statements, NamesAssumption DEF Objects, Creates

LEMMA BuiltIsCreated ==
  ASSUME NEW v \in 0..Len(Scripts)
  PROVE  Built(v) = Created(v)
<1>1. \A w \in 1..v : w \in Versions
  BY ScriptsAssumption DEF Versions
<1>2. ASSUME NEW o, NEW w \in 1..v, o \in Objects(w, "create")
      PROVE  \A u \in w..v : o \notin Objects(u, "drop")
  BY <1>1, <1>2, NothingDropped
<1>3. QED
  BY <1>2 DEF Built, Created

LEMMA BuiltGrows ==
  ASSUME NEW v \in 0..Len(Scripts), NEW w \in v..Len(Scripts)
  PROVE  Built(v) \subseteq Built(w)
BY BuiltIsCreated, ScriptsAssumption DEF Created

LEMMA BuiltNext ==
  ASSUME NEW v \in 0..Len(Scripts), v + 1 \in Versions
  PROVE  Built(v + 1) = Built(v) \cup Objects(v + 1, "create")
<1>1. v + 1 \in 0..Len(Scripts) /\ 1..(v + 1) = (1..v) \cup {v + 1}
  BY ScriptsAssumption DEF Versions
<1>2. QED
  BY <1>1, BuiltIsCreated DEF Created

-----------------------------------------------------------------------------
(* The inductive invariant                                                  *)

\* Where a process that migrates, serves or has failed stands.
Stands ==
  /\ pc \in {"script", "failed"} =>
       current = version + 1 /\ current <= release /\ current \in Versions
  /\ pc = "script" => next \in 1..Len(Scripts[current]) + 1
  /\ pc = "open" => version >= release
  /\ pc = "failed" => /\ next \in DOMAIN Scripts[current]
                      /\ Creates(Statement)
                      /\ Statement.object \in objects \ (Built(version) \cup Legacy)

\* What the statements of the script that have run have created is there.
ScriptSoFar == {Scripts[current][m].object : m \in {m \in 1..(next - 1) : Creates(Scripts[current][m])}}

CreatedSoFar == pc = "script" => ScriptSoFar \subseteq objects

\* Without a kill there is nothing else in the file.
CleanUntilKilled ==
  kills = 0 => /\ pc # "failed"
               /\ IF pc = "script" THEN objects \subseteq Built(version) \cup Legacy \cup ScriptSoFar
                                   ELSE objects \subseteq Built(version) \cup Legacy

Inv == TypeOK /\ Stands /\ VersionNeverAhead /\ CreatedSoFar /\ CleanUntilKilled

\* The statement to run next creates something new to the schema, or drops nothing of it.
LEMMA NextStatement ==
  ASSUME Inv, pc = "script", next <= Len(Scripts[current])
  PROVE  /\ current \in Versions /\ next \in DOMAIN Scripts[current]
         /\ Creates(Statement) => /\ Statement.object \in Objects(current, "create")
                                  /\ Statement.object \in Built(Len(Scripts))
                                  /\ Statement.object \notin Built(version) \cup Legacy \cup ScriptSoFar
         /\ ~Creates(Statement) => /\ Statement.object \notin Built(version)
                                   /\ Statement.object \notin ScriptSoFar
<1>1. current \in Versions /\ current = version + 1 /\ next \in DOMAIN Scripts[current]
      /\ next \in Nat \ {0} /\ version \in 0..Len(Scripts) /\ Len(Scripts) \in Nat
      /\ DOMAIN Scripts[current] = 1..Len(Scripts[current]) /\ Len(Scripts[current]) \in Nat
      /\ DOMAIN Scripts = Versions
  BY Statements DEF Inv, TypeOK, Stands
<1>2. Statement.op \in {"create", "drop"}
  BY <1>1, Statements DEF Statement
<1>3. Creates(Statement) => Statement.object \in Objects(current, "create")
  BY <1>1 DEF Objects, Creates, Statement
<1>4. Built(version) = Created(version) /\ \A w \in 1..version : w \in Versions /\ w # current
  BY <1>1, BuiltIsCreated DEF Versions
<1>5. Statement.object \notin Created(version)
  <2>1. ASSUME NEW w \in 1..version, NEW m \in DOMAIN Scripts[w], Scripts[w][m].op = "create"
        PROVE  Scripts[w][m].object # Statement.object
    BY <1>1, <1>4, <2>1, NamesAssumption DEF Creates, Statement
  <2>2. QED
    BY <2>1 DEF Created, Objects
<1>6. Statement.object \notin ScriptSoFar
  <2>1. ASSUME NEW m \in 1..(next - 1), Creates(Scripts[current][m])
        PROVE  Scripts[current][m].object # Statement.object
    <3>1. m \in DOMAIN Scripts[current] /\ m # next
      BY <1>1
    <3>2. QED
      BY <1>1, <2>1, <3>1, NamesAssumption DEF Statement
  <2>2. QED
    BY <2>1 DEF ScriptSoFar
<1>7. Creates(Statement) => Statement.object \in Built(Len(Scripts))
  <2>1. Built(Len(Scripts)) = Created(Len(Scripts)) /\ current \in 1..Len(Scripts)
    BY <1>1, BuiltIsCreated DEF Versions
  <2>2. QED
    BY <1>3, <2>1 DEF Created
<1>8. Creates(Statement) => Statement.object \notin Legacy
  BY <1>1, <1>3, LegacyAssumption
<1>9. QED
  BY <1>1, <1>3, <1>4, <1>5, <1>6, <1>7, <1>8

\* When the script is through, it has built what its version needs.
LEMMA ScriptThrough ==
  ASSUME Inv, pc = "script", next > Len(Scripts[current])
  PROVE  /\ ScriptSoFar = Objects(current, "create")
         /\ Built(current) = Built(version) \cup ScriptSoFar
<1>1. current \in Versions /\ current = version + 1 /\ version \in 0..Len(Scripts)
      /\ Len(Scripts[current]) \in Nat /\ DOMAIN Scripts[current] = 1..Len(Scripts[current])
      /\ next = Len(Scripts[current]) + 1
  BY Statements DEF Inv, TypeOK, Stands
<1>2. ScriptSoFar = Objects(current, "create")
  BY <1>1 DEF ScriptSoFar, Objects, Creates
<1>3. QED
  BY <1>1, <1>2, BuiltNext

LEMMA InitInv ==
  ASSUME Init
  PROVE  Inv
<1>1. Len(Scripts) \in Nat \ {0} /\ Built(1) \subseteq Built(Len(Scripts)) /\ Built(0) = {}
  BY ScriptsAssumption, BuiltGrows, BuiltIsCreated DEF Created
<1>2. TypeOK /\ VersionNeverAhead
  BY <1>1, KillsAssumption DEF Init, TypeOK, AllObjects, VersionNeverAhead
<1>3. Stands /\ CreatedSoFar /\ CleanUntilKilled
  BY <1>1 DEF Init, Stands, CreatedSoFar, CleanUntilKilled
<1>4. QED
  BY <1>2, <1>3 DEF Inv

LEMMA StartInv ==
  ASSUME Inv, NEW r \in Releases, Start(r)
  PROVE  Inv'
<1>1. Len(Scripts) \in Nat /\ release' \in 1..Len(Scripts) /\ version \in 0..Len(Scripts)
  BY ScriptsAssumption, ReleasesAssumption DEF Start, Versions, Inv, TypeOK
<1>2. TypeOK' /\ VersionNeverAhead'
  BY <1>1 DEF Start, Inv, TypeOK, AllObjects, VersionNeverAhead
<1>3. version < r => current' \in Versions /\ Len(Scripts[current']) \in Nat
  BY <1>1, Statements DEF Start, Versions
<1>4. Stands'
  BY <1>1, <1>3 DEF Start, Stands
<1>5. ScriptSoFar' = {}
  BY DEF ScriptSoFar, Start
<1>6. CreatedSoFar' /\ CleanUntilKilled'
  BY <1>5 DEF Start, Inv, CreatedSoFar, CleanUntilKilled
<1>7. QED
  BY <1>2, <1>4, <1>6 DEF Inv

LEMMA ExecuteInv ==
  ASSUME Inv, Execute
  PROVE  Inv'
<1>1. /\ current \in Versions /\ next \in DOMAIN Scripts[current]
      /\ Len(Scripts[current]) \in Nat /\ DOMAIN Scripts[current] = 1..Len(Scripts[current])
      /\ next \in Nat \ {0} /\ pc = "script" /\ pc' = "script"
  BY NextStatement, Statements DEF Execute
<1>2. TypeOK'
  BY <1>1, NextStatement DEF Execute, Inv, TypeOK, AllObjects
<1>3. Stands'
  BY <1>1 DEF Execute, Inv, Stands
<1>4. VersionNeverAhead'
  <2>1. Built(version)' = Built(version)
    BY DEF Execute, Built
  <2>2. QED
    BY <1>1, <2>1, NextStatement DEF Execute, Inv, VersionNeverAhead
<1>5. ScriptSoFar' = ScriptSoFar \cup (IF Creates(Statement) THEN {Statement.object} ELSE {})
  <2>1. 1..(next' - 1) = (1..(next - 1)) \cup {next} /\ current' = current
    BY <1>1 DEF Execute
  <2>2. QED
    BY <2>1 DEF ScriptSoFar, Statement
<1>6. CreatedSoFar'
  BY <1>1, <1>5, NextStatement DEF Execute, Inv, CreatedSoFar
<1>7. CleanUntilKilled'
  BY <1>1, <1>5 DEF Execute, Inv, CleanUntilKilled
<1>8. QED
  BY <1>2, <1>3, <1>4, <1>6, <1>7 DEF Inv

LEMMA RecordInv ==
  ASSUME Inv, Record
  PROVE  Inv'
<1>1. /\ current \in Versions /\ current = version + 1 /\ current <= release
      /\ version \in 0..Len(Scripts) /\ Len(Scripts) \in Nat /\ release \in 0..Len(Scripts)
      /\ version' = current /\ objects' = objects
      /\ ScriptSoFar \subseteq objects
  BY ScriptsAssumption, ReleasesAssumption DEF Record, Inv, TypeOK, Stands, CreatedSoFar, Versions
<1>2. Built(version)' = Built(version) \cup ScriptSoFar
  <2>1. Built(version)' = Built(current)
    BY <1>1 DEF Built
  <2>2. QED
    BY <2>1, ScriptThrough DEF Record
<1>3. TypeOK'
  BY <1>1 DEF Record, Inv, TypeOK, AllObjects, Versions
<1>4. VersionNeverAhead'
  BY <1>1, <1>2 DEF Inv, VersionNeverAhead
<1>5. pc' = "script" => current' \in Versions /\ current' = version' + 1 /\ current' <= release'
                        /\ Len(Scripts[current']) \in Nat
  BY <1>1, Statements DEF Record, Versions
<1>6. Stands'
  BY <1>1, <1>5 DEF Record, Stands
<1>7. ScriptSoFar' = {}
  BY DEF ScriptSoFar, Record
<1>8. CreatedSoFar' /\ CleanUntilKilled'
  BY <1>1, <1>2, <1>7 DEF Record, Inv, CreatedSoFar, CleanUntilKilled
<1>9. QED
  BY <1>3, <1>4, <1>6, <1>8 DEF Inv

LEMMA ExecuteFailsInv ==
  ASSUME Inv, ExecuteFails
  PROVE  Inv'
<1>1. /\ kills # 0 /\ next \in DOMAIN Scripts[current]
      /\ current = version + 1 /\ current <= release /\ current \in Versions
  BY NextStatement DEF ExecuteFails, Inv, Stands, CleanUntilKilled
<1>2. TypeOK' /\ VersionNeverAhead' /\ CreatedSoFar' /\ CleanUntilKilled'
  BY <1>1 DEF ExecuteFails, Inv, TypeOK, VersionNeverAhead, CreatedSoFar, CleanUntilKilled
<1>3. Stands'
  BY <1>1, NextStatement DEF ExecuteFails, Stands, Statement, Built
<1>4. QED
  BY <1>2, <1>3 DEF Inv

LEMMA KillRetryInv ==
  ASSUME Inv, Kill \/ Retry
  PROVE  Inv'
<1>1. TypeOK' /\ VersionNeverAhead' /\ Stands' /\ CreatedSoFar'
  BY KillsAssumption DEF Kill, Retry, Inv, TypeOK, VersionNeverAhead, Stands, CreatedSoFar
<1>2. kills' # 0
  BY DEF Kill, Retry, Inv, TypeOK, CleanUntilKilled, Stands
<1>3. QED
  BY <1>1, <1>2 DEF Inv, CleanUntilKilled

LEMMA StutterInv ==
  ASSUME Inv, UNCHANGED vars
  PROVE  Inv'
BY DEF vars, Inv, TypeOK, Stands, VersionNeverAhead, CreatedSoFar, CleanUntilKilled, ScriptSoFar,
       Statement, AllObjects, Built

\* The inductive invariant holds: every statement, every failure and every kill keeps it.
THEOREM InvHolds == Spec => []Inv
<1>1. ASSUME Inv, [Next]_vars
      PROVE  Inv'
  BY <1>1, StartInv, ExecuteInv, RecordInv, ExecuteFailsInv, KillRetryInv, StutterInv DEF Next
<1>2. QED
  BY InitInv, <1>1, PTL DEF Spec

\* Every variable keeps its type; no statement leaves an object no script knows.
THEOREM TypeCorrect == Spec => []TypeOK
BY InvHolds, PTL DEF Inv

\* The version in the file is backed by the schema, whenever the process is killed and
\* whichever releases are started (db.py:159-168).
THEOREM VersionIsBacked == Spec => []VersionNeverAhead
BY InvHolds, PTL DEF Inv

\* The program never serves on a schema short of what it knows (db.py:159-168).
THEOREM FullSchemaIsServed == Spec => []ServesFullSchema
<1>1. Inv => ServesFullSchema
  <2>1. SUFFICES ASSUME Inv, pc = "open"
                 PROVE  version >= release /\ Built(release) \subseteq objects
    BY DEF ServesFullSchema
  <2>2. release \in 0..Len(Scripts) /\ version \in release..Len(Scripts)
    BY <2>1, ReleasesAssumption, ScriptsAssumption DEF Inv, TypeOK, Stands, Versions
  <2>3. QED
    BY <2>1, <2>2, BuiltGrows DEF Inv, VersionNeverAhead
<1>2. QED
  BY InvHolds, <1>1, PTL

\* Only a file that holds part of a script cut short by a kill makes startup fail
\* (db.py:159-168).
THEOREM OnlyInterruptionFails == Spec => []FailsOnlyAfterInterruption
<1>1. Inv => FailsOnlyAfterInterruption
  <2>1. SUFFICES ASSUME Inv, pc = "failed"
                 PROVE  kills > 0 /\ ~(objects \subseteq Built(version) \cup Legacy)
    BY DEF FailsOnlyAfterInterruption
  <2>2. kills > 0
    BY <2>1, KillsAssumption DEF Inv, TypeOK, CleanUntilKilled
  <2>3. QED
    BY <2>1, <2>2 DEF Inv, Stands
<1>2. QED
  BY InvHolds, <1>1, PTL
=============================================================================
