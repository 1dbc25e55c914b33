------------------------------ MODULE Migration ------------------------------
(***************************************************************************)
(* Opening the database file (app/db.py, connect and _migrate): bring the  *)
(* schema from the version in the file to the one the program knows, one   *)
(* DDL statement after the other, then serve.  The process may be killed   *)
(* between any two statements and started again, also as an older or a     *)
(* newer release of the program on the same file.                          *)
(*                                                                         *)
(* executescript runs in autocommit mode: each statement of a script is    *)
(* durable by itself, and so is PRAGMA user_version.                       *)
(***************************************************************************)
EXTENDS Naturals, Sequences

CONSTANTS
  Scripts,    \* MIGRATIONS: the statements that lead to version v, for v in 1..N
  Releases,   \* the releases that may be started, each named by its last version
  Legacy,     \* objects an early build of version 1 created and a later one drops
  MaxKills    \* bound: how often the process is killed

\* A statement creates an object or drops it, if it is there.
Creates(s) == s.op = "create"

Versions == 1..Len(Scripts)

\* The objects that script v creates or drops.
Objects(v, op) == {Scripts[v][n].object : n \in {m \in DOMAIN Scripts[v] : Scripts[v][m].op = op}}

\* What the scripts up to version v build: what one of them creates and none drops since.
Built(v) ==
  {o \in UNION {Objects(w, "create") : w \in 1..v} :
     \E w \in 1..v : o \in Objects(w, "create") /\ \A u \in w..v : o \notin Objects(u, "drop")}

ASSUME ScriptsAssumption ==
  Scripts \in Seq(Seq([op : {"create", "drop"}, object : STRING])) /\ Scripts # <<>>

\* An object is created once, and what a script creates none drops.
ASSUME NamesAssumption ==
  \A v, w \in Versions : \A m \in DOMAIN Scripts[v], n \in DOMAIN Scripts[w] :
    Creates(Scripts[v][m]) /\ Scripts[v][m].object = Scripts[w][n].object => v = w /\ m = n

ASSUME LegacyAssumption == \A v \in Versions : Legacy \cap Objects(v, "create") = {}

ASSUME ReleasesAssumption == Releases \subseteq Versions

ASSUME KillsAssumption == MaxKills \in Nat

VARIABLES
  objects,   \* tables and indexes in the file
  version,   \* PRAGMA user_version of the file
  release,   \* the running program's last version
  pc,        \* "down", "script", "open" or "failed"
  current,   \* the version _migrate is working towards
  next,      \* the statement of that version's script to run next
  kills

vars == <<objects, version, release, pc, current, next, kills>>

\* A new file, or one left by the early build of version 1.
Init ==
  /\ \/ objects = {} /\ version = 0
     \/ objects = Built(1) \cup Legacy /\ version = 1
  /\ release = 0
  /\ pc = "down"
  /\ current = 0
  /\ next = 1
  /\ kills = 0

\* Mutation of Start: the version is recorded before its script has run.
StartRecordsFirst(r) ==
  /\ pc = "down"
  /\ release' = r
  /\ current' = version + 1
  /\ next' = 1
  /\ version' = IF version < r THEN version + 1 ELSE version
  /\ pc' = IF version < r THEN "script" ELSE "open"
  /\ UNCHANGED <<objects, kills>>

\* Mutation of Start: only a new file is given a schema.
StartNewOnly(r) ==
  /\ pc = "down"
  /\ release' = r
  /\ current' = version + 1
  /\ next' = 1
  /\ pc' = IF version = 0 THEN "script" ELSE "open"
  /\ UNCHANGED <<objects, version, kills>>

\* Mutation of Start: every script is run, whatever the file's version.
StartFromScratch(r) ==
  /\ pc = "down"
  /\ release' = r
  /\ current' = 1
  /\ next' = 1
  /\ pc' = IF version < r THEN "script" ELSE "open"
  /\ UNCHANGED <<objects, version, kills>>

\* The process starts and reads user_version once.
Start(r) ==
  /\ pc = "down"
  /\ release' = r
  /\ current' = version + 1
  /\ next' = 1
  /\ pc' = IF version < r THEN "script" ELSE "open"
  /\ UNCHANGED <<objects, version, kills>>

Statement == Scripts[current][next]

\* One statement of the script takes effect.
Execute ==
  /\ pc = "script"
  /\ next <= Len(Scripts[current])
  /\ Creates(Statement) => Statement.object \notin objects
  /\ objects' = IF Creates(Statement) THEN objects \cup {Statement.object}
                                      ELSE objects \ {Statement.object}
  /\ next' = next + 1
  /\ UNCHANGED <<version, release, pc, current, kills>>

\* CREATE of something that exists raises: connect() fails and so does startup.
ExecuteFails ==
  /\ pc = "script"
  /\ next <= Len(Scripts[current])
  /\ Creates(Statement) /\ Statement.object \in objects
  /\ pc' = "failed"
  /\ UNCHANGED <<objects, version, release, current, next, kills>>

\* Mutation of Record: off by one in the version recorded.
RecordAhead ==
  /\ pc = "script"
  /\ next > Len(Scripts[current])
  /\ version' = current + 1
  /\ next' = 1
  /\ IF current < release
       THEN current' = current + 1 /\ UNCHANGED pc
       ELSE pc' = "open" /\ UNCHANGED current
  /\ UNCHANGED <<objects, release, kills>>

\* The script is through: the version is recorded, the next script begins.
Record ==
  /\ pc = "script"
  /\ next > Len(Scripts[current])
  /\ version' = current
  /\ next' = 1
  /\ IF current < release
       THEN current' = current + 1 /\ UNCHANGED pc
       ELSE pc' = "open" /\ UNCHANGED current
  /\ UNCHANGED <<objects, release, kills>>

\* The process is killed, while it migrates or while it serves.
Kill ==
  /\ pc \in {"script", "open"}
  /\ kills < MaxKills
  /\ kills' = kills + 1
  /\ pc' = "down"
  /\ UNCHANGED <<objects, version, release, current, next>>

\* A failed process is started again by its supervisor, from the same file.
Retry == pc = "failed" /\ pc' = "down" /\ UNCHANGED <<objects, version, release, current, next, kills>>

Next == (\E r \in Releases : Start(r)) \/ Execute \/ ExecuteFails \/ Record \/ Kill \/ Retry

Spec == Init /\ [][Next]_vars

\* The supervisor starts the process, the process runs on.
FairSpec == Spec /\ WF_vars(Next)

-----------------------------------------------------------------------------
(* Properties                                                               *)

AllObjects == Legacy \cup Built(Len(Scripts))

TypeOK ==
  /\ objects \subseteq AllObjects
  /\ version \in 0..Len(Scripts)
  /\ release \in Releases \cup {0}
  /\ pc \in {"down", "script", "open", "failed"}
  /\ current \in 0..Len(Scripts) + 1
  /\ next \in Nat
  /\ kills \in 0..MaxKills

\* VersionNeverAhead: the recorded version is backed by the schema, whenever the
\* process is killed: no table a recorded version needs is missing, and the file
\* never has a version whose script is not through (db.py:163-168).
VersionNeverAhead == Built(version) \subseteq objects

\* ServesFullSchema: the program never serves on a schema short of what it knows,
\* whichever releases have run on the file before.
ServesFullSchema == pc = "open" => version >= release /\ Built(release) \subseteq objects

\* FailsOnlyAfterInterruption: startup fails only on a file that holds something of
\* a script that was cut short, never on a clean file or after an upgrade.
FailsOnlyAfterInterruption ==
  pc = "failed" => kills > 0 /\ ~(objects \subseteq Built(version) \cup Legacy)

\* RestartSafe: starting again after the process was killed succeeds (db.py:3,
\* design.md:238: restarts of the container or the process are safe).
RestartSafe == []<>(pc = "open")
=============================================================================
