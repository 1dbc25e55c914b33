-------------------------- MODULE ImportTransaction --------------------------
(***************************************************************************)
(* The one database connection of the process (app/db.py), the import that *)
(* opens a transaction on it (app/repository/questions.py, upsert_import,  *)
(* called chunk by chunk from app/api/import_api.py), and the coroutines   *)
(* that write through the same connection meanwhile.                       *)
(*                                                                         *)
(* The connection is in autocommit mode.  SQLite knows no coroutines: what *)
(* any of them writes between the BEGIN and the COMMIT of an import is part *)
(* of the import's transaction, is visible to every reader at once, and is *)
(* undone by the import's ROLLBACK or by a crash.  On a full disk or an    *)
(* I/O error SQLite may undo the transaction by itself; the import that    *)
(* began it learns of that from its COMMIT, unless by then another import  *)
(* has begun one, which that COMMIT then ends.                             *)
(*                                                                         *)
(* The answer in a row is represented by who wrote it last.  An item of an *)
(* import is the cache key its question normalises to, or Bad when         *)
(* _prepare_import_item rejects it.  An upload is the entries of its       *)
(* archive that are named .json, a text without an archive being one, or   *)
(* the body of a request; an entry is its items, or Broken when it is not  *)
(* JSON, is no list, or holds an item with a field of the wrong type.      *)
(***************************************************************************)
EXTENDS Naturals, FiniteSets, SequencesExt

CONSTANTS
  Importers,   \* requests to /api/import and /api/import/file
  Writers,     \* tasks of AnswerService about to store an answer
  Keys,        \* cache keys
  Uploads,     \* what the imports may send: for each [form, large, entries]
  ChunkSize,   \* MAX_IMPORT_ITEMS: items per transaction, and in a body
  MaxEntries,  \* MAX_ZIP_JSON_ENTRIES
  Bad,         \* an item that is skipped
  Broken,      \* an entry that is refused
  None,        \* no row, no transaction
  Deletable    \* keys that the panel or the TTL cleanup may delete

Actors == Importers \cup Writers

ASSUME NoneAssumption == None \notin Actors /\ Bad \notin Keys

ASSUME ActorsAssumption == Importers \cap Writers = {}

\* "large" stands for every limit on bytes, of the file and of what is in it.
ASSUME UploadsAssumption ==
  \A uploads \in Uploads, i \in Importers :
    /\ uploads[i].form \in {"body", "file"} /\ uploads[i].large \in BOOLEAN
    /\ uploads[i].entries \in Seq(Seq(Keys \cup {Bad}) \cup {Broken})

ASSUME LimitsAssumption == ChunkSize \in Nat \ {0} /\ MaxEntries \in Nat

ASSUME DeletableAssumption == Deletable \subseteq Keys

VARIABLES
  uploads,  \* what each import sends
  rows,     \* the tables as the connection sees them: questions, and in call_log
            \* the imports that have a row
  stored,   \* the committed tables: what a restart finds
  tx,       \* the import whose BEGIN is open on the connection
  lost,     \* imports whose transaction was ended by SQLite or by another import
  ipc,      \* where each import stands
  pos,      \* how many of its items have been dealt with
  delta,    \* [imported, updated, skipped] of the chunk at hand
  total,    \* the same, summed over the finished chunks
  wpc       \* each writer: "idle", "acked" or "refused"

vars == <<uploads, rows, stored, tx, lost, ipc, pos, delta, total, wpc>>

NoCount == [imported |-> 0, updated |-> 0, skipped |-> 0]

\* Mutation of Plus: the chunk's counters are taken off the sum.
Minus(a, b) == [f \in DOMAIN a |-> a[f] - b[f]]

Plus(a, b) == [f \in DOMAIN a |-> a[f] + b[f]]

\* The import holds an open transaction.
Open == {"items", "conflict", "commit", "rollback"}

Init ==
  /\ uploads \in Uploads
  /\ rows = [questions |-> [k \in Keys |-> None], log |-> {}]
  /\ stored = rows
  /\ tx = None
  /\ lost = {}
  /\ ipc = [i \in Importers |-> "idle"]
  /\ pos = [i \in Importers |-> 0]
  /\ delta = [i \in Importers |-> NoCount]
  /\ total = [i \in Importers |-> NoCount]
  /\ wpc = [w \in Writers |-> "idle"]

-----------------------------------------------------------------------------
(* The connection                                                           *)

\* Mutation of Apply: without isolation_level=None nothing commits by itself.
ApplyDeferred(table) == rows' = table /\ UNCHANGED stored

\* A statement changes the table; outside a transaction it commits by itself.
Apply(table) ==
  /\ rows' = table
  /\ stored' = IF tx = None THEN table ELSE stored

\* COMMIT, sent by i: it ends the transaction that is open, whoever began it.
Commit(i) ==
  /\ tx # None
  /\ stored' = rows
  /\ tx' = None
  /\ lost' = lost \cup ({tx} \ {i})
  /\ UNCHANGED rows

\* Mutation of Rollback: transaction() commits on every way out.
RollbackCommits(i) ==
  /\ stored' = rows
  /\ tx' = None
  /\ lost' = lost \cup ({tx} \ {i, None})
  /\ UNCHANGED rows

\* ROLLBACK, which does the same, or raises if nothing is open.
Rollback(i) ==
  /\ rows' = stored
  /\ tx' = None
  /\ lost' = lost \cup ({tx} \ {i, None})
  /\ UNCHANGED stored

\* A statement that raises has no effect of its own; bound: once, SQLite undoes the
\* open transaction with it.
Raises ==
  \/ UNCHANGED <<rows, stored, tx, lost>>
  \/ /\ tx # None
     /\ lost = {}
     /\ lost' = {tx}
     /\ rows' = stored
     /\ tx' = None
     /\ UNCHANGED stored

-----------------------------------------------------------------------------
(* import_items, import_file, _run_import and upsert_import                 *)

\* The items of all entries, in their order.
Items(i) == FlattenSeq(uploads[i].entries)

\* A file passes when it is within the limits, every entry can be read and something
\* is in it; a body when it is no longer than a chunk, and it may be empty.
Accepted(i) ==
  LET upload == uploads[i] IN
    /\ Broken \notin Range(upload.entries)
    /\ IF upload.form = "body"
         THEN Len(Items(i)) <= ChunkSize
         ELSE /\ ~upload.large
              /\ Len(upload.entries) \in 1..MaxEntries
              /\ Items(i) # <<>>

Item(i) == Items(i)[pos[i] + 1]

\* The items of the chunks that are committed.
Start(i) == total[i].imported + total[i].updated + total[i].skipped

\* The chunk at hand is the slice [start : start + MAX_IMPORT_ITEMS].
InChunk(i) == ipc[i] = "items" /\ pos[i] < Len(Items(i)) /\ pos[i] < Start(i) + ChunkSize

Move(i, s) == ipc' = [ipc EXCEPT ![i] = s]

Tally(i, f) ==
  /\ delta' = [delta EXCEPT ![i][f] = @ + 1]
  /\ pos' = [pos EXCEPT ![i] = @ + 1]

\* The upload is read as a whole before anything is written.
Accept(i) ==
  /\ ipc[i] = "idle"
  /\ Accepted(i)
  /\ Move(i, IF Items(i) = <<>> THEN "log" ELSE "next")
  /\ UNCHANGED <<uploads, rows, stored, tx, lost, pos, delta, total, wpc>>

\* 400 or 413.
Refuse(i) ==
  /\ ipc[i] = "idle"
  /\ ~Accepted(i)
  /\ Move(i, "refused")
  /\ UNCHANGED <<uploads, rows, stored, tx, lost, pos, delta, total, wpc>>

\* BEGIN IMMEDIATE.  It is outside the try of transaction().
Begin(i) ==
  /\ ipc[i] = "next"
  /\ tx = None
  /\ tx' = i
  /\ delta' = [delta EXCEPT ![i] = NoCount]
  /\ Move(i, "items")
  /\ UNCHANGED <<uploads, rows, stored, lost, pos, total, wpc>>

\* Mutation of BeginFails: the BEGIN is inside the try.
BeginFailsInTry(i) ==
  /\ ipc[i] = "next"
  /\ Move(i, "rollback")
  /\ UNCHANGED <<uploads, rows, stored, tx, lost, pos, delta, total, wpc>>

\* BEGIN inside somebody else's transaction raises, and at any time it may: it is not
\* retried, the request is answered 500 and nothing is rolled back.
BeginFails(i) ==
  /\ ipc[i] = "next"
  /\ Move(i, "failed")
  /\ UNCHANGED <<uploads, rows, stored, tx, lost, pos, delta, total, wpc>>

\* Mutation of Skip: an item that could not be stored is counted as an update.
SkipUnreported(i) ==
  /\ InChunk(i)
  /\ Tally(i, "updated")
  /\ UNCHANGED <<uploads, rows, stored, tx, lost, ipc, total, wpc>>

\* A bad item, or one whose INSERT raises anything but IntegrityError.
Skip(i) ==
  /\ InChunk(i)
  /\ IF Item(i) = Bad THEN UNCHANGED <<rows, stored, tx, lost>> ELSE Raises
  /\ Tally(i, "skipped")
  /\ UNCHANGED <<uploads, ipc, total, wpc>>

\* The INSERT of a new key.
InsertItem(i) ==
  /\ InChunk(i)
  /\ Item(i) # Bad
  /\ rows.questions[Item(i)] = None
  /\ Apply([rows EXCEPT !.questions[Item(i)] = i])
  /\ Tally(i, "imported")
  /\ UNCHANGED <<uploads, tx, lost, ipc, total, wpc>>

\* The INSERT meets the UNIQUE constraint; the UPDATE is a statement of its own.
Conflict(i) ==
  /\ InChunk(i)
  /\ Item(i) # Bad
  /\ rows.questions[Item(i)] # None
  /\ Move(i, "conflict")
  /\ UNCHANGED <<uploads, rows, stored, tx, lost, pos, delta, total, wpc>>

\* The UPDATE counts the item whether or not it still finds the row.
UpdateItem(i) ==
  /\ ipc[i] = "conflict"
  /\ Apply(IF rows.questions[Item(i)] = None THEN rows
           ELSE [rows EXCEPT !.questions[Item(i)] = i])
  /\ Tally(i, "updated")
  /\ Move(i, "items")
  /\ UNCHANGED <<uploads, tx, lost, total, wpc>>

EndChunk(i) ==
  /\ ipc[i] = "items"
  /\ ~InChunk(i)
  /\ Move(i, "commit")
  /\ UNCHANGED <<uploads, rows, stored, tx, lost, pos, delta, total, wpc>>

\* Mutation of CommitChunk: a transaction that is gone already is no error.
CommitChunkIfOpen(i) ==
  /\ ipc[i] = "commit"
  /\ IF tx = None THEN UNCHANGED <<rows, stored, tx, lost>> ELSE Commit(i)
  /\ total' = [total EXCEPT ![i] = Plus(@, delta[i])]
  /\ Move(i, IF pos[i] = Len(Items(i)) THEN "log" ELSE "next")
  /\ UNCHANGED <<uploads, pos, delta, wpc>>

\* The COMMIT; _run_import adds up the counters.
CommitChunk(i) ==
  /\ ipc[i] = "commit"
  /\ Commit(i)
  /\ total' = [total EXCEPT ![i] = Plus(@, delta[i])]
  /\ Move(i, IF pos[i] = Len(Items(i)) THEN "log" ELSE "next")
  /\ UNCHANGED <<uploads, pos, delta, wpc>>

\* After the last chunk a row of call_log, with nothing said of it if that fails.
WriteLog(i) ==
  /\ ipc[i] = "log"
  /\ Apply([rows EXCEPT !.log = @ \cup {i}])
  /\ Move(i, "done")
  /\ UNCHANGED <<uploads, tx, lost, pos, delta, total, wpc>>

WriteLogFails(i) ==
  /\ ipc[i] = "log"
  /\ Raises
  /\ Move(i, "done")
  /\ UNCHANGED <<uploads, pos, delta, total, wpc>>

\* Mutation of Interrupted: nothing catches the exception inside transaction().
InterruptedUncaught(i) ==
  /\ ipc[i] \in {"conflict", "commit"}
  /\ Move(i, "failed")
  /\ UNCHANGED <<uploads, rows, stored, tx, lost, pos, delta, total, wpc>>

\* The UPDATE or the COMMIT raises (full disk, I/O error, no transaction).
Interrupted(i) ==
  /\ ipc[i] \in {"conflict", "commit"}
  /\ Raises
  /\ Move(i, "rollback")
  /\ UNCHANGED <<uploads, pos, delta, total, wpc>>

RollbackChunk(i) ==
  /\ ipc[i] = "rollback"
  /\ Rollback(i)
  /\ Move(i, "failed")
  /\ UNCHANGED <<uploads, pos, delta, total, wpc>>

-----------------------------------------------------------------------------
(* Everybody else on the connection                                         *)

\* insert_question of AnswerService: the statement returns, the request that
\* waits for the answer is answered.
WriteAnswer(w, k) ==
  /\ wpc[w] = "idle"
  /\ rows.questions[k] = None
  /\ Apply([rows EXCEPT !.questions[k] = w])
  /\ wpc' = [wpc EXCEPT ![w] = "acked"]
  /\ UNCHANGED <<uploads, tx, lost, ipc, pos, delta, total>>

\* The key is taken: IntegrityError, the row is kept.
WriteRefused(w, k) ==
  /\ wpc[w] = "idle"
  /\ rows.questions[k] # None
  /\ wpc' = [wpc EXCEPT ![w] = "refused"]
  /\ UNCHANGED <<uploads, rows, stored, tx, lost, ipc, pos, delta, total>>

\* The INSERT raises; the answer is given all the same.
WriteFails(w) ==
  /\ wpc[w] = "idle"
  /\ Raises
  /\ wpc' = [wpc EXCEPT ![w] = "refused"]
  /\ UNCHANGED <<uploads, ipc, pos, delta, total>>

\* The panel or the cleanup deletes a row.
Delete(k) ==
  /\ rows.questions[k] # None
  /\ Apply([rows EXCEPT !.questions[k] = None])
  /\ UNCHANGED <<uploads, tx, lost, ipc, pos, delta, total, wpc>>

\* The process dies during an import and is started again: SQLite undoes the open
\* transaction, the coroutines are gone.
Crash ==
  /\ \E i \in Importers : ipc[i] \in Open \cup {"next", "log"}
  /\ rows' = stored
  /\ tx' = None
  /\ ipc' = [i \in Importers |-> IF ipc[i] \in Open \cup {"next", "log"} THEN "failed" ELSE ipc[i]]
  /\ UNCHANGED <<uploads, stored, lost, pos, delta, total, wpc>>

ImportStep(i) ==
  \/ Accept(i) \/ Refuse(i)
  \/ Begin(i) \/ BeginFails(i)
  \/ Skip(i) \/ InsertItem(i) \/ Conflict(i) \/ UpdateItem(i)
  \/ EndChunk(i) \/ CommitChunk(i) \/ Interrupted(i) \/ RollbackChunk(i)
  \/ WriteLog(i) \/ WriteLogFails(i)

Next ==
  \/ \E i \in Importers : ImportStep(i)
  \/ \E w \in Writers, k \in Keys : WriteAnswer(w, k) \/ WriteRefused(w, k)
  \/ \E w \in Writers : WriteFails(w)
  \/ \E k \in Deletable : Delete(k)
  \/ Crash

Spec == Init /\ [][Next]_vars

\* The event loop runs the request and the worker thread its statements.  Requests
\* need not arrive, but one that has begun goes on, by whichever step.
Fairness ==
  \A i \in Importers : WF_vars(ipc[i] \in Open \cup {"next", "log"} /\ ImportStep(i))

FairSpec == Spec /\ Fairness

-----------------------------------------------------------------------------
(* Properties                                                               *)

Counts == [imported : Nat, updated : Nat, skipped : Nat]

TypeOK ==
  /\ uploads \in Uploads
  /\ {rows, stored} \subseteq
       [questions : [Keys -> Actors \cup {None}], log : SUBSET Importers]
  /\ tx \in Importers \cup {None}
  /\ lost \subseteq Importers
  /\ ipc \in [Importers -> Open \cup {"idle", "refused", "next", "log", "done", "failed"}]
  /\ pos \in [Importers -> Nat]
  /\ delta \in [Importers -> Counts]
  /\ total \in [Importers -> Counts]
  /\ wpc \in [Writers -> {"idle", "acked", "refused"}]

\* TransactionOwned: whoever is between its BEGIN and its COMMIT or ROLLBACK owns the
\* connection's transaction, unless it has been ended under it; none is left open behind
\* a failed or crashed import, and while none is open everything readable is durable
\* (transaction(), db.py:148-157).
TransactionOwned ==
  /\ \A i \in Importers : ipc[i] \in Open => tx = i \/ i \in lost
  /\ tx # None => ipc[tx] \in Open
  /\ tx = None => rows = stored

\* OnlyCommittedChunks: a row on disk written by an import comes from a chunk that
\* the import has counted: a failed or crashed chunk leaves nothing behind, and the
\* counters run neither ahead of the disk nor behind it, unless the transaction was ended
\* under the import (questions.py:85-109).
OnlyCommittedChunks ==
  \A k \in Keys, i \in Importers \ lost :
    stored.questions[k] = i => \E n \in 1..Start(i) : Items(i)[n] = k

\* RestoreComplete: after an import that reports no skipped item, or of whose success
\* the log tells, every key in any entry of what was uploaded is in the database,
\* whatever was there before and whoever wrote or died meanwhile, unless the key was
\* deleted or the transaction ended under it (import as restore of a backup;
\* import_api.py:85-104, 114-127).
RestoreComplete ==
  \A i \in Importers \ lost : (ipc[i] = "done" \/ i \in stored.log) /\ total[i].skipped = 0 =>
    \A n \in DOMAIN uploads[i].entries :
      \A k \in Range(uploads[i].entries[n]) \ Deletable :
        stored.questions[k] # None

\* LossIsReported: a transaction that SQLite has undone is not passed over.  Its import may
\* still succeed, by committing for another one, but then that one has lost its own: there
\* is always one that has failed or is about to (db.py:150-157).
LossIsReported == lost # {} => \E i \in lost : ipc[i] \in Open \cup {"failed"}

\* TransactionEnds: an open transaction is always closed, so the import can be
\* repeated and the other writers' data reaches the disk.
TransactionEnds == tx # None ~> tx = None
=============================================================================
