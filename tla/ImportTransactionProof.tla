------------------------ MODULE ImportTransactionProof ------------------------
(***************************************************************************)
(* Safety of ImportTransaction for any imports, whatever they upload, any  *)
(* other writers and deletions, whatever statement raises and whenever the *)
(* process dies.                                                           *)
(*                                                                         *)
(* What an import has written it has read from one of its positions; that *)
(* the positions reach everything in an archive is FlattenHolds, shown by   *)
(* the least position at which it would fail, since the library's theorems *)
(* on induction take operators.                                            *)
(***************************************************************************)
EXTENDS ImportTransaction, WellFoundedInduction, TLAPS

Tables == [questions : [Keys -> Actors \cup {None}], log : SUBSET Importers]

\* Every step is one of these; the proofs below go through the list.
LEMMA Steps ==
  ASSUME Next
  PROVE  \/ \E i \in Importers : Accept(i) \/ Refuse(i) \/ BeginFails(i) \/ Conflict(i) \/ EndChunk(i)
         \/ \E i \in Importers : Begin(i)
         \/ \E i \in Importers : Skip(i)
         \/ \E i \in Importers : InsertItem(i)
         \/ \E i \in Importers : UpdateItem(i)
         \/ \E i \in Importers : CommitChunk(i)
         \/ \E i \in Importers : Interrupted(i)
         \/ \E i \in Importers : RollbackChunk(i)
         \/ \E i \in Importers : WriteLog(i)
         \/ \E i \in Importers : WriteLogFails(i)
         \/ \E w \in Writers, k \in Keys : WriteAnswer(w, k) \/ WriteRefused(w, k)
         \/ \E w \in Writers : WriteFails(w)
         \/ \E k \in Deletable : Delete(k)
         \/ Crash
BY DEF Next, ImportStep

LEMMA SumOfCounts ==
  ASSUME NEW a \in Counts, NEW b \in Counts
  PROVE  /\ Plus(a, b) \in Counts
         /\ Plus(a, b).imported = a.imported + b.imported
         /\ Plus(a, b).updated = a.updated + b.updated
         /\ Plus(a, b).skipped = a.skipped + b.skipped
BY DEF Counts, Plus

LEMMA TableStep ==
  ASSUME NEW table \in Tables, NEW k, NEW i \in Actors \cup {None}
  PROVE  [table EXCEPT !.questions[k] = i] \in Tables
BY DEF Tables

LEMMA TypeStep ==
  ASSUME TypeOK, [Next]_vars
  PROVE  TypeOK'
<1> USE NoneAssumption, TableStep
<1> USE DEF TypeOK, Open
<1>a. Tables = [questions : [Keys -> Actors \cup {None}], log : SUBSET Importers]
  BY DEF Tables
<1>b. rows \in Tables /\ stored \in Tables
  BY <1>a
<1>c. ASSUME NEW i \in Importers, NEW f \in {"imported", "updated", "skipped"}, Tally(i, f)
      PROVE  delta' \in [Importers -> Counts] /\ pos' \in [Importers -> Nat]
  BY <1>c DEF Tally, Counts
<1>d. Raises => /\ rows' \in Tables /\ stored' \in Tables
                /\ tx' \in Importers \cup {None} /\ lost' \subseteq Importers
  BY <1>b DEF Raises
<1>1. ASSUME NEW i \in Importers,
             Accept(i) \/ Refuse(i) \/ BeginFails(i) \/ Conflict(i) \/ EndChunk(i)
      PROVE  TypeOK'
  BY <1>1 DEF Accept, Refuse, BeginFails, Conflict, EndChunk, Move
<1>2. ASSUME NEW i \in Importers, Begin(i)
      PROVE  TypeOK'
  BY <1>2 DEF Begin, Move, NoCount, Counts
<1>3. ASSUME NEW i \in Importers, Skip(i)
      PROVE  TypeOK'
  <2>1. rows' \in Tables /\ stored' \in Tables
        /\ tx' \in Importers \cup {None} /\ lost' \subseteq Importers
    BY <1>3, <1>b, <1>d DEF Skip
  <2>2. QED
    BY <1>3, <1>a, <1>c, <2>1 DEF Skip
<1>4. ASSUME NEW i \in Importers, InsertItem(i)
      PROVE  TypeOK'
  <2>1. rows' \in Tables /\ stored' \in Tables
    BY <1>4, <1>b DEF InsertItem, Apply, Actors
  <2>2. QED
    BY <1>4, <1>a, <1>c, <2>1 DEF InsertItem
<1>5. ASSUME NEW i \in Importers, UpdateItem(i)
      PROVE  TypeOK'
  <2>1. rows' \in Tables /\ stored' \in Tables
    BY <1>5, <1>b DEF UpdateItem, Apply, Actors
  <2>2. QED
    BY <1>5, <1>a, <1>c, <2>1 DEF UpdateItem, Move
<1>6. ASSUME NEW i \in Importers, CommitChunk(i)
      PROVE  TypeOK'
  <2>1. Plus(total[i], delta[i]) \in Counts
    BY SumOfCounts
  <2>2. QED
    BY <1>6, <2>1 DEF CommitChunk, Commit, Move
<1>7. ASSUME NEW i \in Importers, Interrupted(i)
      PROVE  TypeOK'
  BY <1>7, <1>a, <1>d DEF Interrupted, Move
<1>8. ASSUME NEW i \in Importers, RollbackChunk(i)
      PROVE  TypeOK'
  BY <1>8 DEF RollbackChunk, Rollback, Move
<1>9. ASSUME NEW i \in Importers, WriteLog(i)
      PROVE  TypeOK'
  <2>1. rows' \in Tables /\ stored' \in Tables
    BY <1>9, <1>b DEF WriteLog, Apply, Tables
  <2>2. QED
    BY <1>9, <1>a, <2>1 DEF WriteLog, Move
<1>10. ASSUME NEW i \in Importers, WriteLogFails(i)
       PROVE  TypeOK'
  BY <1>10, <1>a, <1>d DEF WriteLogFails, Move
<1>11. ASSUME NEW w \in Writers, NEW k \in Keys, WriteAnswer(w, k) \/ WriteRefused(w, k)
       PROVE  TypeOK'
  <2>0. w \in Actors \cup {None} /\ [rows EXCEPT !.questions[k] = w] \in Tables
    BY <1>b DEF Actors
  <2>1. rows' \in Tables /\ stored' \in Tables
    BY <1>11, <1>b, <2>0 DEF WriteAnswer, WriteRefused, Apply
  <2>2. QED
    BY <1>11, <1>a, <2>1 DEF WriteAnswer, WriteRefused
<1>12. ASSUME NEW w \in Writers, WriteFails(w)
       PROVE  TypeOK'
  BY <1>12, <1>a, <1>d DEF WriteFails
<1>13. ASSUME NEW k \in Deletable, Delete(k)
       PROVE  TypeOK'
  <2>1. rows' \in Tables /\ stored' \in Tables
    BY <1>13, <1>b DEF Delete, Apply
  <2>2. QED
    BY <1>13, <1>a, <2>1 DEF Delete
<1>14. CASE Crash
  BY <1>14 DEF Crash
<1>15. CASE UNCHANGED vars
  BY <1>15 DEF vars
<1>16. QED
  BY Steps, <1>1, <1>2, <1>3, <1>4, <1>5, <1>6, <1>7, <1>8, <1>9, <1>10, <1>11, <1>12,
     <1>13, <1>14, <1>15

\* TransactionOwned is inductive: the only way into Open takes the transaction, and
\* whoever ends the transaction of another puts that one into lost.
LEMMA OwnedStep ==
  ASSUME TypeOK, TransactionOwned, [Next]_vars
  PROVE  TransactionOwned'
<1> USE NoneAssumption
<1> USE DEF TypeOK, TransactionOwned, Open, Actors
<1>1. ASSUME NEW i \in Importers,
             Accept(i) \/ Refuse(i) \/ BeginFails(i) \/ Conflict(i) \/ EndChunk(i)
      PROVE  TransactionOwned'
  BY <1>1 DEF Accept, Refuse, BeginFails, Conflict, EndChunk, Move, InChunk
<1>2. ASSUME NEW i \in Importers, Begin(i)
      PROVE  TransactionOwned'
  BY <1>2 DEF Begin, Move
<1>3. ASSUME NEW i \in Importers, Skip(i)
      PROVE  TransactionOwned'
  BY <1>3 DEF Skip, Raises, InChunk
<1>4. ASSUME NEW i \in Importers, InsertItem(i)
      PROVE  TransactionOwned'
  BY <1>4 DEF InsertItem, Apply
<1>5. ASSUME NEW i \in Importers, UpdateItem(i)
      PROVE  TransactionOwned'
  BY <1>5 DEF UpdateItem, Apply, Move
<1>6. ASSUME NEW i \in Importers, CommitChunk(i)
      PROVE  TransactionOwned'
  BY <1>6 DEF CommitChunk, Commit, Move
<1>7. ASSUME NEW i \in Importers, Interrupted(i)
      PROVE  TransactionOwned'
  BY <1>7 DEF Interrupted, Raises, Move
<1>8. ASSUME NEW i \in Importers, RollbackChunk(i)
      PROVE  TransactionOwned'
  BY <1>8 DEF RollbackChunk, Rollback, Move
<1>9. ASSUME NEW i \in Importers, WriteLog(i)
      PROVE  TransactionOwned'
  BY <1>9 DEF WriteLog, Apply, Move
<1>10. ASSUME NEW i \in Importers, WriteLogFails(i)
       PROVE  TransactionOwned'
  BY <1>10 DEF WriteLogFails, Raises, Move
<1>11. ASSUME NEW w \in Writers, NEW k \in Keys, WriteAnswer(w, k) \/ WriteRefused(w, k)
       PROVE  TransactionOwned'
  BY <1>11 DEF WriteAnswer, WriteRefused, Apply
<1>12. ASSUME NEW w \in Writers, WriteFails(w)
       PROVE  TransactionOwned'
  BY <1>12 DEF WriteFails, Raises
<1>13. ASSUME NEW k \in Deletable, Delete(k)
       PROVE  TransactionOwned'
  BY <1>13 DEF Delete, Apply
<1>14. CASE Crash
  BY <1>14 DEF Crash
<1>15. CASE UNCHANGED vars
  BY <1>15 DEF vars
<1>16. QED
  BY Steps, <1>1, <1>2, <1>3, <1>4, <1>5, <1>6, <1>7, <1>8, <1>9, <1>10, <1>11, <1>12,
     <1>13, <1>14, <1>15

\* While nobody has ended its transaction, an import knows where it stands ...
Counted ==
  \A i \in Importers \ lost :
    /\ ipc[i] \in {"idle", "next"} => pos[i] = Start(i)
    /\ ipc[i] \in {"items", "conflict", "commit"} =>
         pos[i] = Start(i) + delta[i].imported + delta[i].updated + delta[i].skipped

\* ... and what it has written comes from what it has dealt with.
Written(i, k) ==
  \E n \in 1..(IF tx = i THEN pos[i] ELSE Start(i)) : Items(i)[n] = k

RowsWritten ==
  \A k \in Keys, i \in Importers \ lost : rows.questions[k] = i => Written(i, k)

LEMMA Positions ==
  ASSUME TypeOK, NEW i \in Importers
  PROVE  /\ pos[i] \in Nat /\ Start(i) \in Nat
         /\ total[i].imported \in Nat /\ total[i].updated \in Nat /\ total[i].skipped \in Nat
         /\ delta[i].imported \in Nat /\ delta[i].updated \in Nat /\ delta[i].skipped \in Nat
BY DEF TypeOK, Counts, Start

LEMMA CountedStep ==
  ASSUME TypeOK, Counted, [Next]_vars
  PROVE  Counted'
<1> USE Positions
<1> USE DEF Counted, Start
<1>a. /\ ipc \in [Importers -> Open \cup {"idle", "refused", "next", "log", "done", "failed"}]
      /\ pos \in [Importers -> Nat]
      /\ delta \in [Importers -> Counts] /\ total \in [Importers -> Counts]
  BY DEF TypeOK
<1>b. Raises => lost \subseteq lost'
  BY DEF Raises
<1>1. ASSUME NEW i \in Importers,
             Accept(i) \/ Refuse(i) \/ BeginFails(i) \/ Conflict(i) \/ EndChunk(i)
      PROVE  Counted'
  BY <1>1, <1>a DEF Accept, Refuse, BeginFails, Conflict, EndChunk, Move, InChunk
<1>2. ASSUME NEW i \in Importers, Begin(i)
      PROVE  Counted'
  BY <1>2, <1>a DEF Begin, Move, NoCount
<1>c. ASSUME NEW i \in Importers, NEW f \in {"imported", "updated", "skipped"}, Tally(i, f)
      PROVE  /\ pos' = [pos EXCEPT ![i] = pos[i] + 1]
             /\ \A j \in Importers \ {i} : delta'[j] = delta[j]
             /\ delta'[i].imported + delta'[i].updated + delta'[i].skipped =
                  delta[i].imported + delta[i].updated + delta[i].skipped + 1
  <2>1. pos' = [pos EXCEPT ![i] = pos[i] + 1] /\ delta' = [delta EXCEPT ![i][f] = delta[i][f] + 1]
    BY <1>c DEF Tally
  <2>2. delta[i] \in Counts
    BY <1>a
  <2>3. delta'[i] = [delta[i] EXCEPT ![f] = delta[i][f] + 1] /\ \A j \in Importers \ {i} : delta'[j] = delta[j]
    BY <1>a, <2>1
  <2>4. QED
    BY <2>1, <2>2, <2>3 DEF Counts
<1>d. ASSUME NEW i \in Importers, NEW f \in {"imported", "updated", "skipped"}, Tally(i, f),
             ipc[i] \in {"items", "conflict"}, ipc' = [ipc EXCEPT ![i] = "items"],
             total' = total, lost \subseteq lost'
      PROVE  Counted'
  <2>1. SUFFICES ASSUME NEW j \in Importers \ lost
                 PROVE  /\ ipc'[j] \in {"idle", "next"} => pos'[j] = Start(j)'
                        /\ ipc'[j] \in {"items", "conflict", "commit"} =>
                             pos'[j] = Start(j)' + delta'[j].imported + delta'[j].updated + delta'[j].skipped
    BY <1>d
  <2>2. Start(j)' = Start(j)
    BY <1>d
  <2>3. CASE j = i
    <3>1. pos[i] = Start(i) + delta[i].imported + delta[i].updated + delta[i].skipped
      BY <1>d, <2>1, <2>3
    <3>2. pos'[i] = pos[i] + 1 /\ ipc'[i] = "items"
      BY <1>a, <1>c, <1>d
    <3>3. delta'[i].imported + delta'[i].updated + delta'[i].skipped =
            delta[i].imported + delta[i].updated + delta[i].skipped + 1
      BY <1>c, <1>d
    <3>4. delta'[i] \in Counts
      BY <1>a, <1>d DEF Tally, Counts
    <3>5. pos'[i] = Start(i) + delta'[i].imported + delta'[i].updated + delta'[i].skipped
      BY <3>1, <3>2, <3>3, <3>4, Positions DEF Counts
    <3>6. QED
      BY <2>2, <2>3, <3>2, <3>5
  <2>4. CASE j # i
    BY <2>2, <2>4, <1>a, <1>c, <1>d
  <2>5. QED
    BY <2>3, <2>4
<1>3. ASSUME NEW i \in Importers, Skip(i)
      PROVE  Counted'
  <2>1. ipc[i] = "items" /\ ipc' = [ipc EXCEPT ![i] = "items"] /\ lost \subseteq lost'
    BY <1>3, <1>a, <1>b DEF Skip, InChunk
  <2>2. QED
    BY <1>3, <1>d, <2>1 DEF Skip
<1>4. ASSUME NEW i \in Importers, InsertItem(i)
      PROVE  Counted'
  <2>1. ipc[i] = "items" /\ ipc' = [ipc EXCEPT ![i] = "items"]
    BY <1>4, <1>a DEF InsertItem, InChunk
  <2>2. QED
    BY <1>4, <1>d, <2>1 DEF InsertItem
<1>5. ASSUME NEW i \in Importers, UpdateItem(i)
      PROVE  Counted'
  BY <1>5, <1>d DEF UpdateItem, Move
<1>6. ASSUME NEW i \in Importers, CommitChunk(i)
      PROVE  Counted'
  <2>1. delta[i] \in Counts /\ total[i] \in Counts
    BY <1>a
  <2>2. total' = [total EXCEPT ![i] = Plus(total[i], delta[i])]
    BY <1>6 DEF CommitChunk
  <2>3. Start(i)' = Start(i) + delta[i].imported + delta[i].updated + delta[i].skipped
    BY <1>a, <2>1, <2>2, SumOfCounts
  <2>4. \A j \in Importers \ {i} : Start(j)' = Start(j)
    BY <1>a, <2>2
  <2>5. /\ lost \subseteq lost' /\ pos' = pos /\ delta' = delta
        /\ ipc[i] = "commit" /\ \A j \in Importers \ {i} : ipc'[j] = ipc[j]
        /\ ipc'[i] \in {"log", "next"}
    BY <1>6, <1>a DEF CommitChunk, Commit, Move
  <2>6. QED
    BY <2>3, <2>4, <2>5
<1>7. ASSUME NEW i \in Importers, Interrupted(i)
      PROVE  Counted'
  BY <1>7, <1>a, <1>b DEF Interrupted, Move
<1>8. ASSUME NEW i \in Importers, RollbackChunk(i)
      PROVE  Counted'
  BY <1>8, <1>a DEF RollbackChunk, Rollback, Move
<1>9. ASSUME NEW i \in Importers, WriteLog(i)
      PROVE  Counted'
  BY <1>9, <1>a DEF WriteLog, Move
<1>10. ASSUME NEW i \in Importers, WriteLogFails(i)
       PROVE  Counted'
  BY <1>10, <1>a, <1>b DEF WriteLogFails, Move
<1>11. ASSUME NEW w \in Writers, NEW k \in Keys, WriteAnswer(w, k) \/ WriteRefused(w, k)
       PROVE  Counted'
  BY <1>11 DEF WriteAnswer, WriteRefused
<1>12. ASSUME NEW w \in Writers, WriteFails(w)
       PROVE  Counted'
  BY <1>12, <1>b DEF WriteFails
<1>13. ASSUME NEW k \in Deletable, Delete(k)
       PROVE  Counted'
  BY <1>13 DEF Delete
<1>14. CASE Crash
  BY <1>14, <1>a DEF Crash, Open
<1>15. CASE UNCHANGED vars
  BY <1>15 DEF vars
<1>16. QED
  BY Steps, <1>1, <1>2, <1>3, <1>4, <1>5, <1>6, <1>7, <1>8, <1>9, <1>10, <1>11, <1>12,
     <1>13, <1>14, <1>15

LEMMA ItemsStay ==
  ASSUME uploads' = uploads
  PROVE  \A i \in Importers : Items(i)' = Items(i)
BY DEF Items

\* A step that writes nothing, or undoes the open transaction.
LEMMA UndoneOrUntouched ==
  ASSUME TypeOK, RowsWritten, OnlyCommittedChunks,
         uploads' = uploads, total' = total, lost \subseteq lost',
         \A i \in Importers : pos'[i] \in Nat /\ pos[i] <= pos'[i],
         \/ UNCHANGED <<rows, stored, tx>>
         \/ rows' = stored /\ stored' = stored /\ tx' = None
  PROVE  RowsWritten' /\ OnlyCommittedChunks'
<1> USE DEF RowsWritten, OnlyCommittedChunks, Written
<1>1. \A i \in Importers : Items(i)' = Items(i) /\ Start(i)' = Start(i)
  BY ItemsStay DEF Start
<1>2. \A i \in Importers : pos[i] \in Nat /\ Start(i) \in Nat
  BY Positions
<1>3. OnlyCommittedChunks'
  BY <1>1
<1>4. CASE UNCHANGED <<rows, stored, tx>>
  BY <1>1, <1>2, <1>3, <1>4
<1>5. CASE rows' = stored /\ stored' = stored /\ tx' = None
  BY <1>1, <1>2, <1>3, <1>5, NoneAssumption DEF Actors
<1>6. QED
  BY <1>4, <1>5

\* A statement that writes only what its import has read.
LEMMA AppliedRead ==
  ASSUME TypeOK, RowsWritten, OnlyCommittedChunks, NEW table, Apply(table),
         uploads' = uploads, total' = total, lost' = lost, tx' = tx,
         \A i \in Importers : pos'[i] \in Nat /\ pos[i] <= pos'[i],
         \A k \in Keys : \/ table.questions[k] = rows.questions[k]
                         \/ \A i \in Importers \ lost :
                              table.questions[k] = i => tx = i /\ Written(i, k)'
  PROVE  RowsWritten' /\ OnlyCommittedChunks'
<1>1. \A i \in Importers : Items(i)' = Items(i) /\ Start(i)' = Start(i)
  BY ItemsStay DEF Start
<1>2. \A i \in Importers : pos[i] \in Nat /\ Start(i) \in Nat
  BY Positions
<1>3. \A k \in Keys, i \in Importers \ lost : Written(i, k) => Written(i, k)'
  BY <1>1, <1>2 DEF Written
<1>4. RowsWritten'
  BY <1>3 DEF RowsWritten, Apply
<1>5. CASE tx = None
  BY <1>4, <1>5, NoneAssumption DEF RowsWritten, OnlyCommittedChunks, Written, Apply, Actors
<1>6. CASE tx # None
  <2>1. stored' = stored
    BY <1>6 DEF Apply
  <2>2. QED
    BY <1>1, <1>4, <2>1 DEF OnlyCommittedChunks
<1>7. QED
  BY <1>4, <1>5, <1>6

LEMMA CommittedStep ==
  ASSUME TypeOK, TransactionOwned, Counted, RowsWritten, OnlyCommittedChunks, [Next]_vars
  PROVE  RowsWritten' /\ OnlyCommittedChunks'
<1> USE NoneAssumption, ActorsAssumption, UndoneOrUntouched
<1>a. /\ pos \in [Importers -> Nat] /\ lost \subseteq Importers
      /\ ipc \in [Importers -> Open \cup {"idle", "refused", "next", "log", "done", "failed"}]
      /\ rows \in Tables /\ stored \in Tables
  BY DEF TypeOK, Tables
<1>b. Raises => /\ lost \subseteq lost'
                /\ \/ UNCHANGED <<rows, stored, tx>>
                   \/ rows' = stored /\ stored' = stored /\ tx' = None
  BY DEF Raises
<1>c. ASSUME NEW i \in Importers, NEW f, Tally(i, f)
      PROVE  /\ pos' = [pos EXCEPT ![i] = pos[i] + 1]
             /\ \A j \in Importers : pos'[j] \in Nat /\ pos[j] <= pos'[j]
  BY <1>a, <1>c DEF Tally
<1>d. ASSUME NEW i \in Importers \ lost, ipc[i] \in Open, NEW f, Tally(i, f),
             uploads' = uploads, total' = total, tx' = tx
      PROVE  tx = i /\ \A k : k = Item(i) => Written(i, k)'
  <2>1. tx = i
    BY <1>d DEF TransactionOwned
  <2>2. pos'[i] = pos[i] + 1 /\ pos[i] + 1 \in 1..pos'[i]
    BY <1>a, <1>c, <1>d
  <2>3. QED
    BY <1>d, <2>1, <2>2, ItemsStay DEF Written, Item
<1>1. ASSUME NEW i \in Importers,
             Accept(i) \/ Refuse(i) \/ BeginFails(i) \/ Conflict(i) \/ EndChunk(i)
      PROVE  RowsWritten' /\ OnlyCommittedChunks'
  BY <1>1, <1>a DEF Accept, Refuse, BeginFails, Conflict, EndChunk
<1>2. ASSUME NEW i \in Importers, Begin(i)
      PROVE  RowsWritten' /\ OnlyCommittedChunks'
  <2>1. \A j \in Importers : Items(j)' = Items(j) /\ Start(j)' = Start(j)
    BY <1>2, ItemsStay DEF Begin, Start
  <2>2. i \notin lost => pos[i] = Start(i)
    BY <1>2 DEF Begin, Counted
  <2>3. \A k \in Keys, j \in Importers \ lost : Written(j, k) => Written(j, k)'
    BY <1>2, <2>1, <2>2 DEF Begin, Written, Actors
  <2>4. QED
    BY <1>2, <2>1, <2>3 DEF Begin, RowsWritten, OnlyCommittedChunks
<1>3. ASSUME NEW i \in Importers, Skip(i)
      PROVE  RowsWritten' /\ OnlyCommittedChunks'
  <2>1. /\ lost \subseteq lost'
        /\ \/ UNCHANGED <<rows, stored, tx>>
           \/ rows' = stored /\ stored' = stored /\ tx' = None
    BY <1>3, <1>b DEF Skip
  <2>2. QED
    BY <1>3, <1>c, <2>1 DEF Skip
<1>4. ASSUME NEW i \in Importers, InsertItem(i)
      PROVE  RowsWritten' /\ OnlyCommittedChunks'
  <2> DEFINE table == [rows EXCEPT !.questions[Item(i)] = i]
  <2>1. i \notin lost => tx = i /\ \A k : k = Item(i) => Written(i, k)'
    BY <1>4, <1>d DEF InsertItem, InChunk, Open
  <2>2. \A k \in Keys : table.questions[k] = rows.questions[k] \/ (k = Item(i) /\ table.questions[k] = i)
    BY <1>a DEF Tables
  <2>3. Apply(table)
    BY <1>4 DEF InsertItem
  <2> HIDE DEF table
  <2>4. QED
    BY <1>4, <1>c, <2>1, <2>2, <2>3, AppliedRead DEF InsertItem
<1>5. ASSUME NEW i \in Importers, UpdateItem(i)
      PROVE  RowsWritten' /\ OnlyCommittedChunks'
  <2> DEFINE table == IF rows.questions[Item(i)] = None THEN rows
                      ELSE [rows EXCEPT !.questions[Item(i)] = i]
  <2>1. i \notin lost => tx = i /\ \A k : k = Item(i) => Written(i, k)'
    BY <1>5, <1>d DEF UpdateItem, Open
  <2>2. \A k \in Keys : table.questions[k] = rows.questions[k] \/ (k = Item(i) /\ table.questions[k] = i)
    BY <1>a DEF Tables
  <2>3. Apply(table)
    BY <1>5 DEF UpdateItem
  <2> HIDE DEF table
  <2>4. QED
    BY <1>5, <1>c, <2>1, <2>2, <2>3, AppliedRead DEF UpdateItem
<1>6. ASSUME NEW i \in Importers, CommitChunk(i)
      PROVE  RowsWritten' /\ OnlyCommittedChunks'
  <2>1. /\ tx # None /\ rows' = rows /\ stored' = rows /\ tx' = None
        /\ lost' = lost \cup ({tx} \ {i}) /\ pos' = pos /\ uploads' = uploads
        /\ total' = [total EXCEPT ![i] = Plus(total[i], delta[i])]
    BY <1>6 DEF CommitChunk, Commit
  <2>2. \A j \in Importers : Items(j)' = Items(j)
    BY <2>1, ItemsStay
  <2>3. \A j \in Importers \ {i} : Start(j)' = Start(j)
    BY <2>1 DEF TypeOK, Start
  <2>4. total[i] \in Counts /\ delta[i] \in Counts
    BY DEF TypeOK
  <2>5. Start(i)' = Start(i) + delta[i].imported + delta[i].updated + delta[i].skipped
    BY <2>1, <2>4, SumOfCounts DEF TypeOK, Start, Counts
  <2>6. i \notin lost => tx = i /\ Start(i)' = pos[i]
    BY <1>6, <2>5 DEF CommitChunk, TransactionOwned, Counted, Open
  <2>7. ASSUME NEW j \in Importers \ lost', NEW k \in Keys, rows.questions[k] = j
        PROVE  \E n \in 1..Start(j)' : Items(j)'[n] = k
    <3>1. Written(j, k) /\ j \notin lost
      BY <2>1, <2>7 DEF RowsWritten
    <3>2. CASE j = i
      BY <2>2, <2>6, <3>1, <3>2 DEF Written
    <3>3. CASE j # i
      BY <2>1, <2>2, <2>3, <2>7, <3>1, <3>3 DEF Written
    <3>4. QED
      BY <3>2, <3>3
  <2>8. OnlyCommittedChunks'
    BY <2>1, <2>7 DEF OnlyCommittedChunks
  <2>9. RowsWritten'
    BY <2>1, <2>7 DEF RowsWritten, Written, Actors
  <2>10. QED
    BY <2>8, <2>9
<1>7. ASSUME NEW i \in Importers, Interrupted(i)
      PROVE  RowsWritten' /\ OnlyCommittedChunks'
  BY <1>7, <1>a, <1>b DEF Interrupted
<1>8. ASSUME NEW i \in Importers, RollbackChunk(i)
      PROVE  RowsWritten' /\ OnlyCommittedChunks'
  BY <1>8, <1>a DEF RollbackChunk, Rollback
<1>9. ASSUME NEW i \in Importers, WriteLog(i)
      PROVE  RowsWritten' /\ OnlyCommittedChunks'
  <2> DEFINE table == [rows EXCEPT !.log = rows.log \cup {i}]
  <2>1. table.questions = rows.questions
    BY <1>a DEF Tables
  <2>2. Apply(table)
    BY <1>9 DEF WriteLog
  <2> HIDE DEF table
  <2>3. QED
    BY <1>9, <1>a, <2>1, <2>2, AppliedRead DEF WriteLog
<1>10. ASSUME NEW i \in Importers, WriteLogFails(i)
       PROVE  RowsWritten' /\ OnlyCommittedChunks'
  BY <1>10, <1>a, <1>b DEF WriteLogFails
<1>11. ASSUME NEW w \in Writers, NEW k \in Keys, WriteAnswer(w, k)
       PROVE  RowsWritten' /\ OnlyCommittedChunks'
  <2> DEFINE table == [rows EXCEPT !.questions[k] = w]
  <2>1. \A j \in Keys : table.questions[j] = rows.questions[j] \/ table.questions[j] \notin Importers
    BY <1>a DEF Tables
  <2>2. Apply(table)
    BY <1>11 DEF WriteAnswer
  <2> HIDE DEF table
  <2>3. QED
    BY <1>11, <1>a, <2>1, <2>2, AppliedRead DEF WriteAnswer
<1>12. ASSUME NEW w \in Writers, NEW k \in Keys, WriteRefused(w, k)
       PROVE  RowsWritten' /\ OnlyCommittedChunks'
  BY <1>12, <1>a DEF WriteRefused
<1>13. ASSUME NEW w \in Writers, WriteFails(w)
       PROVE  RowsWritten' /\ OnlyCommittedChunks'
  BY <1>13, <1>a, <1>b DEF WriteFails
<1>14. ASSUME NEW k \in Deletable, Delete(k)
       PROVE  RowsWritten' /\ OnlyCommittedChunks'
  <2> DEFINE table == [rows EXCEPT !.questions[k] = None]
  <2>1. \A j \in Keys : table.questions[j] = rows.questions[j] \/ table.questions[j] \notin Importers
    BY <1>a DEF Tables, Actors
  <2>2. Apply(table)
    BY <1>14 DEF Delete
  <2> HIDE DEF table
  <2>3. QED
    BY <1>14, <1>a, <2>1, <2>2, AppliedRead DEF Delete
<1>15. CASE Crash
  BY <1>15, <1>a DEF Crash
<1>16. CASE UNCHANGED vars
  BY <1>16, <1>a DEF vars
<1>17. QED
  BY Steps, <1>1, <1>2, <1>3, <1>4, <1>5, <1>6, <1>7, <1>8, <1>9, <1>10, <1>11, <1>12,
     <1>13, <1>14, <1>15, <1>16

\* Among the losers there is always one that has failed, or that is in Open without a
\* transaction: it cannot succeed but by ending the transaction of another, who is then such a one.
LossMarked ==
  lost # {} => \E p \in lost : ipc[p] = "failed" \/ (ipc[p] \in Open /\ tx # p)

LEMMA MarkedStep ==
  ASSUME TypeOK, TransactionOwned, LossMarked, [Next]_vars
  PROVE  LossMarked'
<1> USE NoneAssumption
<1> USE DEF LossMarked, Open, Actors
<1>a. /\ ipc \in [Importers -> Open \cup {"idle", "refused", "next", "log", "done", "failed"}]
      /\ lost \subseteq Importers /\ tx \in Importers \cup {None}
      /\ tx # None => ipc[tx] \in Open
  BY DEF TypeOK, TransactionOwned
<1>1. ASSUME NEW i \in Importers,
             Accept(i) \/ Refuse(i) \/ BeginFails(i) \/ Conflict(i) \/ EndChunk(i)
      PROVE  LossMarked'
  BY <1>1, <1>a DEF Accept, Refuse, BeginFails, Conflict, EndChunk, Move, InChunk
<1>2. ASSUME NEW i \in Importers, Begin(i)
      PROVE  LossMarked'
  BY <1>2, <1>a DEF Begin, Move
<1>3. ASSUME NEW i \in Importers, Skip(i)
      PROVE  LossMarked'
  BY <1>3, <1>a DEF Skip, Raises
<1>4. ASSUME NEW i \in Importers, InsertItem(i)
      PROVE  LossMarked'
  BY <1>4, <1>a DEF InsertItem
<1>5. ASSUME NEW i \in Importers, UpdateItem(i)
      PROVE  LossMarked'
  BY <1>5, <1>a DEF UpdateItem, Move
<1>6. ASSUME NEW i \in Importers, CommitChunk(i)
      PROVE  LossMarked'
  <2>1. /\ ipc[i] = "commit" /\ tx # None /\ tx' = None /\ lost' = lost \cup ({tx} \ {i})
        /\ \A j \in Importers \ {i} : ipc'[j] = ipc[j]
    BY <1>6, <1>a DEF CommitChunk, Commit, Move
  <2>2. CASE tx = i
    BY <2>1, <2>2, <1>a
  <2>3. CASE tx # i
    BY <2>1, <2>3, <1>a
  <2>4. QED
    BY <2>2, <2>3
<1>7. ASSUME NEW i \in Importers, Interrupted(i)
      PROVE  LossMarked'
  BY <1>7, <1>a DEF Interrupted, Raises, Move
<1>8. ASSUME NEW i \in Importers, RollbackChunk(i)
      PROVE  LossMarked'
  BY <1>8, <1>a DEF RollbackChunk, Rollback, Move
<1>9. ASSUME NEW i \in Importers, WriteLog(i)
      PROVE  LossMarked'
  BY <1>9, <1>a DEF WriteLog, Move
<1>10. ASSUME NEW i \in Importers, WriteLogFails(i)
       PROVE  LossMarked'
  BY <1>10, <1>a DEF WriteLogFails, Raises, Move
<1>11. ASSUME NEW w \in Writers, NEW k \in Keys, WriteAnswer(w, k) \/ WriteRefused(w, k)
       PROVE  LossMarked'
  BY <1>11 DEF WriteAnswer, WriteRefused
<1>12. ASSUME NEW w \in Writers, WriteFails(w)
       PROVE  LossMarked'
  BY <1>12, <1>a DEF WriteFails, Raises
<1>13. ASSUME NEW k \in Deletable, Delete(k)
       PROVE  LossMarked'
  BY <1>13 DEF Delete
<1>14. CASE Crash
  BY <1>14, <1>a DEF Crash
<1>15. CASE UNCHANGED vars
  BY <1>15 DEF vars
<1>16. QED
  BY Steps, <1>1, <1>2, <1>3, <1>4, <1>5, <1>6, <1>7, <1>8, <1>9, <1>10, <1>11, <1>12,
     <1>13, <1>14, <1>15

LEMMA LeastNumber ==
  ASSUME NEW T, T \subseteq Nat, T # {}
  PROVE  \E n \in T : \A m \in T : n <= m
<1>1. \E R : IsWellFoundedOn(R, Nat) /\ \A m, n \in Nat : m < n => <<m, n>> \in R
  <2>1. \A m, n \in Nat : m < n => <<m, n>> \in OpToRel(<, Nat)
    BY DEF OpToRel
  <2>2. QED
    BY <2>1, NatLessThanWellFounded
<1>2. PICK R : IsWellFoundedOn(R, Nat) /\ \A m, n \in Nat : m < n => <<m, n>> \in R
  BY <1>1
<1>3. IsWellFoundedOn(R, Nat)
  BY <1>2
<1>4. \E n \in T : \A m \in T : ~(<<m, n>> \in R)
  BY <1>3, WFMin, Zenon
<1>5. PICK n \in T : \A m \in T : ~(<<m, n>> \in R)
  BY <1>4
<1>6. \A m \in T : ~(m < n)
  BY <1>2, <1>5
<1>7. QED
  BY <1>6

\* What FlattenSeq builds, up to the m-th of its sequences.
Grow(seqs, f, m) == f = [i \in 1..m |-> IF i = 1 THEN seqs[i] ELSE f[i - 1] \o seqs[i]]

LEMMA GrowExists ==
  ASSUME NEW seqs, NEW m \in Nat
  PROVE  \E f : Grow(seqs, f, m)
<1> DEFINE T == {n \in Nat : ~ \E f : Grow(seqs, f, n)}
<1> SUFFICES ASSUME T # {}
             PROVE  FALSE
  OBVIOUS
<1>1. PICK n \in T : \A k \in T : n <= k
  <2>1. T \subseteq Nat
    OBVIOUS
  <2> HIDE DEF T
  <2>2. QED
    BY <2>1, LeastNumber
<1>2. n \in Nat /\ ~ \E f : Grow(seqs, f, n)
  OBVIOUS
<1>3. CASE n = 0
  <2> DEFINE f == [i \in 1..0 |-> seqs]
  <2>1. Grow(seqs, f, 0)
    BY DEF Grow
  <2>2. QED
    BY <1>2, <1>3, <2>1
<1>4. CASE n # 0
  <2>1. n - 1 \in Nat /\ ~(n <= n - 1)
    BY <1>2, <1>4
  <2>2. n - 1 \notin T
    BY <1>1, <2>1
  <2>3. PICK f : Grow(seqs, f, n - 1)
    BY <2>1, <2>2
  <2> DEFINE g == [i \in 1..n |-> IF i = n THEN IF n = 1 THEN seqs[1] ELSE f[n - 1] \o seqs[n]
                                  ELSE f[i]]
  <2>4. \A i \in 1..n : g[i] = IF i = 1 THEN seqs[i] ELSE g[i - 1] \o seqs[i]
    <3> SUFFICES ASSUME NEW i \in 1..n
                 PROVE  g[i] = IF i = 1 THEN seqs[i] ELSE g[i - 1] \o seqs[i]
      OBVIOUS
    <3>1. CASE i = n
      BY <1>2, <3>1
    <3>2. CASE i # n
      <4>1. i \in 1..(n - 1) /\ g[i] = f[i]
        BY <1>2, <3>2
      <4>2. f[i] = IF i = 1 THEN seqs[i] ELSE f[i - 1] \o seqs[i]
        BY <2>3, <4>1 DEF Grow
      <4>3. i # 1 => g[i - 1] = f[i - 1]
        BY <1>2, <4>1
      <4>4. QED
        BY <4>1, <4>2, <4>3
    <3>3. QED
      BY <3>1, <3>2
  <2>5. g = [i \in 1..n |-> g[i]]
    OBVIOUS
  <2> HIDE DEF g
  <2>6. Grow(seqs, g, n)
    BY <2>4, <2>5 DEF Grow
  <2>7. QED
    BY <1>2, <2>6
<1>5. QED
  BY <1>3, <1>4

LEMMA ConcatHolds ==
  ASSUME NEW S, NEW a \in Seq(S), NEW b \in Seq(S)
  PROVE  a \o b \in Seq(S) /\ Range(a) \subseteq Range(a \o b) /\ Range(b) \subseteq Range(a \o b)
<1>1. a \o b \in Seq(S)
  OBVIOUS
<1>2. Len(a) \in Nat /\ Len(b) \in Nat /\ Len(a \o b) = Len(a) + Len(b)
      /\ DOMAIN a = 1..Len(a) /\ DOMAIN b = 1..Len(b) /\ DOMAIN (a \o b) = 1..(Len(a) + Len(b))
  OBVIOUS
<1>3. ASSUME NEW x \in Range(a)
      PROVE  x \in Range(a \o b)
  <2>1. PICK n \in 1..Len(a) : x = a[n]
    BY <1>2, <1>3 DEF Range
  <2>2. n \in 1..(Len(a) + Len(b)) /\ (a \o b)[n] = a[n]
    BY <1>2
  <2>3. QED
    BY <1>2, <2>1, <2>2 DEF Range
<1>4. ASSUME NEW x \in Range(b)
      PROVE  x \in Range(a \o b)
  <2>1. PICK n \in 1..Len(b) : x = b[n]
    BY <1>2, <1>4 DEF Range
  <2>2. Len(a) + n \in 1..(Len(a) + Len(b)) /\ (a \o b)[Len(a) + n] = b[n]
    BY <1>2
  <2>3. QED
    BY <1>2, <2>1, <2>2 DEF Range
<1>5. QED
  BY <1>1, <1>3, <1>4

\* FlattenSeq gives a sequence in which every element of every sequence occurs.
Holds(S, seqs, f, m) == f[m] \in Seq(S) /\ \A k \in 1..m : Range(seqs[k]) \subseteq Range(f[m])

LEMMA FlattenHolds ==
  ASSUME NEW S, NEW seqs \in Seq(Seq(S))
  PROVE  /\ FlattenSeq(seqs) \in Seq(S)
         /\ \A n \in DOMAIN seqs : Range(seqs[n]) \subseteq Range(FlattenSeq(seqs))
<1>1. CASE Len(seqs) = 0
  <2>1. seqs = <<>> /\ FlattenSeq(seqs) = seqs
    BY <1>1 DEF FlattenSeq
  <2>2. <<>> \in Seq(S) /\ DOMAIN seqs = {}
    BY <2>1
  <2>3. FlattenSeq(seqs) \in Seq(S)
    BY <2>1, <2>2
  <2>4. QED
    BY <2>2, <2>3
<1>2. CASE Len(seqs) # 0
  <2> DEFINE N == Len(seqs)
             f == CHOOSE f : Grow(seqs, f, N)
  <2>1. N \in Nat \ {0} /\ DOMAIN seqs = 1..N /\ \A n \in 1..N : seqs[n] \in Seq(S)
    BY <1>2
  <2>2. Grow(seqs, f, N)
    BY <2>1, GrowExists
  <2>3. FlattenSeq(seqs) = f[N]
    BY <1>2 DEF FlattenSeq, Grow
  <2> HIDE DEF f, N
  <2>4. \A n \in 1..N : f[n] = IF n = 1 THEN seqs[n] ELSE f[n - 1] \o seqs[n]
    BY <2>2 DEF Grow
  <2> DEFINE T == {n \in 1..N : ~Holds(S, seqs, f, n)}
  <2>5. ASSUME T # {}
        PROVE  FALSE
    <3>1. PICK n \in T : \A k \in T : n <= k
      <4>1. T \subseteq Nat
        BY <2>1
      <4> HIDE DEF T
      <4>2. QED
        BY <2>5, <4>1, LeastNumber
    <3>2. n \in 1..N /\ ~Holds(S, seqs, f, n) /\ n \in Nat
      BY <2>1
    <3>3. CASE n = 1
      <4>1. f[n] = seqs[n] /\ \A k \in 1..n : k = n
        BY <2>4, <3>2, <3>3
      <4>2. QED
        BY <2>1, <3>2, <4>1 DEF Holds
    <3>4. CASE n # 1
      <4>1. n - 1 \in 1..N /\ ~(n <= n - 1)
        BY <2>1, <3>2, <3>4
      <4>2. Holds(S, seqs, f, n - 1)
        BY <3>1, <4>1
      <4>3. f[n] = f[n - 1] \o seqs[n] /\ f[n - 1] \in Seq(S) /\ seqs[n] \in Seq(S)
        BY <2>1, <2>4, <3>2, <3>4, <4>2 DEF Holds
      <4>4. f[n] \in Seq(S) /\ Range(f[n - 1]) \subseteq Range(f[n]) /\ Range(seqs[n]) \subseteq Range(f[n])
        BY <4>3, ConcatHolds
      <4>5. ASSUME NEW k \in 1..n
            PROVE  Range(seqs[k]) \subseteq Range(f[n])
        <5>1. k = n \/ k \in 1..(n - 1)
          BY <3>2
        <5>2. QED
          BY <4>2, <4>4, <5>1 DEF Holds
      <4>6. QED
        BY <3>2, <4>4, <4>5 DEF Holds
    <3>5. QED
      BY <3>3, <3>4
  <2>6. Holds(S, seqs, f, N)
    <3>1. N \in 1..N
      BY <2>1
    <3>2. QED
      BY <2>5, <3>1
  <2>7. QED
    BY <2>1, <2>3, <2>6 DEF Holds
<1>3. QED
  BY <1>1, <1>2

\* No key that nobody deletes is lost between two tables.
Grows(a, b) == \A k \in Keys \ Deletable : a.questions[k] # None => b.questions[k] # None

\* What is committed of such keys can be read, also while a transaction is open.
KeysStay == Grows(stored, rows)

\* Nobody is left in a transaction who does not know that it was undone.
Undone == \A i \in Importers \ lost : ipc[i] \notin Open

LEMMA AppliedGrows ==
  ASSUME TransactionOwned, KeysStay, NEW table, Apply(table), Grows(rows, table)
  PROVE  KeysStay' /\ Grows(stored, stored') /\ Grows(rows, rows')
BY DEF TransactionOwned, KeysStay, Apply, Grows

LEMMA UndoneGrows ==
  ASSUME TransactionOwned, lost \subseteq lost',
         \A i \in Importers : ipc'[i] \in Open => ipc[i] \in Open,
         \/ UNCHANGED <<rows, stored, tx>>
         \/ rows' = stored /\ stored' = stored /\ {tx} \ {None} \subseteq lost',
         KeysStay
  PROVE  KeysStay' /\ Grows(stored, stored') /\ (Grows(rows, rows') \/ Undone')
<1>1. CASE UNCHANGED <<rows, stored, tx>>
  BY <1>1 DEF KeysStay, Grows
<1>2. CASE rows' = stored /\ stored' = stored /\ {tx} \ {None} \subseteq lost'
  BY <1>2, NoneAssumption DEF TransactionOwned, KeysStay, Grows, Undone, Actors
<1>3. QED
  BY <1>1, <1>2

LEMMA GrowthStep ==
  ASSUME TypeOK, TransactionOwned, KeysStay, [Next]_vars
  PROVE  KeysStay' /\ Grows(stored, stored') /\ (Grows(rows, rows') \/ Undone')
<1> USE NoneAssumption
<1>a. /\ ipc \in [Importers -> Open \cup {"idle", "refused", "next", "log", "done", "failed"}]
      /\ rows \in Tables /\ stored \in Tables
  BY DEF TypeOK, Tables
<1>b. Raises => /\ lost \subseteq lost'
                /\ \/ UNCHANGED <<rows, stored, tx>>
                   \/ rows' = stored /\ stored' = stored /\ {tx} \ {None} \subseteq lost'
  BY DEF Raises
<1>c. ASSUME UNCHANGED <<rows, stored>>
      PROVE  KeysStay' /\ Grows(stored, stored') /\ Grows(rows, rows')
  BY <1>c DEF KeysStay, Grows
<1>1. ASSUME NEW i \in Importers,
             Accept(i) \/ Refuse(i) \/ BeginFails(i) \/ Conflict(i) \/ EndChunk(i)
      PROVE  KeysStay' /\ Grows(stored, stored') /\ Grows(rows, rows')
  BY <1>1, <1>c DEF Accept, Refuse, BeginFails, Conflict, EndChunk
<1>2. ASSUME NEW i \in Importers, Begin(i)
      PROVE  KeysStay' /\ Grows(stored, stored') /\ Grows(rows, rows')
  BY <1>2, <1>c DEF Begin
<1>3. ASSUME NEW i \in Importers, Skip(i)
      PROVE  KeysStay' /\ Grows(stored, stored') /\ (Grows(rows, rows') \/ Undone')
  BY <1>3, <1>b, UndoneGrows DEF Skip
<1>4. ASSUME NEW i \in Importers, InsertItem(i)
      PROVE  KeysStay' /\ Grows(stored, stored') /\ Grows(rows, rows')
  <2> DEFINE table == [rows EXCEPT !.questions[Item(i)] = i]
  <2>1. Grows(rows, table)
    BY <1>a DEF Tables, Grows, Actors
  <2>2. Apply(table)
    BY <1>4 DEF InsertItem
  <2> HIDE DEF table
  <2>3. QED
    BY <2>1, <2>2, AppliedGrows
<1>5. ASSUME NEW i \in Importers, UpdateItem(i)
      PROVE  KeysStay' /\ Grows(stored, stored') /\ Grows(rows, rows')
  <2> DEFINE table == IF rows.questions[Item(i)] = None THEN rows
                      ELSE [rows EXCEPT !.questions[Item(i)] = i]
  <2>1. Grows(rows, table)
    BY <1>a DEF Tables, Grows, Actors
  <2>2. Apply(table)
    BY <1>5 DEF UpdateItem
  <2> HIDE DEF table
  <2>3. QED
    BY <2>1, <2>2, AppliedGrows
<1>6. ASSUME NEW i \in Importers, CommitChunk(i)
      PROVE  KeysStay' /\ Grows(stored, stored') /\ Grows(rows, rows')
  BY <1>6 DEF CommitChunk, Commit, KeysStay, Grows
<1>7. ASSUME NEW i \in Importers, Interrupted(i)
      PROVE  KeysStay' /\ Grows(stored, stored') /\ (Grows(rows, rows') \/ Undone')
  <2>1. \A j \in Importers : ipc'[j] \in Open => ipc[j] \in Open
    BY <1>7, <1>a DEF Interrupted, Move, Open
  <2>2. QED
    BY <1>7, <1>b, <2>1, UndoneGrows DEF Interrupted
<1>8. ASSUME NEW i \in Importers, RollbackChunk(i)
      PROVE  KeysStay' /\ Grows(stored, stored') /\ (Grows(rows, rows') \/ Undone')
  <2>1. KeysStay' /\ Grows(stored, stored')
    BY <1>8 DEF RollbackChunk, Rollback, KeysStay, Grows
  <2>2. Undone'
    BY <1>8, <1>a DEF RollbackChunk, Rollback, Move, Undone, Open, TransactionOwned, Actors
  <2>3. QED
    BY <2>1, <2>2
<1>9. ASSUME NEW i \in Importers, WriteLog(i)
      PROVE  KeysStay' /\ Grows(stored, stored') /\ Grows(rows, rows')
  <2> DEFINE table == [rows EXCEPT !.log = rows.log \cup {i}]
  <2>1. Grows(rows, table)
    BY <1>a DEF Tables, Grows
  <2>2. Apply(table)
    BY <1>9 DEF WriteLog
  <2> HIDE DEF table
  <2>3. QED
    BY <2>1, <2>2, AppliedGrows
<1>10. ASSUME NEW i \in Importers, WriteLogFails(i)
       PROVE  KeysStay' /\ Grows(stored, stored') /\ (Grows(rows, rows') \/ Undone')
  <2>1. \A j \in Importers : ipc'[j] \in Open => ipc[j] \in Open
    BY <1>10, <1>a DEF WriteLogFails, Move, Open
  <2>2. QED
    BY <1>10, <1>b, <2>1, UndoneGrows DEF WriteLogFails
<1>11. ASSUME NEW w \in Writers, NEW k \in Keys, WriteAnswer(w, k)
       PROVE  KeysStay' /\ Grows(stored, stored') /\ Grows(rows, rows')
  <2> DEFINE table == [rows EXCEPT !.questions[k] = w]
  <2>1. Grows(rows, table)
    BY <1>a DEF Tables, Grows, Actors
  <2>2. Apply(table)
    BY <1>11 DEF WriteAnswer
  <2> HIDE DEF table
  <2>3. QED
    BY <2>1, <2>2, AppliedGrows
<1>12. ASSUME NEW w \in Writers, NEW k \in Keys, WriteRefused(w, k)
       PROVE  KeysStay' /\ Grows(stored, stored') /\ Grows(rows, rows')
  BY <1>12, <1>c DEF WriteRefused
<1>13. ASSUME NEW w \in Writers, WriteFails(w)
       PROVE  KeysStay' /\ Grows(stored, stored') /\ (Grows(rows, rows') \/ Undone')
  BY <1>13, <1>b, UndoneGrows DEF WriteFails
<1>14. ASSUME NEW k \in Deletable, Delete(k)
       PROVE  KeysStay' /\ Grows(stored, stored') /\ Grows(rows, rows')
  <2> DEFINE table == [rows EXCEPT !.questions[k] = None]
  <2>1. Grows(rows, table)
    BY <1>a DEF Tables, Grows
  <2>2. Apply(table)
    BY <1>14 DEF Delete
  <2> HIDE DEF table
  <2>3. QED
    BY <2>1, <2>2, AppliedGrows
<1>15. ASSUME Crash
       PROVE  KeysStay' /\ Grows(stored, stored') /\ Undone'
  <2>1. KeysStay' /\ Grows(stored, stored')
    BY <1>15 DEF Crash, KeysStay, Grows
  <2>2. Undone'
    BY <1>15, <1>a DEF Crash, Undone, Open
  <2>3. QED
    BY <2>1, <2>2
<1>16. CASE UNCHANGED vars
  BY <1>16, <1>c DEF vars
<1>17. QED
  BY Steps, <1>1, <1>2, <1>3, <1>4, <1>5, <1>6, <1>7, <1>8, <1>9, <1>10, <1>11, <1>12,
     <1>13, <1>14, <1>15, <1>16

\* An import beyond its first step was accepted, and has finished when the log names it.
Begun ==
  \A i \in Importers :
    /\ ipc[i] \notin {"idle", "refused"} => Accepted(i)
    /\ i \in rows.log \cup stored.log => ipc[i] = "done"

LEMMA BegunStep ==
  ASSUME TypeOK, Begun, [Next]_vars
  PROVE  Begun'
<1> USE DEF Begun, Open
<1>a. /\ ipc \in [Importers -> Open \cup {"idle", "refused", "next", "log", "done", "failed"}]
      /\ rows \in Tables /\ stored \in Tables
  BY DEF TypeOK, Tables
<1>b. uploads' = uploads => \A i \in Importers : Accepted(i)' = Accepted(i)
  BY DEF Accepted, Items
<1>c. \A k, v : [rows EXCEPT !.questions[k] = v].log = rows.log
  BY <1>a DEF Tables
<1>1. ASSUME NEW i \in Importers,
             Accept(i) \/ Refuse(i) \/ BeginFails(i) \/ Conflict(i) \/ EndChunk(i)
      PROVE  Begun'
  BY <1>1, <1>a, <1>b DEF Accept, Refuse, BeginFails, Conflict, EndChunk, Move, InChunk
<1>2. ASSUME NEW i \in Importers, Begin(i)
      PROVE  Begun'
  BY <1>2, <1>a, <1>b DEF Begin, Move
<1>3. ASSUME NEW i \in Importers, Skip(i)
      PROVE  Begun'
  BY <1>3, <1>b DEF Skip, Raises
<1>4. ASSUME NEW i \in Importers, InsertItem(i)
      PROVE  Begun'
  BY <1>4, <1>b, <1>c DEF InsertItem, Apply
<1>5. ASSUME NEW i \in Importers, UpdateItem(i)
      PROVE  Begun'
  BY <1>5, <1>a, <1>b, <1>c DEF UpdateItem, Apply, Move
<1>6. ASSUME NEW i \in Importers, CommitChunk(i)
      PROVE  Begun'
  BY <1>6, <1>a, <1>b DEF CommitChunk, Commit, Move
<1>7. ASSUME NEW i \in Importers, Interrupted(i)
      PROVE  Begun'
  BY <1>7, <1>a, <1>b DEF Interrupted, Raises, Move
<1>8. ASSUME NEW i \in Importers, RollbackChunk(i)
      PROVE  Begun'
  BY <1>8, <1>a, <1>b DEF RollbackChunk, Rollback, Move
<1>9. ASSUME NEW i \in Importers, WriteLog(i)
      PROVE  Begun'
  <2>1. [rows EXCEPT !.log = rows.log \cup {i}].log = rows.log \cup {i}
    BY <1>a DEF Tables
  <2>2. QED
    BY <1>9, <1>a, <1>b, <2>1 DEF WriteLog, Apply, Move
<1>10. ASSUME NEW i \in Importers, WriteLogFails(i)
       PROVE  Begun'
  BY <1>10, <1>a, <1>b DEF WriteLogFails, Raises, Move
<1>11. ASSUME NEW w \in Writers, NEW k \in Keys, WriteAnswer(w, k) \/ WriteRefused(w, k)
       PROVE  Begun'
  <2>1. CASE WriteAnswer(w, k)
    BY <2>1, <1>b, <1>c DEF WriteAnswer, Apply
  <2>2. CASE WriteRefused(w, k)
    BY <2>2, <1>b DEF WriteRefused
  <2>3. QED
    BY <1>11, <2>1, <2>2
<1>12. ASSUME NEW w \in Writers, WriteFails(w)
       PROVE  Begun'
  BY <1>12, <1>b DEF WriteFails, Raises
<1>13. ASSUME NEW k \in Deletable, Delete(k)
       PROVE  Begun'
  BY <1>13, <1>b, <1>c DEF Delete, Apply
<1>14. CASE Crash
  BY <1>14, <1>a, <1>b DEF Crash
<1>15. CASE UNCHANGED vars
  BY <1>15, <1>b DEF vars
<1>16. QED
  BY Steps, <1>1, <1>2, <1>3, <1>4, <1>5, <1>6, <1>7, <1>8, <1>9, <1>10, <1>11, <1>12,
     <1>13, <1>14, <1>15

\* The item is good, and its key is in the table unless somebody may have deleted it.
Kept(item, table) ==
  item # Bad /\ (item \in Keys \ Deletable => table.questions[item] # None)

AllKept(i, m, table) == \A n \in 1..m : Kept(Items(i)[n], table)

\* An import without a skipped item has kept what is counted, on disk what is committed and
\* readable what is not; when it has no more to do it has counted everything.
RestoresOf(i) ==
  /\ ipc[i] = "idle" => Start(i) = 0
  /\ ipc[i] \in {"log", "done"} => Start(i) = Len(Items(i))
  /\ total[i].skipped = 0 => AllKept(i, Start(i), stored)
  /\ ipc[i] \in {"items", "conflict", "commit"} /\ total[i].skipped = 0 /\ delta[i].skipped = 0 =>
       AllKept(i, pos[i], rows)
  /\ ipc[i] = "conflict" => Kept(Item(i), rows)

Restoring == \A i \in Importers \ lost : RestoresOf(i)

\* What others do to an import, or it does itself without counting an item.
LEMMA RestUntouched ==
  ASSUME NEW i \in Importers \ lost', RestoresOf(i), uploads' = uploads,
         pos'[i] = pos[i], total'[i] = total[i], delta'[i] = delta[i],
         ipc'[i] \in {ipc[i], "failed", "refused", "rollback"}
           \/ (ipc[i] = "items" /\ ipc'[i] = "commit") \/ (ipc[i] = "log" /\ ipc'[i] = "done"),
         Grows(stored, stored'), Grows(rows, rows') \/ Undone'
  PROVE  RestoresOf(i)'
<1>1. Items(i)' = Items(i) /\ Start(i)' = Start(i) /\ Item(i)' = Item(i)
  BY DEF Items, Start, Item
<1>2. ASSUME NEW item, Kept(item, stored)
      PROVE  Kept(item, stored')
  BY <1>2 DEF Kept, Grows
<1>3. ASSUME NEW item, Kept(item, rows), Grows(rows, rows')
      PROVE  Kept(item, rows')
  BY <1>3 DEF Kept, Grows
<1>4. total'[i].skipped = 0 => AllKept(i, Start(i), stored)'
  BY <1>1, <1>2 DEF RestoresOf, AllKept
<1>5. CASE ipc'[i] \in {"items", "conflict", "commit"}
  <2>1. ipc[i] \in {"items", "conflict", "commit"} /\ (ipc'[i] = "conflict" => ipc[i] = "conflict")
    BY <1>5
  <2>2. Grows(rows, rows')
    BY <1>5 DEF Undone, Open
  <2>3. total'[i].skipped = 0 /\ delta'[i].skipped = 0 => AllKept(i, pos[i], rows)'
    BY <1>1, <1>3, <2>1, <2>2 DEF RestoresOf, AllKept
  <2>4. ipc'[i] = "conflict" => Kept(Item(i), rows)'
    BY <1>1, <1>3, <2>1, <2>2 DEF RestoresOf
  <2>5. QED
    BY <1>4, <1>5, <2>3, <2>4 DEF RestoresOf
<1>6. CASE ipc'[i] \notin {"items", "conflict", "commit"}
  BY <1>1, <1>4, <1>6 DEF RestoresOf
<1>7. QED
  BY <1>5, <1>6

\* The next item is counted, as stored or as skipped.
LEMMA RestCounted ==
  ASSUME TypeOK, NEW i \in Importers \ lost', RestoresOf(i), uploads' = uploads, total' = total,
         ipc[i] \in {"items", "conflict"}, ipc'[i] = "items",
         NEW f \in {"imported", "updated", "skipped"}, Tally(i, f),
         Grows(stored, stored'),
         f = "skipped" \/ (Grows(rows, rows') /\ Kept(Item(i), rows'))
  PROVE  RestoresOf(i)'
<1>1. Items(i)' = Items(i) /\ Start(i)' = Start(i)
  BY DEF Items, Start
<1>2. total[i].skipped = 0 => AllKept(i, Start(i), stored)'
  <2>1. ASSUME NEW item, Kept(item, stored)
        PROVE  Kept(item, stored')
    BY <2>1 DEF Kept, Grows
  <2>2. QED
    BY <1>1, <2>1 DEF RestoresOf, AllKept
<1>3. pos[i] \in Nat /\ pos'[i] = pos[i] + 1
  BY DEF TypeOK, Tally
<1>4. /\ f = "skipped" => delta'[i].skipped # 0
      /\ f # "skipped" => delta'[i].skipped = delta[i].skipped
  <2>1. delta' = [delta EXCEPT ![i][f] = delta[i][f] + 1]
    BY DEF Tally
  <2>2. delta \in [Importers -> Counts] /\ delta[i] \in Counts
    BY DEF TypeOK
  <2>3. delta'[i] = [delta[i] EXCEPT ![f] = delta[i][f] + 1]
    BY <2>1, <2>2
  <2>4. QED
    BY <2>2, <2>3 DEF Counts
<1>5. ASSUME f # "skipped", total[i].skipped = 0, delta'[i].skipped = 0
      PROVE  AllKept(i, pos[i], rows)'
  <2>1. AllKept(i, pos[i], rows)
    BY <1>4, <1>5 DEF RestoresOf
  <2>2. ASSUME NEW n \in 1..(pos[i] + 1)
        PROVE  Kept(Items(i)[n], rows')
    <3>1. CASE n = pos[i] + 1
      BY <1>5, <3>1 DEF Item
    <3>2. CASE n # pos[i] + 1
      <4>1. n \in 1..pos[i]
        BY <1>3, <3>2
      <4>2. QED
        BY <1>5, <2>1, <4>1 DEF AllKept, Kept, Grows
    <3>3. QED
      BY <3>1, <3>2
  <2>3. QED
    BY <1>1, <1>3, <2>2 DEF AllKept
<1>6. QED
  BY <1>1, <1>2, <1>4, <1>5 DEF RestoresOf

LEMMA RestoringStep ==
  ASSUME TypeOK, TransactionOwned, KeysStay, Counted, Restoring, [Next]_vars
  PROVE  Restoring'
<1>a. /\ ipc \in [Importers -> Open \cup {"idle", "refused", "next", "log", "done", "failed"}]
      /\ rows \in Tables /\ stored \in Tables
      /\ pos \in [Importers -> Nat]
      /\ delta \in [Importers -> Counts] /\ total \in [Importers -> Counts]
  BY DEF TypeOK, Tables
<1>g. Grows(stored, stored') /\ (Grows(rows, rows') \/ Undone')
  BY GrowthStep
<1>r. Raises => lost \subseteq lost'
  BY DEF Raises
<1>o. ASSUME NEW i \in Importers, lost \subseteq lost', uploads' = uploads,
             \A j \in Importers \ {i} : /\ ipc'[j] = ipc[j] /\ pos'[j] = pos[j]
                                        /\ total'[j] = total[j] /\ delta'[j] = delta[j],
             i \notin lost' => RestoresOf(i)'
      PROVE  Restoring'
  <2>1. ASSUME NEW j \in Importers \ lost', j # i
        PROVE  RestoresOf(j)'
    BY <1>g, <1>o, <2>1, RestUntouched DEF Restoring
  <2>2. QED
    BY <1>o, <2>1 DEF Restoring
<1>p. ASSUME lost \subseteq lost', UNCHANGED <<uploads, ipc, pos, delta, total>>
      PROVE  Restoring'
  BY <1>g, <1>p, RestUntouched DEF Restoring
<1>q. ASSUME NEW i \in Importers, NEW s, ipc' = [ipc EXCEPT ![i] = s], lost \subseteq lost',
             UNCHANGED <<uploads, pos, delta, total>>,
             s \in {"failed", "refused", "rollback"} \/ (ipc[i] = "items" /\ s = "commit")
               \/ (ipc[i] = "log" /\ s = "done")
      PROVE  Restoring'
  <2>1. ipc'[i] = s /\ \A j \in Importers \ {i} : ipc'[j] = ipc[j]
    BY <1>a, <1>q
  <2>2. i \notin lost' => RestoresOf(i)'
    BY <1>g, <1>q, <2>1, RestUntouched DEF Restoring
  <2>3. QED
    BY <1>o, <1>q, <2>1, <2>2
<1>t. ASSUME NEW i \in Importers, NEW f \in {"imported", "updated", "skipped"}, Tally(i, f)
      PROVE  \A j \in Importers \ {i} : pos'[j] = pos[j] /\ delta'[j] = delta[j]
  BY <1>a, <1>t DEF Tally
<1>1. ASSUME NEW i \in Importers, Accept(i)
      PROVE  Restoring'
  <2>1. /\ ipc[i] = "idle" /\ ipc'[i] = IF Items(i) = <<>> THEN "log" ELSE "next"
        /\ \A j \in Importers \ {i} : ipc'[j] = ipc[j]
        /\ UNCHANGED <<uploads, stored, lost, pos, delta, total>>
    BY <1>1, <1>a DEF Accept, Move
  <2>2. Items(i)' = Items(i) /\ Start(i)' = Start(i)
    BY <2>1 DEF Items, Start
  <2>3. Items(i) = <<>> => Len(Items(i)) = 0
    OBVIOUS
  <2>4. i \notin lost => RestoresOf(i)'
    BY <2>1, <2>2, <2>3 DEF Restoring, RestoresOf, AllKept
  <2>5. QED
    BY <1>o, <2>1, <2>4
<1>2. ASSUME NEW i \in Importers, Refuse(i) \/ BeginFails(i) \/ EndChunk(i)
      PROVE  Restoring'
  BY <1>2, <1>q DEF Refuse, BeginFails, EndChunk, Move
<1>3. ASSUME NEW i \in Importers, Conflict(i)
      PROVE  Restoring'
  <2>1. /\ ipc[i] = "items" /\ ipc'[i] = "conflict"
        /\ Item(i) # Bad /\ rows.questions[Item(i)] # None
        /\ \A j \in Importers \ {i} : ipc'[j] = ipc[j]
        /\ UNCHANGED <<uploads, rows, stored, lost, pos, delta, total>>
    BY <1>3, <1>a DEF Conflict, InChunk, Move
  <2>2. Items(i)' = Items(i) /\ Start(i)' = Start(i) /\ Item(i)' = Item(i)
    BY <2>1 DEF Items, Start, Item
  <2>3. i \notin lost => RestoresOf(i)'
    BY <2>1, <2>2 DEF Restoring, RestoresOf, AllKept, Kept
  <2>4. QED
    BY <1>o, <2>1, <2>3
<1>4. ASSUME NEW i \in Importers, Begin(i)
      PROVE  Restoring'
  <2>1. /\ ipc[i] = "next" /\ ipc'[i] = "items" /\ tx = None
        /\ \A j \in Importers \ {i} : ipc'[j] = ipc[j] /\ delta'[j] = delta[j]
        /\ UNCHANGED <<uploads, rows, stored, lost, pos, total>>
    BY <1>4, <1>a DEF Begin, Move
  <2>2. Items(i)' = Items(i) /\ Start(i)' = Start(i)
    BY <2>1 DEF Items, Start
  <2>3. i \notin lost => pos[i] = Start(i) /\ rows = stored
    BY <2>1 DEF Counted, TransactionOwned
  <2>4. i \notin lost => RestoresOf(i)'
    BY <2>1, <2>2, <2>3 DEF Restoring, RestoresOf, AllKept
  <2>5. QED
    BY <1>o, <2>1, <2>4
<1>5. ASSUME NEW i \in Importers, Skip(i)
      PROVE  Restoring'
  <2>1. /\ ipc[i] = "items" /\ ipc' = ipc /\ lost \subseteq lost' /\ Tally(i, "skipped")
        /\ uploads' = uploads /\ total' = total
    BY <1>5, <1>r DEF Skip, InChunk
  <2>2. i \notin lost' => RestoresOf(i)'
    BY <1>g, <2>1, RestCounted DEF Restoring
  <2>3. QED
    BY <1>o, <1>t, <2>1, <2>2
<1>6. ASSUME NEW i \in Importers, InsertItem(i)
      PROVE  Restoring'
  <2>1. /\ ipc[i] = "items" /\ ipc' = ipc /\ lost' = lost /\ Tally(i, "imported")
        /\ uploads' = uploads /\ total' = total
        /\ Item(i) # Bad /\ rows' = [rows EXCEPT !.questions[Item(i)] = i]
    BY <1>6 DEF InsertItem, InChunk, Apply
  <2>2. Kept(Item(i), rows') /\ Grows(rows, rows')
    BY <1>a, <2>1, NoneAssumption DEF Kept, Grows, Tables, Actors
  <2>3. i \notin lost => RestoresOf(i)'
    BY <1>g, <2>1, <2>2, RestCounted DEF Restoring
  <2>4. QED
    BY <1>o, <1>t, <2>1, <2>3
<1>7. ASSUME NEW i \in Importers, UpdateItem(i)
      PROVE  Restoring'
  <2>1. /\ ipc[i] = "conflict" /\ ipc'[i] = "items" /\ lost' = lost /\ Tally(i, "updated")
        /\ \A j \in Importers \ {i} : ipc'[j] = ipc[j]
        /\ uploads' = uploads /\ total' = total
        /\ rows' = IF rows.questions[Item(i)] = None THEN rows
                   ELSE [rows EXCEPT !.questions[Item(i)] = i]
    BY <1>7, <1>a DEF UpdateItem, Apply, Move
  <2>2. Grows(rows, rows')
    BY <1>a, <2>1, NoneAssumption DEF Grows, Tables, Actors
  <2>3. ASSUME i \notin lost
        PROVE  RestoresOf(i)'
    <3>1. RestoresOf(i) /\ Kept(Item(i), rows)
      BY <2>1, <2>3 DEF Restoring, RestoresOf
    <3>2. Kept(Item(i), rows')
      BY <2>2, <3>1 DEF Kept, Grows
    <3>3. QED
      BY <1>g, <2>1, <2>2, <2>3, <3>1, <3>2, RestCounted
  <2>4. QED
    BY <1>o, <1>t, <2>1, <2>3
<1>8. ASSUME NEW i \in Importers, CommitChunk(i)
      PROVE  Restoring'
  <2>1. /\ ipc[i] = "commit" /\ ipc'[i] = IF pos[i] = Len(Items(i)) THEN "log" ELSE "next"
        /\ \A j \in Importers \ {i} : ipc'[j] = ipc[j] /\ total'[j] = total[j]
        /\ UNCHANGED <<uploads, pos, delta>>
        /\ lost \subseteq lost' /\ stored' = rows
        /\ total'[i] = Plus(total[i], delta[i])
    BY <1>8, <1>a DEF CommitChunk, Commit, Move
  <2>2. total[i] \in Counts /\ delta[i] \in Counts
    BY <1>a
  <2>3. /\ Start(i)' = Start(i) + delta[i].imported + delta[i].updated + delta[i].skipped
        /\ total'[i].skipped = total[i].skipped + delta[i].skipped
    <3>1. /\ total'[i].imported = total[i].imported + delta[i].imported
          /\ total'[i].updated = total[i].updated + delta[i].updated
          /\ total'[i].skipped = total[i].skipped + delta[i].skipped
      BY <2>1, <2>2, SumOfCounts
    <3>2. Start(i)' = total'[i].imported + total'[i].updated + total'[i].skipped
      BY DEF Start
    <3>3. QED
      BY <2>2, <3>1, <3>2 DEF Start, Counts
  <2>4. Items(i)' = Items(i)
    BY <2>1 DEF Items
  <2>5. ASSUME i \notin lost
        PROVE  RestoresOf(i)'
    <3>1. Start(i)' = pos[i]
      BY <2>1, <2>3, <2>5 DEF Counted
    <3>2. total'[i].skipped = 0 => total[i].skipped = 0 /\ delta[i].skipped = 0
      BY <2>2, <2>3 DEF Counts
    <3>3. total'[i].skipped = 0 => AllKept(i, pos[i], rows)
      BY <2>1, <2>5, <3>2 DEF Restoring, RestoresOf
    <3>4. total'[i].skipped = 0 => AllKept(i, Start(i), stored)'
      BY <2>1, <2>4, <3>1, <3>3 DEF AllKept
    <3>5. QED
      BY <2>1, <2>4, <3>1, <3>4 DEF RestoresOf
  <2>6. QED
    BY <1>o, <2>1, <2>5
<1>9. ASSUME NEW i \in Importers, Interrupted(i)
      PROVE  Restoring'
  BY <1>9, <1>q, <1>r DEF Interrupted, Move
<1>10. ASSUME NEW i \in Importers, RollbackChunk(i)
       PROVE  Restoring'
  BY <1>10, <1>q DEF RollbackChunk, Rollback, Move
<1>11. ASSUME NEW i \in Importers, WriteLog(i) \/ WriteLogFails(i)
       PROVE  Restoring'
  BY <1>11, <1>q, <1>r DEF WriteLog, WriteLogFails, Move
<1>12. ASSUME NEW w \in Writers, NEW k \in Keys, WriteAnswer(w, k) \/ WriteRefused(w, k)
       PROVE  Restoring'
  BY <1>12, <1>p DEF WriteAnswer, WriteRefused
<1>13. ASSUME NEW w \in Writers, WriteFails(w)
       PROVE  Restoring'
  BY <1>13, <1>p, <1>r DEF WriteFails
<1>14. ASSUME NEW k \in Deletable, Delete(k)
       PROVE  Restoring'
  BY <1>14, <1>p DEF Delete
<1>15. ASSUME Crash
       PROVE  Restoring'
  <2>1. \A j \in Importers : ipc'[j] \in {ipc[j], "failed"}
    BY <1>15 DEF Crash
  <2>2. QED
    BY <1>g, <1>15, <2>1, RestUntouched DEF Crash, Restoring
<1>16. CASE UNCHANGED vars
  BY <1>16, <1>p DEF vars
<1>17. QED
  BY Steps, <1>1, <1>2, <1>3, <1>4, <1>5, <1>6, <1>7, <1>8, <1>9, <1>10, <1>11, <1>12,
     <1>13, <1>14, <1>15, <1>16

\* The inductive invariant.
Inv ==
  /\ TypeOK /\ TransactionOwned /\ Counted
  /\ RowsWritten /\ OnlyCommittedChunks
  /\ LossMarked
  /\ KeysStay /\ Begun /\ Restoring

LEMMA InitInv ==
  ASSUME Init
  PROVE  Inv
<1> USE NoneAssumption DEF Init, NoCount
<1>1. TypeOK
  BY DEF TypeOK, Counts
<1>2. TransactionOwned
  BY DEF TransactionOwned, Open
<1>3. Counted
  BY DEF Counted, Start
<1>4. RowsWritten /\ OnlyCommittedChunks
  BY DEF RowsWritten, OnlyCommittedChunks, Actors
<1>5. LossMarked
  BY DEF LossMarked
<1>6. KeysStay /\ Begun
  BY DEF KeysStay, Grows, Begun
<1>7. Restoring
  BY DEF Restoring, RestoresOf, Start, AllKept
<1>8. QED
  BY <1>1, <1>2, <1>3, <1>4, <1>5, <1>6, <1>7 DEF Inv

\* The inductive invariant holds: every statement of every import, writer and crash keeps it.
THEOREM InvHolds == Spec => []Inv
<1>1. ASSUME Inv, [Next]_vars
      PROVE  Inv'
  BY <1>1, TypeStep, OwnedStep, CountedStep, CommittedStep, MarkedStep, GrowthStep,
     BegunStep, RestoringStep DEF Inv
<1>2. QED
  BY InitInv, <1>1, PTL DEF Spec

\* Every variable of the import and of the connection keeps its type; in particular no
\* count goes below zero and the transaction belongs to an import.
THEOREM TypeCorrect == Spec => []TypeOK
BY InvHolds, PTL DEF Inv

\* Whoever is between BEGIN and COMMIT or ROLLBACK owns the transaction, unless it was
\* ended under it; no failed or crashed import leaves one behind (db.py:148-157).
THEOREM TransactionIsOwned == Spec => []TransactionOwned
BY InvHolds, PTL DEF Inv

\* What an import has on disk comes from chunks it has counted, for any number of
\* imports, chunks, failures and crashes (questions.py:85-109).
THEOREM FailedChunksLeaveNothing == Spec => []OnlyCommittedChunks
BY InvHolds, PTL DEF Inv

\* When a transaction was undone by SQLite or ended by another import, some import that
\* lost its own has failed or is still at work (db.py:150-157).
THEOREM LossIsAlwaysReported == Spec => []LossIsReported
<1>1. Inv => LossIsReported
  BY DEF Inv, LossMarked, LossIsReported
<1>2. QED
  BY InvHolds, <1>1, PTL

\* An upload that was accepted flattens to items, among them all that is in any entry.
LEMMA ItemsHold ==
  ASSUME TypeOK, NEW i \in Importers, Accepted(i)
  PROVE  /\ Items(i) \in Seq(Keys \cup {Bad})
         /\ \A n \in DOMAIN uploads[i].entries :
              Range(uploads[i].entries[n]) \subseteq Range(Items(i))
<1> DEFINE K == Keys \cup {Bad}
           entries == uploads[i].entries
<1>1. entries \in Seq(Seq(K) \cup {Broken})
  BY UploadsAssumption DEF TypeOK
<1>2. Broken \notin Range(entries)
  BY DEF Accepted
<1> HIDE DEF K
<1>3. entries \in Seq(Seq(K))
  <2>1. Len(entries) \in Nat /\ DOMAIN entries = 1..Len(entries)
    BY <1>1
  <2>2. \A n \in 1..Len(entries) : entries[n] \in Seq(K)
    BY <1>1, <1>2, <2>1 DEF Range
  <2>3. entries \in [1..Len(entries) -> Seq(K)]
    BY <1>1, <2>1, <2>2
  <2>4. QED
    BY <2>1, <2>3
<1>4. QED
  BY <1>3, FlattenHolds DEF Items, K

\* What an import restores is everything in its upload: after one that is done or logged
\* and reports no skipped item, every key that nobody deletes is on disk, for any archive,
\* any chunk size and whatever other imports, writers, failures and crashes there were
\* (import_api.py:85-104, 114-127).
THEOREM RestoreIsComplete == Spec => []RestoreComplete
<1>1. ASSUME Inv
      PROVE  RestoreComplete
  <2> SUFFICES ASSUME NEW i \in Importers \ lost, ipc[i] = "done" \/ i \in stored.log,
                      total[i].skipped = 0,
                      NEW n \in DOMAIN uploads[i].entries,
                      NEW k \in Range(uploads[i].entries[n]) \ Deletable
               PROVE  stored.questions[k] # None
    BY DEF RestoreComplete
  <2>1. ipc[i] = "done" /\ Accepted(i)
    BY <1>1 DEF Inv, Begun
  <2>2. AllKept(i, Len(Items(i)), stored)
    BY <1>1, <2>1 DEF Inv, Restoring, RestoresOf
  <2>3. Items(i) \in Seq(Keys \cup {Bad}) /\ k \in Range(Items(i))
    BY <1>1, <2>1, ItemsHold DEF Inv
  <2>4. PICK m \in 1..Len(Items(i)) : Items(i)[m] = k
    BY <2>3 DEF Range
  <2>5. k \in Keys \cup {Bad} /\ Kept(k, stored)
    BY <2>2, <2>3, <2>4 DEF AllKept
  <2>6. QED
    BY <2>5 DEF Kept
<1>2. QED
  BY InvHolds, <1>1, PTL
=============================================================================
