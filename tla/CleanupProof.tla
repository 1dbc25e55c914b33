----------------------------- MODULE CleanupProof -----------------------------
(***************************************************************************)
(* Safety of Cleanup for any keys and requests, any settings, any batch    *)
(* size, any number of days and faults.                                    *)
(***************************************************************************)
EXTENDS Cleanup, TLAPS

\* Every step is one of these.
LEMMA Steps ==
  ASSUME Next
  PROVE  \/ Wake \/ Resume
         \/ ReadTtl
         \/ ReadBatch
         \/ PurgeBatch
         \/ TrimCallLog
         \/ ReadInterval \/ RoundFails
         \/ \E k \in Keys : Store(k)
         \/ \E k \in Keys : Delete(k)
         \/ \E k \in Keys, r \in Requests : Hit(r, k)
         \/ \E r \in Requests : Touch(r)
         \/ (\E t \in Ttls : PutTtl(t)) \/ (\E n \in Batches : PutBatch(n))
         \/ BeginImport \/ CommitImport
         \/ RollbackImport
         \/ Restart
         \/ Midnight
BY DEF Next, CleanupStep

\* A row hit on some day, or None.
LEMMA DaysAreNumbers ==
  /\ Days \subseteq Nat /\ None \notin Days /\ 0 \in Days
  /\ \A t \in Ttls \ {Null} : t \in Nat \ {0}
  /\ 0 \in Cutoffs /\ \A d \in Days, t \in Ttls \ {Null} : d - t \in Cutoffs
BY NoneAssumption, BoundsAssumption, SettingsAssumption DEF Days, Cutoffs

-----------------------------------------------------------------------------
(* The inductive invariant                                                  *)

\* A touch() under way is of today or yesterday.
TouchesRecent ==
  \A r \in Requests : touches[r] # None => touches[r].at <= now /\ touches[r].at >= now - 1

\* A round that purges has a cutoff at least its ttl in the past.
CutoffPast ==
  /\ pc \in {"batch", "purge", "pause", "trim", "interval"} => ttl # Null
  /\ pc \in {"purge", "pause", "trim", "interval"} => cutoff <= now - ttl /\ batch # Null

Inv == TypeOK /\ TouchesRecent /\ CutoffPast /\ PurgeComplete

LEMMA InitInv ==
  ASSUME Init
  PROVE  Inv
BY DaysAreNumbers, BoundsAssumption
   DEF Init, Inv, TypeOK, Stages, TouchesRecent, CutoffPast, PurgeComplete

\* The types alone are not inductive: the cutoff is a number because ttl is one by then.
LEMMA TypeStep ==
  ASSUME TypeOK, CutoffPast, [Next]_vars
  PROVE  TypeOK'
<1> USE DaysAreNumbers, BoundsAssumption
<1> USE DEF TypeOK, Stages, Enter, EndRound, localVars
<1>1. CASE Wake \/ Resume
  BY <1>1 DEF Wake, Resume
<1>2. CASE ReadTtl
  BY <1>2 DEF ReadTtl
<1>3. CASE ReadBatch
  <2>1. pc = "batch" => ttl \in Ttls \ {Null}
    BY DEF CutoffPast
  <2>2. QED
    BY <1>3, <2>1 DEF ReadBatch
<1>4. CASE PurgeBatch
  BY <1>4 DEF PurgeBatch
<1>5. CASE TrimCallLog
  BY <1>5 DEF TrimCallLog
<1>6. CASE ReadInterval \/ RoundFails
  <2>1. faults' \in 0..MaxFaults
    BY <1>6 DEF ReadInterval, RoundFails
  <2>2. QED
    BY <1>6, <2>1 DEF ReadInterval, RoundFails
<1>7. ASSUME NEW k \in Keys, Store(k)
      PROVE  TypeOK'
  BY <1>7 DEF Store
<1>8. ASSUME NEW k \in Keys, Delete(k)
      PROVE  TypeOK'
  BY <1>8 DEF Delete
<1>9. ASSUME NEW k \in Keys, NEW r \in Requests, Hit(r, k)
      PROVE  TypeOK'
  BY <1>9 DEF Hit
<1>10. ASSUME NEW r \in Requests, Touch(r)
       PROVE  TypeOK'
  BY <1>10 DEF Touch
<1>11. CASE (\E t \in Ttls : PutTtl(t)) \/ (\E n \in Batches : PutBatch(n))
  BY <1>11 DEF PutTtl, PutBatch
<1>12. CASE Restart \/ RollbackImport
  <2>1. hit' \in [Keys -> Days \cup {None}] /\ calls' \subseteq Days
        /\ config' \in [ttl : Ttls, batch : Batches]
    BY <1>12 DEF Restart, RollbackImport, PutBack
  <2>2. faults' \in 0..MaxFaults
    BY <1>12 DEF Restart, RollbackImport
  <2>3. QED
    BY <1>12, <2>1, <2>2 DEF Restart, RollbackImport
<1>13. CASE Midnight
  BY <1>13 DEF Midnight, Days
<1>14. CASE UNCHANGED vars
  BY <1>14 DEF vars
<1>15. CASE BeginImport \/ CommitImport
  BY <1>15 DEF BeginImport, CommitImport
<1>16. QED
  BY Steps, <1>1, <1>2, <1>3, <1>4, <1>5, <1>6, <1>7, <1>8, <1>9, <1>10, <1>11, <1>12,
     <1>13, <1>14, <1>15

LEMMA TouchesStep ==
  ASSUME TypeOK, TouchesRecent, [Next]_vars
  PROVE  TouchesRecent'
<1> USE DaysAreNumbers
<1> USE DEF TypeOK, TouchesRecent, Enter, EndRound, localVars
<1>a. now \in Nat
  OBVIOUS
<1>1. CASE Wake \/ Resume
  BY <1>1 DEF Wake, Resume
<1>2. CASE ReadTtl
  BY <1>2 DEF ReadTtl
<1>3. CASE ReadBatch
  BY <1>3 DEF ReadBatch
<1>4. CASE PurgeBatch
  BY <1>4 DEF PurgeBatch
<1>5. CASE TrimCallLog
  BY <1>5 DEF TrimCallLog
<1>6. CASE ReadInterval \/ RoundFails
  BY <1>6 DEF ReadInterval, RoundFails
<1>7. ASSUME NEW k \in Keys, Store(k)
      PROVE  TouchesRecent'
  BY <1>7 DEF Store
<1>8. ASSUME NEW k \in Keys, Delete(k)
      PROVE  TouchesRecent'
  BY <1>8 DEF Delete
<1>9. ASSUME NEW k \in Keys, NEW r \in Requests, Hit(r, k)
      PROVE  TouchesRecent'
  BY <1>9 DEF Hit
<1>10. ASSUME NEW r \in Requests, Touch(r)
       PROVE  TouchesRecent'
  BY <1>10 DEF Touch
<1>11. CASE (\E t \in Ttls : PutTtl(t)) \/ (\E n \in Batches : PutBatch(n))
  BY <1>11 DEF PutTtl, PutBatch
<1>12. CASE Restart
  BY <1>12 DEF Restart
<1>13. CASE Midnight
  <2>1. now' = now + 1 /\ touches' = touches
    BY <1>13 DEF Midnight
  <2>2. \A r \in Requests : touches[r] # None => touches[r].at = now
    BY <1>13 DEF Midnight
  <2>3. QED
    BY <1>a, <2>1, <2>2
<1>14. CASE UNCHANGED vars
  BY <1>14 DEF vars
<1>15. CASE BeginImport \/ CommitImport \/ RollbackImport
  BY <1>15 DEF BeginImport, CommitImport, RollbackImport
<1>16. QED
  BY Steps, <1>1, <1>2, <1>3, <1>4, <1>5, <1>6, <1>7, <1>8, <1>9, <1>10, <1>11, <1>12,
     <1>13, <1>14, <1>15

LEMMA CutoffStep ==
  ASSUME TypeOK, CutoffPast, [Next]_vars
  PROVE  CutoffPast'
<1> USE DaysAreNumbers
<1> USE DEF CutoffPast, Enter, EndRound, localVars
<1>a. now \in Nat /\ pc \in Stages /\ (ttl # Null => ttl \in Nat)
  BY DEF TypeOK
<1>b. pc \in {"purge", "pause", "trim", "interval"} => cutoff \in Int
  BY DEF TypeOK, Cutoffs
<1>1. CASE Wake \/ Resume
  BY <1>1 DEF Wake, Resume
<1>2. CASE ReadTtl
  BY <1>2 DEF ReadTtl
<1>3. CASE ReadBatch
  BY <1>3, <1>a DEF ReadBatch
<1>4. CASE PurgeBatch
  BY <1>4 DEF PurgeBatch
<1>5. CASE TrimCallLog
  BY <1>5 DEF TrimCallLog
<1>6. CASE ReadInterval \/ RoundFails \/ Restart
  BY <1>6 DEF ReadInterval, RoundFails, Restart
<1>7. CASE Midnight
  BY <1>7, <1>a, <1>b DEF Midnight
<1>8. CASE \/ \E k \in Keys : Store(k) \/ Delete(k) \/ \E r \in Requests : Hit(r, k)
           \/ \E r \in Requests : Touch(r)
           \/ (\E t \in Ttls : PutTtl(t)) \/ (\E n \in Batches : PutBatch(n))
           \/ BeginImport \/ CommitImport \/ RollbackImport
  BY <1>8 DEF Store, Delete, Hit, Touch, PutTtl, PutBatch, BeginImport, CommitImport,
              RollbackImport
<1>9. CASE UNCHANGED vars
  BY <1>9 DEF vars
<1>10. QED
  BY Steps, <1>1, <1>2, <1>3, <1>4, <1>5, <1>6, <1>7, <1>8, <1>9

\* While a round purges or goes on after it, whatever is stored or hit is not expired.
LEMMA FreshIsNotExpired ==
  ASSUME TypeOK, TouchesRecent, CutoffPast, pc \in {"purge", "pause", "trim", "interval"}
  PROVE  /\ cutoff <= now
         /\ \A r \in Requests : touches[r] # None => cutoff <= touches[r].at
         /\ cutoff \in Int /\ now \in Nat
<1>1. now \in Nat /\ ttl \in Nat \ {0} /\ cutoff \in Int
  BY DaysAreNumbers DEF TypeOK, CutoffPast, Cutoffs
<1>2. cutoff <= now - 1
  BY <1>1 DEF CutoffPast
<1>3. \A r \in Requests : touches[r] # None => touches[r].at \in Nat /\ touches[r].at >= now - 1
  BY DaysAreNumbers DEF TypeOK, TouchesRecent
<1>4. QED
  BY <1>1, <1>2, <1>3

LEMMA PurgedStep ==
  ASSUME TypeOK, TouchesRecent, CutoffPast, PurgeComplete, [Next]_vars
  PROVE  PurgeComplete'
<1> USE DEF PurgeComplete, Enter, EndRound, localVars, Expired, Rows
<1>a. None \notin Int
  BY NoneAssumption
<1>1. CASE Wake \/ Resume
  BY <1>1 DEF Wake, Resume
<1>2. CASE ReadTtl
  BY <1>2 DEF ReadTtl
<1>3. CASE ReadBatch
  BY <1>3 DEF ReadBatch
<1>4. CASE PurgeBatch
  <2>1. PICK victims \in Victims :
          /\ hit' = [k \in Keys |-> IF k \in victims THEN None ELSE hit[k]]
          /\ pc' = IF Cardinality(victims) < batch THEN "trim" ELSE "pause"
    BY <1>4 DEF PurgeBatch
  <2>2. batch \in Nat
    BY <1>4, SettingsAssumption DEF PurgeBatch, TypeOK, CutoffPast
  <2>3. pc' = "trim" => victims = Expired
    BY <2>1, <2>2 DEF Victims
  <2>4. UNCHANGED <<cutoff, restored>>
    BY <1>4 DEF PurgeBatch
  <2>5. QED
    BY <2>1, <2>3, <2>4
<1>5. CASE TrimCallLog
  BY <1>5 DEF TrimCallLog
<1>6. CASE ReadInterval \/ RoundFails \/ Restart
  BY <1>6 DEF ReadInterval, RoundFails, Restart
<1>7. ASSUME NEW k \in Keys, Store(k)
      PROVE  PurgeComplete'
  <2>1. SUFFICES ASSUME pc \in {"trim", "interval"}
                 PROVE  Expired' \subseteq restored'
    BY <1>7 DEF Store
  <2>2. ~(now < cutoff) /\ \A l \in Keys : hit[l] # None /\ hit[l] < cutoff => l \in restored
    BY <2>1, FreshIsNotExpired
  <2>3. QED
    BY <1>7, <2>2 DEF Store, TypeOK
<1>8. ASSUME NEW k \in Keys, Delete(k)
      PROVE  PurgeComplete'
  BY <1>8 DEF Delete, TypeOK
<1>9. ASSUME NEW r \in Requests, Touch(r)
      PROVE  PurgeComplete'
  <2>1. SUFFICES ASSUME pc \in {"trim", "interval"}
                 PROVE  Expired' \subseteq restored'
    BY <1>9 DEF Touch
  <2>2. touches[r].at \in Nat
    BY <1>9, DaysAreNumbers DEF Touch, TypeOK
  <2>3. /\ ~(touches[r].at < cutoff)
        /\ \A l \in Keys : hit[l] # None /\ hit[l] < cutoff => l \in restored
    BY <1>9, <2>1, <2>2, FreshIsNotExpired DEF Touch
  <2>4. QED
    BY <1>9, <2>3 DEF Touch, TypeOK
<1>10. CASE \/ \E k \in Keys, r \in Requests : Hit(r, k)
            \/ (\E t \in Ttls : PutTtl(t)) \/ (\E n \in Batches : PutBatch(n))
            \/ Midnight \/ BeginImport \/ CommitImport
  BY <1>10 DEF Hit, PutTtl, PutBatch, Midnight, BeginImport, CommitImport
<1>11. CASE UNCHANGED vars
  BY <1>11 DEF vars
<1>12. CASE RollbackImport
  <2>1. SUFFICES ASSUME pc \in {"trim", "interval"}, NEW k \in Expired'
                 PROVE  k \in restored'
    BY <1>12 DEF RollbackImport
  <2>2. /\ k \in Keys /\ hit'[k] = before.hit[k] /\ cutoff' = cutoff
        /\ restored' = restored \cup {l \in Keys : before.hit[l] # hit[l]}
    BY <1>12, <2>1 DEF RollbackImport, PutBack
  <2>3. CASE before.hit[k] = hit[k]
    BY <2>1, <2>2, <2>3
  <2>4. QED
    BY <2>2, <2>3
<1>13. QED
  BY Steps, <1>1, <1>2, <1>3, <1>4, <1>5, <1>6, <1>7, <1>8, <1>9, <1>10, <1>11, <1>12

\* The inductive invariant holds: the task, everybody else and midnight keep it.
THEOREM InvHolds == Spec => []Inv
<1>1. ASSUME Inv, [Next]_vars
      PROVE  Inv'
  BY <1>1, TypeStep, TouchesStep, CutoffStep, PurgedStep DEF Inv
<1>2. QED
  BY InitInv, <1>1, PTL DEF Spec

\* Every variable of the task and of the tables keeps its type.
THEOREM TypeCorrect == Spec => []TypeOK
BY InvHolds, PTL DEF Inv

\* Once a purge has ended by itself nothing older than its cutoff is left but what the
\* ROLLBACK of an import has put back since, and no hit or stored question is ever behind it
\* (cleanup.py:54-61, db.py:155-157).
THEOREM PurgeIsComplete == Spec => []PurgeComplete
BY InvHolds, PTL DEF Inv

-----------------------------------------------------------------------------
(* What a step deletes                                                      *)

LEMMA SparesRecent ==
  ASSUME Inv, [Next]_vars, NEW k \in Rows, hit'[k] = None
  PROVE  \/ Delete(k)
         \/ (RollbackImport \/ Restart) /\ before.hit[k] = None
         \/ hit[k] < now - ttl
<1>a. k \in Keys /\ hit[k] \in Nat /\ hit[k] # None /\ None \notin Int
  BY DaysAreNumbers, NoneAssumption DEF Rows, Inv, TypeOK
<1>1. CASE PurgeBatch
  <2>1. k \in Expired
    BY <1>1, <1>a DEF PurgeBatch, Victims
  <2>2. cutoff \in Int /\ cutoff <= now - ttl /\ ttl \in Nat /\ now \in Nat
    BY <1>1, DaysAreNumbers DEF PurgeBatch, Inv, TypeOK, CutoffPast, Cutoffs
  <2>3. QED
    BY <1>a, <2>1, <2>2 DEF Expired
<1>2. ASSUME NEW l \in Keys, Store(l)
      PROVE  FALSE
  BY <1>2, <1>a, DaysAreNumbers DEF Store, Inv, TypeOK
<1>3. ASSUME NEW l \in Keys, Delete(l)
      PROVE  Delete(k)
  BY <1>3, <1>a DEF Delete, Inv, TypeOK
<1>4. ASSUME NEW r \in Requests, Touch(r)
      PROVE  FALSE
  BY <1>4, <1>a, DaysAreNumbers DEF Touch, Inv, TypeOK
<1>5. CASE hit' = hit
  BY <1>5, <1>a
<1>6. CASE RollbackImport \/ Restart
  <2>1. hit' = hit \/ hit' = before.hit
    BY <1>6 DEF RollbackImport, Restart, PutBack
  <2>2. QED
    BY <1>6, <1>a, <2>1
<1>7. QED
  <2>1. \/ Wake \/ Resume \/ ReadTtl \/ ReadBatch \/ TrimCallLog \/ ReadInterval \/ RoundFails
        \/ \E l \in Keys, r \in Requests : Hit(r, l)
        \/ (\E t \in Ttls : PutTtl(t)) \/ (\E n \in Batches : PutBatch(n))
        \/ BeginImport \/ CommitImport \/ Midnight \/ UNCHANGED vars
        => hit' = hit
    BY DEF Wake, Resume, ReadTtl, ReadBatch, TrimCallLog, ReadInterval, RoundFails, Hit, PutTtl,
           PutBatch, BeginImport, CommitImport, Midnight, vars
  <2>2. QED
    BY Steps, <1>1, <1>2, <1>3, <1>4, <1>5, <1>6, <2>1

\* What goes without being deleted by the panel had not been hit for longer than the TTL its
\* round read, through batches, pauses, hits and changes of the settings, or was stored in
\* the transaction of an import that fails (cleanup.py:54-61, db.py:155-157).
THEOREM RecentIsSpared == Spec => PurgeSparesRecent
<1>1. Inv /\ [Next]_vars =>
        [\A k \in Rows : hit'[k] = None =>
           \/ Delete(k)
           \/ (RollbackImport \/ Restart) /\ before.hit[k] = None
           \/ hit[k] < now - ttl]_vars
  BY SparesRecent
<1>2. QED
  BY InvHolds, <1>1, PTL DEF Spec, PurgeSparesRecent
=============================================================================
