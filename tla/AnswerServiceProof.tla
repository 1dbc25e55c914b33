-------------------------- MODULE AnswerServiceProof --------------------------
(***************************************************************************)
(* Safety of AnswerService for every set of requests, keys and answers,    *)
(* whatever statements raise and whatever is imported, rolled back or       *)
(* deleted.                                                                *)
(*                                                                         *)
(* The types alone are not inductive: that inflight[qkey[q]] is a task or  *)
(* None rests on qkey[q] being a key by then.  Stages says what each stage *)
(* of a request and of its task implies; the other invariants build on it. *)
(***************************************************************************)
EXTENDS AnswerService, FiniteSetTheorems, TLAPS

RequestStages ==
  \A q \in Queries :
    /\ pc[q] # "idle" => qkey[q] \in Keys
    /\ pc[q] \in {"idle", "read", "hit"} => tpc[q] = "none"
    /\ pc[q] \in {"idle", "read"} => pend[q] = {}
    /\ pc[q] = "waiting" => /\ joined[q] \in Queries
                            /\ tpc[joined[q]] # "none"
                            /\ qkey[joined[q]] = qkey[q]
    /\ pc[q] = "hit" => seen[q] # None
    /\ tpc[q] # "none" => joined[q] = q
    /\ joined[q] = q => tpc[q] # "none"

TaskStages ==
  \A t \in Queries :
    /\ tpc[t] # "none" => qkey[t] \in Keys
    /\ tpc[t] \in {"none", "new", "asking"} => reply[t] = None /\ verdict[t] = None
    /\ tpc[t] \in {"recording", "inserting"} => verdict[t] = None
    /\ tpc[t] = "recording" => reply[t] # None
    /\ tpc[t] # "none" /\ pend[t] # {} => reply[t] # None
    /\ tpc[t] = "inserting" => reply[t] \in Answers
    /\ tpc[t] \in {"finished", "retired"} => verdict[t] # None
    /\ verdict[t] \in {None, "error", reply[t]}

Inv == TypeOK /\ RequestStages /\ TaskStages /\ RegistryExact

\* Every step is one of these; the proofs below go through the list.
LEMMA Steps ==
  ASSUME Next
  PROVE  \/ \E q \in Queries, k \in Keys : Lookup(q, k) \/ LookupFails(q, k)
         \/ \E q \in Queries : StartHit(q) \/ Join(q) \/ Launch(q)
         \/ \E q \in Queries : ReturnHit(q) \/ Return(q) \/ Cancel(q)
         \/ \E q \in Queries, w \in Writes : HitWriteFails(q, w)
         \/ \E t \in Queries : CountMiss(t) \/ CountMissFails(t)
         \/ \E t \in Queries, r \in Answers \cup {"llm-fail", "parse-fail"} : Reply(t, r)
         \/ \E t \in Queries : StartInsert(t) \/ ReturnFailure(t)
         \/ \E t \in Queries, w \in Writes : RecordingFails(t, w)
         \/ \E t \in Queries : Insert(t) \/ InsertFails(t)
         \/ \E t \in Queries : Retire(t)
         \/ \E o \in Queries, w \in Writes : Write(o, w) \/ StrayWriteFails(o, w)
         \/ \E k \in Keys : Evict(k) \/ \E a \in Imported : Import(k, a)
         \/ BeginImport \/ CommitImport \/ RollbackImport
         \/ Midnight
BY DEF Next, QueryStep, TaskStep, WriteStep

LEMMA TypeStep ==
  ASSUME Inv, [Next]_vars
  PROVE  TypeOK'
<1> USE NoneAssumption, AnswersAssumption, ImportedAssumption, DaysAssumption, ImportsAssumption
<1> USE DEF Inv, TypeOK, RequestStages, TaskStages,
            queryVars, taskVars, statVars, importVars, Outcomes, Failures
<1>1. ASSUME NEW q \in Queries, NEW k \in Keys, Lookup(q, k) \/ LookupFails(q, k)
      PROVE  TypeOK'
  BY <1>1 DEF Lookup, LookupFails
<1>2. ASSUME NEW q \in Queries, StartHit(q)
      PROVE  TypeOK'
  BY <1>2 DEF StartHit, Writes
<1>3. ASSUME NEW q \in Queries, Join(q)
      PROVE  TypeOK'
  BY <1>3 DEF Join
<1>4. ASSUME NEW q \in Queries, Launch(q)
      PROVE  TypeOK'
  BY <1>4 DEF Launch
<1>5. ASSUME NEW q \in Queries, ReturnHit(q) \/ Return(q) \/ Cancel(q)
      PROVE  TypeOK'
  BY <1>5 DEF ReturnHit, Return, Cancel
<1>6. ASSUME NEW q \in Queries, NEW w \in Writes, HitWriteFails(q, w)
      PROVE  TypeOK'
  BY <1>6 DEF HitWriteFails
<1>7. ASSUME NEW t \in Queries, CountMiss(t)
      PROVE  TypeOK'
  BY <1>7 DEF CountMiss, Count, Fields, Increments
<1>8. ASSUME NEW t \in Queries, CountMissFails(t)
      PROVE  TypeOK'
  BY <1>8 DEF CountMissFails, Finish
<1>9. ASSUME NEW t \in Queries, NEW r \in Answers \cup {"llm-fail", "parse-fail"}, Reply(t, r)
      PROVE  TypeOK'
  BY <1>9 DEF Reply, Writes
<1>10. ASSUME NEW t \in Queries, StartInsert(t) \/ ReturnFailure(t)
       PROVE  TypeOK'
  BY <1>10 DEF StartInsert, ReturnFailure, Finish
<1>11. ASSUME NEW t \in Queries, NEW w \in Writes, RecordingFails(t, w)
       PROVE  TypeOK'
  BY <1>11 DEF RecordingFails, Finish
<1>12. ASSUME NEW t \in Queries, Insert(t) \/ InsertFails(t)
       PROVE  TypeOK'
  BY <1>12 DEF Insert, InsertFails, Finish
<1>13. ASSUME NEW t \in Queries, Retire(t)
       PROVE  TypeOK'
  BY <1>13 DEF Retire
<1>14. ASSUME NEW o \in Queries, NEW w \in Writes, Write(o, w) \/ StrayWriteFails(o, w)
       PROVE  TypeOK'
  <2>1. BumpedFields(o) \subseteq Fields /\ LoggedKind(o) \in Kinds
    BY <1>14 DEF Write, StrayWriteFails, BumpedFields, LoggedKind, Fields, Kinds
  <2>2. counted' \subseteq Increments
    BY <1>14, <2>1 DEF Write, StrayWriteFails, Count, Increments
  <2>3. logged' \subseteq LogRows
    BY <1>14, <2>1 DEF Write, StrayWriteFails, LogRow, LogRows
  <2>4. QED
    BY <1>14, <2>2, <2>3 DEF Write, StrayWriteFails
<1>15. ASSUME NEW k \in Keys, Evict(k) \/ \E a \in Imported : Import(k, a)
       PROVE  TypeOK'
  BY <1>15 DEF Import, Evict
<1>16. CASE BeginImport \/ CommitImport \/ RollbackImport
  <2>1. CASE BeginImport
    <3>1. begun' \in 0..MaxImports
      BY <2>1 DEF BeginImport
    <3>2. QED
      BY <2>1, <3>1 DEF BeginImport
  <2>2. CASE CommitImport
    BY <2>2 DEF CommitImport, Blank
  <2>3. CASE RollbackImport
    <3>1. /\ table' \in [Keys -> Answers \cup {None}]
          /\ counted' \subseteq Increments /\ logged' \subseteq LogRows
      BY <2>3 DEF RollbackImport
    <3>2. undone' \in [counted : SUBSET Increments, logged : SUBSET LogRows]
      BY <2>3 DEF RollbackImport
    <3>3. QED
      BY <2>3, <3>1, <3>2 DEF RollbackImport, Blank
  <2>4. QED
    BY <1>16, <2>1, <2>2, <2>3
<1>17. CASE Midnight
  BY <1>17 DEF Midnight, Days
<1>18. CASE UNCHANGED vars
  BY <1>18 DEF vars
<1>19. QED
  BY Steps, <1>1, <1>2, <1>3, <1>4, <1>5, <1>6, <1>7, <1>8, <1>9, <1>10, <1>11,
     <1>12, <1>13, <1>14, <1>15, <1>16, <1>17, <1>18

LEMMA RequestStagesStep ==
  ASSUME Inv, [Next]_vars
  PROVE  RequestStages'
<1> USE NoneAssumption
<1> USE DEF Inv, TypeOK, RequestStages, TaskStages, RegistryExact,
            queryVars, taskVars, statVars, importVars
<1>1. ASSUME NEW q \in Queries, NEW k \in Keys, Lookup(q, k) \/ LookupFails(q, k)
      PROVE  RequestStages'
  BY <1>1 DEF Lookup, LookupFails
<1>2. ASSUME NEW q \in Queries, StartHit(q) \/ Join(q)
      PROVE  RequestStages'
  BY <1>2 DEF StartHit, Join
<1>3. ASSUME NEW q \in Queries, Launch(q)
      PROVE  RequestStages'
  BY <1>3 DEF Launch
<1>4. ASSUME NEW q \in Queries, ReturnHit(q) \/ Return(q) \/ Cancel(q)
      PROVE  RequestStages'
  BY <1>4 DEF ReturnHit, Return, Cancel
<1>5. ASSUME NEW q \in Queries, NEW w \in Writes, HitWriteFails(q, w)
      PROVE  RequestStages'
  BY <1>5 DEF HitWriteFails
<1>6. ASSUME NEW t \in Queries, CountMiss(t) \/ CountMissFails(t)
      PROVE  RequestStages'
  BY <1>6 DEF CountMiss, CountMissFails, Finish
<1>7. ASSUME NEW t \in Queries, NEW r \in Answers \cup {"llm-fail", "parse-fail"}, Reply(t, r)
      PROVE  RequestStages'
  BY <1>7 DEF Reply
<1>8. ASSUME NEW t \in Queries, StartInsert(t) \/ ReturnFailure(t)
      PROVE  RequestStages'
  BY <1>8 DEF StartInsert, ReturnFailure, Finish
<1>9. ASSUME NEW t \in Queries, NEW w \in Writes, RecordingFails(t, w)
      PROVE  RequestStages'
  BY <1>9 DEF RecordingFails, Finish
<1>10. ASSUME NEW t \in Queries, Insert(t) \/ InsertFails(t)
      PROVE  RequestStages'
  BY <1>10 DEF Insert, InsertFails, Finish
<1>11. ASSUME NEW t \in Queries, Retire(t)
      PROVE  RequestStages'
  BY <1>11 DEF Retire
<1>12. ASSUME NEW o \in Queries, NEW w \in Writes, Write(o, w) \/ StrayWriteFails(o, w)
      PROVE  RequestStages'
  BY <1>12 DEF Write, StrayWriteFails
<1>13. ASSUME NEW k \in Keys, Evict(k) \/ \E a \in Imported : Import(k, a)
      PROVE  RequestStages'
  BY <1>13 DEF Evict, Import
<1>14. CASE BeginImport \/ CommitImport \/ RollbackImport
  BY <1>14 DEF BeginImport, CommitImport, RollbackImport
<1>15. CASE Midnight
  BY <1>15 DEF Midnight
<1>16. CASE UNCHANGED vars
  BY <1>16 DEF vars
<1>17. QED
  BY Steps, <1>1, <1>2, <1>3, <1>4, <1>5, <1>6, <1>7, <1>8, <1>9, <1>10, <1>11, <1>12, <1>13,
     <1>14, <1>15, <1>16

LEMMA TaskStagesStep ==
  ASSUME Inv, [Next]_vars
  PROVE  TaskStages'
<1> USE NoneAssumption, AnswersAssumption
<1> USE DEF Inv, TypeOK, RequestStages, TaskStages,
            queryVars, taskVars, statVars, importVars, Outcomes, Failures
<1>1. ASSUME NEW q \in Queries, NEW k \in Keys, Lookup(q, k) \/ LookupFails(q, k)
      PROVE  TaskStages'
  BY <1>1 DEF Lookup, LookupFails
<1>2. ASSUME NEW q \in Queries, StartHit(q) \/ Join(q)
      PROVE  TaskStages'
  BY <1>2 DEF StartHit, Join
<1>3. ASSUME NEW q \in Queries, Launch(q)
      PROVE  TaskStages'
  BY <1>3 DEF Launch
<1>4. ASSUME NEW q \in Queries, ReturnHit(q) \/ Return(q) \/ Cancel(q)
      PROVE  TaskStages'
  BY <1>4 DEF ReturnHit, Return, Cancel
<1>5. ASSUME NEW q \in Queries, NEW w \in Writes, HitWriteFails(q, w)
      PROVE  TaskStages'
  BY <1>5 DEF HitWriteFails
<1>6. ASSUME NEW t \in Queries, CountMiss(t) \/ CountMissFails(t)
      PROVE  TaskStages'
  BY <1>6 DEF CountMiss, CountMissFails, Finish
<1>7. ASSUME NEW t \in Queries, NEW r \in Answers \cup {"llm-fail", "parse-fail"}, Reply(t, r)
      PROVE  TaskStages'
  BY <1>7 DEF Reply
<1>8. ASSUME NEW t \in Queries, StartInsert(t) \/ ReturnFailure(t)
      PROVE  TaskStages'
  BY <1>8 DEF StartInsert, ReturnFailure, Finish
<1>9. ASSUME NEW t \in Queries, NEW w \in Writes, RecordingFails(t, w)
      PROVE  TaskStages'
  BY <1>9 DEF RecordingFails, Finish
<1>10. ASSUME NEW t \in Queries, Insert(t) \/ InsertFails(t)
      PROVE  TaskStages'
  BY <1>10 DEF Insert, InsertFails, Finish
<1>11. ASSUME NEW t \in Queries, Retire(t)
      PROVE  TaskStages'
  BY <1>11 DEF Retire
<1>12. ASSUME NEW o \in Queries, NEW w \in Writes, Write(o, w) \/ StrayWriteFails(o, w)
      PROVE  TaskStages'
  BY <1>12 DEF Write, StrayWriteFails
<1>13. ASSUME NEW k \in Keys, Evict(k) \/ \E a \in Imported : Import(k, a)
      PROVE  TaskStages'
  BY <1>13 DEF Evict, Import
<1>14. CASE BeginImport \/ CommitImport \/ RollbackImport
  BY <1>14 DEF BeginImport, CommitImport, RollbackImport
<1>15. CASE Midnight
  BY <1>15 DEF Midnight
<1>16. CASE UNCHANGED vars
  BY <1>16 DEF vars
<1>17. QED
  BY Steps, <1>1, <1>2, <1>3, <1>4, <1>5, <1>6, <1>7, <1>8, <1>9, <1>10, <1>11, <1>12, <1>13,
     <1>14, <1>15, <1>16

LEMMA RegistryStep ==
  ASSUME Inv, [Next]_vars
  PROVE  RegistryExact'
<1> USE NoneAssumption
<1> USE DEF Inv, TypeOK, RequestStages, TaskStages, RegistryExact,
            queryVars, taskVars, statVars, importVars
<1>1. ASSUME NEW q \in Queries, NEW k \in Keys, Lookup(q, k) \/ LookupFails(q, k)
      PROVE  RegistryExact'
  BY <1>1 DEF Lookup, LookupFails
<1>2. ASSUME NEW q \in Queries, StartHit(q) \/ Join(q)
      PROVE  RegistryExact'
  BY <1>2 DEF StartHit, Join
<1>3. ASSUME NEW q \in Queries, Launch(q)
      PROVE  RegistryExact'
  BY <1>3 DEF Launch
<1>4. ASSUME NEW q \in Queries, ReturnHit(q) \/ Return(q) \/ Cancel(q)
      PROVE  RegistryExact'
  BY <1>4 DEF ReturnHit, Return, Cancel
<1>5. ASSUME NEW q \in Queries, NEW w \in Writes, HitWriteFails(q, w)
      PROVE  RegistryExact'
  BY <1>5 DEF HitWriteFails
<1>6. ASSUME NEW t \in Queries, CountMiss(t) \/ CountMissFails(t)
      PROVE  RegistryExact'
  BY <1>6 DEF CountMiss, CountMissFails, Finish
<1>7. ASSUME NEW t \in Queries, NEW r \in Answers \cup {"llm-fail", "parse-fail"}, Reply(t, r)
      PROVE  RegistryExact'
  BY <1>7 DEF Reply
<1>8. ASSUME NEW t \in Queries, StartInsert(t) \/ ReturnFailure(t)
      PROVE  RegistryExact'
  BY <1>8 DEF StartInsert, ReturnFailure, Finish
<1>9. ASSUME NEW t \in Queries, NEW w \in Writes, RecordingFails(t, w)
      PROVE  RegistryExact'
  BY <1>9 DEF RecordingFails, Finish
<1>10. ASSUME NEW t \in Queries, Insert(t) \/ InsertFails(t)
      PROVE  RegistryExact'
  BY <1>10 DEF Insert, InsertFails, Finish
<1>11. ASSUME NEW t \in Queries, Retire(t)
      PROVE  RegistryExact'
  BY <1>11 DEF Retire
<1>12. ASSUME NEW o \in Queries, NEW w \in Writes, Write(o, w) \/ StrayWriteFails(o, w)
      PROVE  RegistryExact'
  BY <1>12 DEF Write, StrayWriteFails
<1>13. ASSUME NEW k \in Keys, Evict(k) \/ \E a \in Imported : Import(k, a)
      PROVE  RegistryExact'
  BY <1>13 DEF Evict, Import
<1>14. CASE BeginImport \/ CommitImport \/ RollbackImport
  BY <1>14 DEF BeginImport, CommitImport, RollbackImport
<1>15. CASE Midnight
  BY <1>15 DEF Midnight
<1>16. CASE UNCHANGED vars
  BY <1>16 DEF vars
<1>17. QED
  BY Steps, <1>1, <1>2, <1>3, <1>4, <1>5, <1>6, <1>7, <1>8, <1>9, <1>10, <1>11, <1>12, <1>13,
     <1>14, <1>15, <1>16

LEMMA Invariance == Spec => []Inv
<1>1. Init => Inv
  <2>1. Init => TypeOK
    <3> SUFFICES ASSUME Init PROVE TypeOK
      OBVIOUS
    <3>1. /\ begun \in 0..MaxImports
          /\ before \in [table : [Keys -> Answers \cup {None}], counted : SUBSET Increments,
                         logged : SUBSET LogRows]
          /\ undone \in [counted : SUBSET Increments, logged : SUBSET LogRows]
      BY ImportsAssumption DEF Init, Blank
    <3>2. today \in Days /\ 1 \in Days
      BY DaysAssumption DEF Init, Days
    <3>3. QED
      BY <3>1, <3>2 DEF Init, TypeOK
  <2>2. Init => RequestStages /\ TaskStages /\ RegistryExact
    BY NoneAssumption DEF Init, RequestStages, TaskStages, RegistryExact
  <2>3. QED
    BY <2>1, <2>2 DEF Inv
<1>2. Inv /\ [Next]_vars => Inv'
  BY TypeStep, RequestStagesStep, TaskStagesStep, RegistryStep DEF Inv
<1>3. QED
  BY <1>1, <1>2, PTL DEF Spec

\* The variables keep their types through every interleaving of requests, tasks,
\* writes and maintenance (service.py:36-143).
THEOREM TypeCorrect == Spec => []TypeOK
BY Invariance, PTL DEF Inv

\* The in-flight table is exact in every reachable state (service.py:53-57).
THEOREM RegistryIsExact == Spec => []RegistryExact
BY Invariance, PTL DEF Inv

\* At most one task works on a key at any time, so at most one call to the LLM is
\* outstanding for it (service.py:53-57).
THEOREM SingleFlightHolds == Spec => []SingleFlight
<1>1. Inv => SingleFlight
  BY DEF Inv, TypeOK, RegistryExact, SingleFlight, Live
<1>2. QED
  BY <1>1, Invariance, PTL

-----------------------------------------------------------------------------
(* GroundedAnswers: what has been obtained for a key stays obtained, so it is *)
(* enough to follow a row from the table to seen and from there to answer, and *)
(* from the table to what a ROLLBACK would put back.                          *)

Provenance ==
  /\ GroundedAnswers
  /\ \A k \in Keys : before.table[k] \in Obtained(k) \cup {None}
  /\ \A q \in Queries :
       /\ pc[q] = "idle" => seen[q] = None
       /\ pc[q] # "done" => answer[q] = None
       /\ seen[q] \in Obtained(qkey[q]) \cup {None}

\* Once a task exists, its day is fixed; once it has a reply, so are that and its key; once
\* it has an outcome, so is that.
LEMMA TaskStays ==
  ASSUME Inv, [Next]_vars, NEW t \in Queries
  PROVE  /\ tpc[t] # "none" => tpc'[t] # "none" /\ day'[t] = day[t]
         /\ reply[t] # None => reply'[t] = reply[t] /\ qkey'[t] = qkey[t]
         /\ verdict[t] # None => verdict'[t] = verdict[t]
<1> USE NoneAssumption
<1> USE DEF Inv, TypeOK, RequestStages, TaskStages, queryVars, taskVars, importVars
<1> DEFINE Stays == /\ tpc[t] # "none" => tpc'[t] # "none" /\ day'[t] = day[t]
                    /\ reply[t] # None => reply'[t] = reply[t] /\ qkey'[t] = qkey[t]
                    /\ verdict[t] # None => verdict'[t] = verdict[t]
<1>1. ASSUME NEW q \in Queries, NEW k \in Keys, Lookup(q, k) \/ LookupFails(q, k)
      PROVE  Stays
  BY <1>1 DEF Lookup, LookupFails
<1>2. ASSUME NEW q \in Queries, StartHit(q)
      PROVE  Stays
  BY <1>2 DEF StartHit
<1>3. ASSUME NEW q \in Queries, Join(q)
      PROVE  Stays
  BY <1>3 DEF Join
<1>4. ASSUME NEW q \in Queries, Launch(q)
      PROVE  Stays
  BY <1>4 DEF Launch
<1>5. ASSUME NEW q \in Queries, ReturnHit(q) \/ Return(q)
      PROVE  Stays
  BY <1>5 DEF ReturnHit, Return
<1>6. ASSUME NEW q \in Queries, Cancel(q)
      PROVE  Stays
  BY <1>6 DEF Cancel
<1>7. ASSUME NEW q \in Queries, NEW w \in Writes, HitWriteFails(q, w)
      PROVE  Stays
  BY <1>7 DEF HitWriteFails
<1>8. ASSUME NEW q \in Queries, CountMiss(q)
      PROVE  Stays
  BY <1>8 DEF CountMiss
<1>9. ASSUME NEW q \in Queries, CountMissFails(q)
      PROVE  Stays
  BY <1>9 DEF CountMissFails, Finish
<1>10. ASSUME NEW q \in Queries, NEW r \in Answers \cup {"llm-fail", "parse-fail"}, Reply(q, r)
      PROVE  Stays
  BY <1>10 DEF Reply
<1>11. ASSUME NEW q \in Queries, StartInsert(q)
      PROVE  Stays
  BY <1>11 DEF StartInsert
<1>12. ASSUME NEW q \in Queries, ReturnFailure(q)
      PROVE  Stays
  BY <1>12 DEF ReturnFailure, Finish
<1>13. ASSUME NEW q \in Queries, NEW w \in Writes, RecordingFails(q, w)
      PROVE  Stays
  BY <1>13 DEF RecordingFails, Finish
<1>14. ASSUME NEW q \in Queries, Insert(q) \/ InsertFails(q)
      PROVE  Stays
  BY <1>14 DEF Insert, InsertFails, Finish
<1>15. ASSUME NEW q \in Queries, Retire(q)
      PROVE  Stays
  BY <1>15 DEF Retire
<1>16. ASSUME NEW q \in Queries, NEW w \in Writes, Write(q, w)
      PROVE  Stays
  BY <1>16 DEF Write
<1>17. ASSUME NEW q \in Queries, NEW w \in Writes, StrayWriteFails(q, w)
      PROVE  Stays
  BY <1>17 DEF StrayWriteFails
<1>18. ASSUME NEW k \in Keys, Evict(k) \/ \E a \in Imported : Import(k, a)
      PROVE  Stays
  BY <1>18 DEF Evict, Import
<1>19. CASE BeginImport \/ CommitImport \/ RollbackImport
  BY <1>19 DEF BeginImport, CommitImport, RollbackImport
<1>20. CASE Midnight
  BY <1>20 DEF Midnight
<1>21. CASE UNCHANGED vars
  BY <1>21 DEF vars
<1>22. QED
  BY Steps, <1>1, <1>2, <1>3, <1>4, <1>5, <1>6, <1>7, <1>8, <1>9, <1>10, <1>11, <1>12, <1>13,
     <1>14, <1>15, <1>16, <1>17, <1>18, <1>19, <1>20, <1>21

\* A step never takes an answer away from what was obtained for a key.
LEMMA ObtainedGrows ==
  ASSUME Inv, [Next]_vars, NEW k \in Keys
  PROVE  Obtained(k) \subseteq Obtained(k)'
BY TaskStays, NoneAssumption DEF Obtained, Outcomes

\* Imported answers and the accepted replies to a key's own calls are obtained.
LEMMA ObtainedHolds ==
  /\ \A k : Imported \subseteq Obtained(k)
  /\ \A t \in Queries : reply[t] \in Answers => reply[t] \in Obtained(qkey[t])
BY DEF Obtained

LEMMA ProvenanceStep ==
  ASSUME Inv, Provenance, [Next]_vars
  PROVE  Provenance'
<1> USE NoneAssumption, AnswersAssumption, ImportedAssumption, ObtainedGrows, ObtainedHolds
<1> USE DEF Inv, TypeOK, RequestStages, TaskStages, RegistryExact, Provenance, GroundedAnswers,
            queryVars, taskVars, statVars, importVars, Outcomes, Failures
<1>1. ASSUME NEW q \in Queries, NEW k \in Keys, Lookup(q, k) \/ LookupFails(q, k)
      PROVE  Provenance'
  BY <1>1 DEF Lookup, LookupFails
<1>2. ASSUME NEW q \in Queries, StartHit(q) \/ Join(q)
      PROVE  Provenance'
  BY <1>2 DEF StartHit, Join
<1>3. ASSUME NEW q \in Queries, Launch(q)
      PROVE  Provenance'
  BY <1>3 DEF Launch
<1>4. ASSUME NEW q \in Queries, ReturnHit(q) \/ Return(q) \/ Cancel(q)
      PROVE  Provenance'
  BY <1>4 DEF ReturnHit, Return, Cancel
<1>5. ASSUME NEW q \in Queries, NEW w \in Writes, HitWriteFails(q, w)
      PROVE  Provenance'
  BY <1>5 DEF HitWriteFails
<1>6. ASSUME NEW t \in Queries, CountMiss(t) \/ CountMissFails(t)
      PROVE  Provenance'
  BY <1>6 DEF CountMiss, CountMissFails, Finish
<1>7. ASSUME NEW t \in Queries, NEW r \in Answers \cup {"llm-fail", "parse-fail"}, Reply(t, r)
      PROVE  Provenance'
  BY <1>7 DEF Reply
<1>8. ASSUME NEW t \in Queries, StartInsert(t) \/ ReturnFailure(t)
      PROVE  Provenance'
  BY <1>8 DEF StartInsert, ReturnFailure, Finish
<1>9. ASSUME NEW t \in Queries, NEW w \in Writes, RecordingFails(t, w)
      PROVE  Provenance'
  BY <1>9 DEF RecordingFails, Finish
<1>10. ASSUME NEW t \in Queries, Insert(t) \/ InsertFails(t)
      PROVE  Provenance'
  BY <1>10 DEF Insert, InsertFails, Finish
<1>11. ASSUME NEW t \in Queries, Retire(t)
      PROVE  Provenance'
  BY <1>11 DEF Retire
<1>12. ASSUME NEW o \in Queries, NEW w \in Writes, Write(o, w) \/ StrayWriteFails(o, w)
      PROVE  Provenance'
  BY <1>12 DEF Write, StrayWriteFails
<1>13. ASSUME NEW k \in Keys, Evict(k) \/ \E a \in Imported : Import(k, a)
      PROVE  Provenance'
  BY <1>13 DEF Evict, Import
<1>14. CASE BeginImport \/ CommitImport \/ RollbackImport
  BY <1>14 DEF BeginImport, CommitImport, RollbackImport, Blank
<1>15. CASE Midnight
  BY <1>15 DEF Midnight
<1>16. CASE UNCHANGED vars
  BY <1>16 DEF vars
<1>17. QED
  BY Steps, <1>1, <1>2, <1>3, <1>4, <1>5, <1>6, <1>7, <1>8, <1>9, <1>10, <1>11, <1>12, <1>13,
     <1>14, <1>15, <1>16

\* Whatever is stored or told about a question was imported, or parsed from a
\* reply to a call made for that question (service.py:3-6).
THEOREM AnswersAreGrounded == Spec => []GroundedAnswers
<1>1. Init => Provenance
  BY NoneAssumption DEF Init, Blank, Provenance, GroundedAnswers
<1>2. Inv /\ Provenance /\ [Next]_vars => Provenance'
  BY ProvenanceStep
<1>3. Provenance => GroundedAnswers
  BY DEF Provenance
<1>4. QED
  BY <1>1, <1>2, <1>3, Invariance, PTL DEF Spec

-----------------------------------------------------------------------------
(* LedgerOrdered and RecordedBeforeAnswered: which increments and log rows a  *)
(* task must already have made at each stage.                                 *)

MissCounted(t) == Count(t, "cache_misses") \in EverCounted

CallCounted(t) ==
  /\ Count(t, "llm_calls") \in EverCounted
  /\ reply[t] = "llm-fail" => Count(t, "llm_failures") \in EverCounted

CallLogged(t) == LogRow(t, LoggedKind(t)) \in EverLogged

\* The task has an outcome that is not an exception.
Settled(t) == verdict[t] \in Outcomes \ {"error"}

\* The task waits for gathered writes, write w no longer among them.
PastWrite(t, w) == tpc[t] = "recording" /\ w \notin pend[t]

TaskRecord(t) ==
  /\ (\/ tpc[t] \in {"asking", "recording", "inserting"}
      \/ tpc[t] # "none" /\ pend[t] # {}
      \/ Settled(t)) => MissCounted(t)
  /\ (PastWrite(t, "bump") \/ tpc[t] = "inserting" \/ Settled(t)) => CallCounted(t)
  /\ (PastWrite(t, "log") \/ tpc[t] = "inserting" \/ Settled(t)) => CallLogged(t)

TaskRecords == \A t \in Queries : TaskRecord(t)

\* An increment belongs to an existing task, and the smaller counters of a day
\* only hold what the larger ones hold as well.
CounterRecord(c) ==
  /\ c.field # "cache_hits" => tpc[c.owner] # "none" /\ c.day = day[c.owner]
  /\ c.field = "llm_failures" => reply[c.owner] = "llm-fail"
  /\ c.field = "llm_calls" => [c EXCEPT !.field = "cache_misses"] \in EverCounted

CounterRecords == \A c \in EverCounted : CounterRecord(c)

\* A call and its failure are one statement: what holds the one holds the other.
FailuresMatched(increments) ==
  \A c \in increments : c.field = "llm_failures" => [c EXCEPT !.field = "llm_calls"] \in increments

\* What a ROLLBACK would put back has been written before.
SnapshotKept == before.counted \subseteq counted /\ before.logged \subseteq logged

Records ==
  /\ IsFiniteSet(EverCounted)
  /\ TaskRecords /\ CounterRecords /\ SnapshotKept
  /\ FailuresMatched(counted) /\ FailuresMatched(before.counted)

\* Only two actions count anything, only one logs.
LEMMA QuietStep ==
  ASSUME [Next]_vars,
         \A t \in Queries : ~CountMiss(t), \A o \in Queries, w \in Writes : ~Write(o, w)
  PROVE  \/ BeginImport \/ CommitImport \/ RollbackImport
         \/ UNCHANGED <<counted, logged, open, before, undone>>
BY Steps DEF vars, queryVars, taskVars, statVars, importVars,
   Lookup, LookupFails, StartHit, Join, Launch, ReturnHit, Return, Cancel,
   HitWriteFails, CountMissFails, Reply, StartInsert, ReturnFailure,
   RecordingFails, Insert, InsertFails, Retire, StrayWriteFails, Evict, Import,
   Midnight

\* What has been written stays written, undone or not, and a statement of one owner adds
\* at most two increments.
LEMMA EverGrows ==
  ASSUME [Next]_vars
  PROVE  EverCounted \subseteq EverCounted' /\ EverLogged \subseteq EverLogged'
<1>1. ASSUME NEW t \in Queries, CountMiss(t)
      PROVE  EverCounted \subseteq EverCounted' /\ EverLogged \subseteq EverLogged'
  BY <1>1 DEF CountMiss, importVars, EverCounted, EverLogged
<1>2. ASSUME NEW o \in Queries, NEW w \in Writes, Write(o, w)
      PROVE  EverCounted \subseteq EverCounted' /\ EverLogged \subseteq EverLogged'
  BY <1>2 DEF Write, importVars, EverCounted, EverLogged
<1>3. CASE BeginImport \/ CommitImport \/ RollbackImport
  BY <1>3 DEF BeginImport, CommitImport, RollbackImport, statVars, EverCounted, EverLogged
<1>4. QED
  BY <1>1, <1>2, <1>3, QuietStep DEF EverCounted, EverLogged

LEMMA EverCountedStaysFinite ==
  ASSUME IsFiniteSet(EverCounted), SnapshotKept, [Next]_vars
  PROVE  IsFiniteSet(EverCounted')
<1>1. ASSUME NEW t \in Queries, CountMiss(t)
      PROVE  IsFiniteSet(EverCounted')
  <2>1. EverCounted' = EverCounted \cup {Count(t, "cache_misses")}
    BY <1>1 DEF CountMiss, importVars, EverCounted
  <2>2. QED
    BY <2>1, FS_AddElement
<1>2. ASSUME NEW o \in Queries, NEW w \in Writes, Write(o, w)
      PROVE  IsFiniteSet(EverCounted')
  <2> DEFINE one == EverCounted \cup {Count(o, "llm_calls")}
             two == one \cup {Count(o, "llm_failures")}
             hit == EverCounted \cup {Count(o, "cache_hits")}
  <2>1. IsFiniteSet(one) /\ IsFiniteSet(hit)
    BY FS_AddElement
  <2>2. IsFiniteSet(two)
    BY <2>1, FS_AddElement
  <2>3. EverCounted' \in {EverCounted, one, two, hit}
    BY <1>2 DEF Write, BumpedFields, importVars, EverCounted
  <2>4. QED
    BY <2>1, <2>2, <2>3
<1>3. CASE BeginImport \/ CommitImport \/ RollbackImport
  <2>1. EverCounted' = EverCounted
    BY <1>3 DEF BeginImport, CommitImport, RollbackImport, statVars, EverCounted, SnapshotKept
  <2>2. QED
    BY <2>1
<1>4. QED
  BY <1>1, <1>2, <1>3, QuietStep DEF EverCounted

LEMMA SnapshotStep ==
  ASSUME SnapshotKept, FailuresMatched(counted), FailuresMatched(before.counted), [Next]_vars
  PROVE  SnapshotKept' /\ FailuresMatched(counted') /\ FailuresMatched(before'.counted)
<1>1. ASSUME NEW t \in Queries, CountMiss(t)
      PROVE  SnapshotKept' /\ FailuresMatched(counted') /\ FailuresMatched(before'.counted)
  BY <1>1 DEF CountMiss, importVars, SnapshotKept, FailuresMatched, Count
<1>2. ASSUME NEW o \in Queries, NEW w \in Writes, Write(o, w)
      PROVE  SnapshotKept' /\ FailuresMatched(counted') /\ FailuresMatched(before'.counted)
  <2>1. UNCHANGED before /\ counted \subseteq counted' /\ logged \subseteq logged'
    BY <1>2 DEF Write, importVars
  <2>2. ASSUME NEW c \in counted', c.field = "llm_failures"
        PROVE  [c EXCEPT !.field = "llm_calls"] \in counted'
    <3>1. CASE c \in counted
      BY <2>1, <2>2, <3>1 DEF FailuresMatched
    <3>2. CASE c \notin counted
      BY <1>2, <2>2, <3>2 DEF Write, BumpedFields, Count
    <3>3. QED
      BY <3>1, <3>2
  <2>3. QED
    BY <2>1, <2>2 DEF SnapshotKept, FailuresMatched
<1>3. CASE BeginImport \/ CommitImport \/ RollbackImport
  BY <1>3 DEF BeginImport, CommitImport, RollbackImport, Blank, statVars, SnapshotKept,
              FailuresMatched
<1>4. QED
  BY <1>1, <1>2, <1>3, QuietStep DEF SnapshotKept

\* What is recorded of a task stays recorded.
LEMMA RecordedStays ==
  ASSUME NEW t \in Queries, day'[t] = day[t], reply'[t] = reply[t],
         tpc'[t] = "none" <=> tpc[t] = "none",
         EverCounted \subseteq EverCounted', EverLogged \subseteq EverLogged'
  PROVE  /\ MissCounted(t) => MissCounted(t)'
         /\ CallCounted(t) => CallCounted(t)'
         /\ CallLogged(t) => CallLogged(t)'
BY DEF MissCounted, CallCounted, CallLogged, Count, LogRow, LoggedKind

\* A task whose own variables do not change keeps its records.
LEMMA TaskRecordFrame ==
  ASSUME NEW t \in Queries, TaskRecord(t),
         tpc'[t] = tpc[t], reply'[t] = reply[t], verdict'[t] = verdict[t],
         day'[t] = day[t], pend'[t] = pend[t],
         EverCounted \subseteq EverCounted', EverLogged \subseteq EverLogged'
  PROVE  TaskRecord(t)'
BY RecordedStays DEF TaskRecord, Settled, PastWrite

LEMMA TaskRecordsStep ==
  ASSUME Inv, Records, [Next]_vars
  PROVE  TaskRecords'
<1> USE NoneAssumption, AnswersAssumption
<1> USE DEF Inv, TypeOK, RequestStages, TaskStages, queryVars, taskVars, statVars, importVars
<1> SUFFICES ASSUME NEW t \in Queries PROVE TaskRecord(t)'
  BY DEF TaskRecords
<1>0. /\ TaskRecord(t)
      /\ EverCounted \subseteq EverCounted' /\ EverLogged \subseteq EverLogged'
  BY EverGrows DEF Records, TaskRecords
<1>1. ASSUME NEW q \in Queries, NEW k \in Keys, Lookup(q, k) \/ LookupFails(q, k)
      PROVE  TaskRecord(t)'
  <2>1. CASE t # q
    BY <1>0, <1>1, <2>1, TaskRecordFrame DEF Lookup, LookupFails
  <2>2. CASE t = q
    BY <1>0, <1>1, <2>2, RecordedStays DEF Lookup, LookupFails, TaskRecord,
       Settled, PastWrite, Outcomes, Failures
  <2>3. QED
    BY <2>1, <2>2
<1>2. ASSUME NEW q \in Queries, StartHit(q)
      PROVE  TaskRecord(t)'
  <2>1. CASE t # q
    BY <1>0, <1>2, <2>1, TaskRecordFrame DEF StartHit
  <2>2. CASE t = q
    BY <1>0, <1>2, <2>2 DEF StartHit, TaskRecord, Settled, PastWrite,
       MissCounted, Count
  <2>3. QED
    BY <2>1, <2>2
<1>3. ASSUME NEW q \in Queries, Join(q)
      PROVE  TaskRecord(t)'
  <2>1. CASE t # q
    BY <1>0, <1>3, <2>1, TaskRecordFrame DEF Join
  <2>2. CASE t = q
    BY <1>0, <1>3, <2>2 DEF Join, TaskRecord, Settled, PastWrite,
       MissCounted, Count
  <2>3. QED
    BY <2>1, <2>2
<1>4. ASSUME NEW q \in Queries, Launch(q)
      PROVE  TaskRecord(t)'
  <2>1. CASE t # q
    BY <1>0, <1>4, <2>1, TaskRecordFrame DEF Launch
  <2>2. CASE t = q
    BY <1>0, <1>4, <2>2 DEF Launch, TaskRecord, Settled, PastWrite,
       MissCounted, Count
  <2>3. QED
    BY <2>1, <2>2
<1>5. ASSUME NEW q \in Queries, ReturnHit(q) \/ Return(q)
      PROVE  TaskRecord(t)'
  <2>1. CASE t # q
    BY <1>0, <1>5, <2>1, TaskRecordFrame DEF ReturnHit, Return
  <2>2. CASE t = q
    BY <1>0, <1>5, <2>2, RecordedStays DEF ReturnHit, Return, TaskRecord,
       Settled, PastWrite, Outcomes, Failures
  <2>3. QED
    BY <2>1, <2>2
<1>6. ASSUME NEW q \in Queries, Cancel(q)
      PROVE  TaskRecord(t)'
  <2>1. CASE t # q
    BY <1>0, <1>6, <2>1, TaskRecordFrame DEF Cancel
  <2>2. CASE t = q
    BY <1>0, <1>6, <2>2, RecordedStays DEF Cancel, TaskRecord,
       Settled, PastWrite, Outcomes, Failures
  <2>3. QED
    BY <2>1, <2>2
<1>7. ASSUME NEW q \in Queries, NEW w \in Writes, HitWriteFails(q, w)
      PROVE  TaskRecord(t)'
  <2>1. CASE t # q
    BY <1>0, <1>7, <2>1, TaskRecordFrame DEF HitWriteFails
  <2>2. CASE t = q
    BY <1>0, <1>7, <2>2, RecordedStays DEF HitWriteFails, TaskRecord,
       Settled, PastWrite, Outcomes, Failures
  <2>3. QED
    BY <2>1, <2>2
<1>8. ASSUME NEW q \in Queries, CountMiss(q)
      PROVE  TaskRecord(t)'
  <2>1. CASE t # q
    BY <1>0, <1>8, <2>1, TaskRecordFrame DEF CountMiss
  <2>2. CASE t = q
    BY <1>0, <1>8, <2>2 DEF CountMiss, TaskRecord, Settled, PastWrite,
       MissCounted, Count, EverCounted
  <2>3. QED
    BY <2>1, <2>2
<1>9. ASSUME NEW q \in Queries, CountMissFails(q)
      PROVE  TaskRecord(t)'
  <2>1. CASE t # q
    BY <1>0, <1>9, <2>1, TaskRecordFrame DEF CountMissFails, Finish
  <2>2. CASE t = q
    BY <1>0, <1>9, <2>2, RecordedStays DEF CountMissFails, Finish, TaskRecord,
       Settled, PastWrite, Outcomes, Failures
  <2>3. QED
    BY <2>1, <2>2
<1>10. ASSUME NEW q \in Queries, NEW r \in Answers \cup {"llm-fail", "parse-fail"}, Reply(q, r)
      PROVE  TaskRecord(t)'
  <2>1. CASE t # q
    BY <1>0, <1>10, <2>1, TaskRecordFrame DEF Reply
  <2>2. CASE t = q
    BY <1>0, <1>10, <2>2 DEF Reply, TaskRecord, Settled, PastWrite,
       MissCounted, Count
  <2>3. QED
    BY <2>1, <2>2
<1>11. ASSUME NEW q \in Queries, StartInsert(q)
      PROVE  TaskRecord(t)'
  <2>1. CASE t # q
    BY <1>0, <1>11, <2>1, TaskRecordFrame DEF StartInsert
  <2>2. CASE t = q
    <3>1. MissCounted(t) /\ CallCounted(t) /\ CallLogged(t)
      BY <1>0, <1>11, <2>2 DEF StartInsert, TaskRecord, Settled, PastWrite, Writes
    <3>2. MissCounted(t)' /\ CallCounted(t)' /\ CallLogged(t)'
      BY <1>0, <1>11, <2>2, <3>1, RecordedStays DEF StartInsert
    <3>3. QED
      BY <3>2 DEF TaskRecord, Settled, PastWrite
  <2>3. QED
    BY <2>1, <2>2
<1>12. ASSUME NEW q \in Queries, ReturnFailure(q)
      PROVE  TaskRecord(t)'
  <2>1. CASE t # q
    BY <1>0, <1>12, <2>1, TaskRecordFrame DEF ReturnFailure, Finish
  <2>2. CASE t = q
    <3>1. MissCounted(t) /\ CallCounted(t) /\ CallLogged(t)
      BY <1>0, <1>12, <2>2 DEF ReturnFailure, TaskRecord, Settled, PastWrite, Writes
    <3>2. MissCounted(t)' /\ CallCounted(t)' /\ CallLogged(t)'
      BY <1>0, <1>12, <2>2, <3>1, RecordedStays DEF ReturnFailure, Finish
    <3>3. QED
      BY <3>2 DEF TaskRecord, Settled, PastWrite
  <2>3. QED
    BY <2>1, <2>2
<1>13. ASSUME NEW q \in Queries, NEW w \in Writes, RecordingFails(q, w)
      PROVE  TaskRecord(t)'
  <2>1. CASE t # q
    BY <1>0, <1>13, <2>1, TaskRecordFrame DEF RecordingFails, Finish
  <2>2. CASE t = q
    BY <1>0, <1>13, <2>2, RecordedStays DEF RecordingFails, Finish, TaskRecord,
       Settled, PastWrite, Outcomes, Failures
  <2>3. QED
    BY <2>1, <2>2
<1>14. ASSUME NEW q \in Queries, Insert(q) \/ InsertFails(q)
      PROVE  TaskRecord(t)'
  <2>1. CASE t # q
    BY <1>0, <1>14, <2>1, TaskRecordFrame DEF Insert, InsertFails, Finish
  <2>2. CASE t = q
    <3>1. MissCounted(t) /\ CallCounted(t) /\ CallLogged(t)
      BY <1>0, <1>14, <2>2 DEF Insert, InsertFails, TaskRecord, Settled, PastWrite, Writes
    <3>2. MissCounted(t)' /\ CallCounted(t)' /\ CallLogged(t)'
      BY <1>0, <1>14, <2>2, <3>1, RecordedStays DEF Insert, InsertFails, Finish
    <3>3. QED
      BY <3>2 DEF TaskRecord, Settled, PastWrite
  <2>3. QED
    BY <2>1, <2>2
<1>15. ASSUME NEW q \in Queries, Retire(q)
      PROVE  TaskRecord(t)'
  <2>1. CASE t # q
    BY <1>0, <1>15, <2>1, TaskRecordFrame DEF Retire
  <2>2. CASE t = q
    BY <1>0, <1>15, <2>2, RecordedStays DEF Retire, TaskRecord,
       Settled, PastWrite, Outcomes, Failures
  <2>3. QED
    BY <2>1, <2>2
<1>16. ASSUME NEW q \in Queries, NEW w \in Writes, Write(q, w)
      PROVE  TaskRecord(t)'
  <2>1. CASE t # q
    BY <1>0, <1>16, <2>1, TaskRecordFrame DEF Write
  <2>2. CASE t = q /\ tpc[t] # "none"
    <3>0. MissCounted(t)
      BY <1>0, <1>16, <2>2 DEF Write, TaskRecord, Settled, PastWrite
    <3>1. MissCounted(t)'
      BY <1>0, <1>16, <2>2, <3>0, RecordedStays DEF Write
    <3>2. w = "bump" => CallCounted(t)'
      BY <1>16, <2>2 DEF Write, CallCounted, Count, BumpedFields, EverCounted
    <3>3. w = "log" => CallLogged(t)'
      BY <1>16, <2>2 DEF Write, CallLogged, LoggedKind, LogRow, EverLogged
    <3>4. (CallCounted(t) => CallCounted(t)') /\ (CallLogged(t) => CallLogged(t)')
      BY <1>0, <1>16, <2>2, RecordedStays DEF Write
    <3>5. QED
      BY <1>0, <1>16, <2>2, <3>1, <3>2, <3>3, <3>4 DEF Write, TaskRecord, Settled, PastWrite, Writes
  <2>3. CASE t = q /\ tpc[t] = "none"
    BY <1>16, <2>3 DEF Write, TaskRecord, Settled, PastWrite
  <2>4. QED
    BY <2>1, <2>2, <2>3
<1>17. ASSUME NEW q \in Queries, NEW w \in Writes, StrayWriteFails(q, w)
      PROVE  TaskRecord(t)'
  <2>1. CASE t # q
    BY <1>0, <1>17, <2>1, TaskRecordFrame DEF StrayWriteFails
  <2>2. CASE t = q
    <3>1. /\ MissCounted(t) => MissCounted(t)'
          /\ CallCounted(t) => CallCounted(t)'
          /\ CallLogged(t) => CallLogged(t)'
      BY <1>0, <1>17, <2>2, RecordedStays DEF StrayWriteFails
    <3>2. tpc'[t] = tpc[t] /\ verdict'[t] = verdict[t] /\ tpc[t] # "recording"
      BY <1>17, <2>2 DEF StrayWriteFails
    <3>3. pend[t] # {}
      BY <1>17, <2>2 DEF StrayWriteFails
    <3>4. QED
      BY <1>0, <3>1, <3>2, <3>3 DEF TaskRecord, Settled, PastWrite
  <2>3. QED
    BY <2>1, <2>2
<1>18. ASSUME NEW k \in Keys, Evict(k) \/ \E a \in Imported : Import(k, a)
      PROVE  TaskRecord(t)'
  BY <1>0, <1>18, TaskRecordFrame DEF Evict, Import
<1>19. CASE BeginImport \/ CommitImport \/ RollbackImport
  BY <1>0, <1>19, TaskRecordFrame DEF BeginImport, CommitImport, RollbackImport
<1>20. CASE Midnight
  BY <1>0, <1>20, TaskRecordFrame DEF Midnight
<1>21. CASE UNCHANGED vars
  BY <1>0, <1>21, TaskRecordFrame DEF vars
<1>22. QED
  BY Steps, <1>1, <1>2, <1>3, <1>4, <1>5, <1>6, <1>7, <1>8, <1>9, <1>10, <1>11, <1>12, <1>13,
     <1>14, <1>15, <1>16, <1>17, <1>18, <1>19, <1>20, <1>21

LEMMA CounterRecordsStep ==
  ASSUME Inv, Records, [Next]_vars
  PROVE  CounterRecords'
<1> SUFFICES ASSUME NEW c \in EverCounted' PROVE CounterRecord(c)'
  BY DEF CounterRecords
<1>1. c \in Increments
  BY TypeStep DEF TypeOK, EverCounted
<1>2. EverCounted \subseteq EverCounted'
  BY EverGrows
<1>3. CASE c \in EverCounted
  <2>1. CounterRecord(c)
    BY <1>3 DEF Records, CounterRecords
  <2>2. QED
    BY <1>1, <1>2, <2>1, TaskStays, NoneAssumption
       DEF CounterRecord, Increments, Outcomes, Failures
<1>4. CASE c \notin EverCounted
  <2>1. \/ \E t \in Queries : CountMiss(t)
        \/ \E o \in Queries, w \in Writes : Write(o, w)
    <3>1. BeginImport \/ CommitImport \/ RollbackImport => EverCounted' = EverCounted
      BY DEF BeginImport, CommitImport, RollbackImport, statVars, EverCounted, Records,
             SnapshotKept
    <3>2. UNCHANGED <<counted, logged, open, before, undone>> => EverCounted' = EverCounted
      BY DEF EverCounted
    <3>3. QED
      BY <1>4, <3>1, <3>2, QuietStep
  <2>2. ASSUME NEW t \in Queries, CountMiss(t)
        PROVE  CounterRecord(c)'
    <3>1. c = Count(t, "cache_misses") /\ UNCHANGED day /\ tpc'[t] # "none"
      BY <1>4, <2>2 DEF CountMiss, EverCounted, importVars, Inv, TypeOK
    <3>2. QED
      BY <3>1 DEF Count, CounterRecord
  <2>3. ASSUME NEW o \in Queries, NEW w \in Writes, Write(o, w)
        PROVE  CounterRecord(c)'
    <3>1. /\ w = "bump"
          /\ \E f \in BumpedFields(o) : c = Count(o, f)
          /\ UNCHANGED <<tpc, reply, day>>
      BY <1>4, <2>3 DEF Write, taskVars, importVars, EverCounted
    <3>2. CASE tpc[o] = "none"
      BY <3>1, <3>2 DEF BumpedFields, Count, CounterRecord
    <3>3. CASE tpc[o] # "none"
      <4>1. Count(o, "cache_misses") \in EverCounted
        BY <2>3, <3>3 DEF Write, Records, TaskRecords, TaskRecord, MissCounted
      <4>2. CASE c = Count(o, "llm_calls")
        BY <1>2, <3>1, <3>3, <4>1, <4>2 DEF Count, CounterRecord
      <4>3. CASE c = Count(o, "llm_failures") /\ reply[o] = "llm-fail"
        BY <3>1, <3>3, <4>3 DEF Count, CounterRecord
      <4>4. QED
        BY <3>1, <3>3, <4>2, <4>3 DEF BumpedFields
    <3>4. QED
      BY <3>2, <3>3
  <2>4. QED
    BY <2>1, <2>2, <2>3
<1>5. QED
  BY <1>3, <1>4

LEMMA RecordsInvariance == Spec => []Records
<1>1. Init => Records
  BY FS_EmptySet, NoneAssumption
     DEF Init, Blank, Records, TaskRecords, TaskRecord, Settled, PastWrite, CounterRecords,
         EverCounted, SnapshotKept, FailuresMatched, Outcomes
<1>2. Inv /\ Records /\ [Next]_vars => Records'
  BY EverCountedStaysFinite, TaskRecordsStep, CounterRecordsStep, SnapshotStep DEF Records
<1>3. QED
  BY <1>1, <1>2, Invariance, PTL DEF Spec

\* No request is answered by a call that the statistics and the log have not shown, and
\* only an import's ROLLBACK takes it from them (service.py:88-117, db.py:155-157).
THEOREM RecordsPrecedeAnswers == Spec => []RecordedBeforeAnswered
<1>1. Inv /\ Records => RecordedBeforeAnswered
  <2> SUFFICES ASSUME Inv, Records, NEW t \in Queries, Settled(t)
               PROVE  /\ MissCounted(t) /\ Count(t, "llm_calls") \in EverCounted
                      /\ (verdict[t] = "llm-fail") <=> (Count(t, "llm_failures") \in EverCounted)
                      /\ LogRow(t, IF verdict[t] \in Answers THEN "miss" ELSE verdict[t])
                           \in EverLogged
    BY DEF RecordedBeforeAnswered, Settled, MissCounted
  <2>1. verdict[t] = reply[t] /\ verdict[t] # None /\ tpc[t] # "none"
    BY NoneAssumption DEF Inv, TypeOK, TaskStages, Settled
  <2>2. MissCounted(t) /\ CallCounted(t) /\ CallLogged(t)
    BY DEF Records, TaskRecords, TaskRecord
  <2>3. Count(t, "llm_failures") \in EverCounted => reply[t] = "llm-fail"
    BY DEF Records, CounterRecords, CounterRecord, Count
  <2>4. LoggedKind(t) = IF verdict[t] \in Answers THEN "miss" ELSE verdict[t]
    BY <2>1 DEF LoggedKind
  <2>5. QED
    BY <2>1, <2>2, <2>3, <2>4 DEF CallCounted, CallLogged
<1>2. QED
  BY <1>1, Invariance, RecordsInvariance, PTL

\* Renaming the counter of increments, owner by owner, keeps them apart, so a
\* counter whose increments are all matched, in the same set or a larger one, is the
\* smaller one.
LEMMA MatchedColumn ==
  ASSUME NEW small \in SUBSET Increments, NEW large \in SUBSET Increments, IsFiniteSet(large),
         NEW f \in Fields, NEW g \in Fields, NEW d \in Days,
         \A c \in small : c.field = f => [c EXCEPT !.field = g] \in large
  PROVE  Column(small, f, d) <= Column(large, g, d)
<1> DEFINE S == {c \in small : c.field = f /\ c.day = d}
           T == {c \in large : c.field = g /\ c.day = d}
           match == [c \in S |-> [c EXCEPT !.field = g]]
<1>1. \A c \in S : c = [owner |-> c.owner, field |-> f, day |-> d]
  BY DEF Increments
<1>2. \A c \in S : match[c] = [owner |-> c.owner, field |-> g, day |-> d]
  BY <1>1
<1>3. match \in [S -> T]
  BY <1>2 DEF Increments
<1>4. match \in Injection(S, T)
  BY <1>1, <1>2, <1>3 DEF Injection, IsInjective
<1>5. IsFiniteSet(T)
  BY FS_Subset
<1>6. QED
  BY <1>4, <1>5, FS_Injection DEF Column

\* On each day, failures <= calls, and calls <= misses written, whatever imports roll back
\* (service.py:81-117, db.py:155-157).
THEOREM LedgerIsOrdered == Spec => []LedgerOrdered
<1>1. Inv /\ Records => LedgerOrdered
  <2> SUFFICES ASSUME Inv, Records, NEW d \in Days
               PROVE  /\ Column(counted, "llm_failures", d) <= Column(counted, "llm_calls", d)
                      /\ Column(counted, "llm_calls", d) <= Column(EverCounted, "cache_misses", d)
    BY DEF LedgerOrdered
  <2>1. counted \in SUBSET Increments /\ EverCounted \in SUBSET Increments
    BY DEF Inv, TypeOK, EverCounted
  <2>2. counted \subseteq EverCounted
    BY DEF EverCounted
  <2>3. IsFiniteSet(EverCounted) /\ IsFiniteSet(counted)
    BY <2>2, FS_Subset DEF Records
  <2>4. Column(counted, "llm_failures", d) <= Column(counted, "llm_calls", d)
    BY <2>1, <2>3, MatchedColumn DEF Records, FailuresMatched, Fields
  <2>5. \A c \in counted :
          c.field = "llm_calls" => [c EXCEPT !.field = "cache_misses"] \in EverCounted
    BY <2>2 DEF Records, CounterRecords, CounterRecord
  <2>6. Column(counted, "llm_calls", d) <= Column(EverCounted, "cache_misses", d)
    BY <2>1, <2>3, <2>5, MatchedColumn DEF Fields
  <2>7. QED
    BY <2>4, <2>6
<1>2. QED
  BY <1>1, Invariance, RecordsInvariance, PTL

\* A step that gives a stored key another answer is an import of that key, or the ROLLBACK
\* of one.
StoredKept == \A k \in Keys : table[k] # None /\ table'[k] \notin {table[k], None}
                                => RollbackImport \/ \E a \in Imported : Import(k, a)

LEMMA StoredKeptStep ==
  ASSUME Inv, Next
  PROVE  StoredKept
<1> SUFFICES ASSUME NEW key \in Keys, table[key] # None, table'[key] \notin {table[key], None}
             PROVE  RollbackImport \/ \E a \in Imported : Import(key, a)
  BY DEF StoredKept
<1> USE DEF Inv, TypeOK, RequestStages, TaskStages
<1>1. table' # table
  OBVIOUS
<1>2. ASSUME NEW t \in Queries, Insert(t) \/ InsertFails(t)
      PROVE  FALSE
  BY <1>2, <1>1 DEF Insert, InsertFails
<1>3. ASSUME NEW k \in Keys, Evict(k)
      PROVE  FALSE
  BY <1>3 DEF Evict
<1>4. ASSUME NEW k \in Keys, NEW a \in Imported, Import(k, a)
      PROVE  k = key
  BY <1>4 DEF Import
<1>5. \/ \E t \in Queries : Insert(t) \/ InsertFails(t)
      \/ \E k \in Keys : Evict(k) \/ \E a \in Imported : Import(k, a)
      \/ RollbackImport
  BY <1>1, Steps
     DEF Lookup, LookupFails, StartHit, Join, Launch, ReturnHit, Return, Cancel, HitWriteFails,
         CountMiss, CountMissFails, Reply, StartInsert, ReturnFailure, RecordingFails, Retire,
         Write, StrayWriteFails, BeginImport, CommitImport, Midnight
<1>6. QED
  BY <1>2, <1>3, <1>4, <1>5

\* A stored answer changes only by an import or the ROLLBACK of one (questions.py:42-48,
\* db.py:155-157).
THEOREM FirstAnswerStays == Spec => FirstAnswerWins
<1>1. Inv /\ [Next]_vars => [StoredKept]_vars
  BY StoredKeptStep
<1>2. QED
  BY <1>1, Invariance, PTL DEF Spec, FirstAnswerWins, StoredKept

-----------------------------------------------------------------------------
(* Every step of AnswerService is a step AnswerCache allows, or changes     *)
(* nothing a caller can see.  (That the progress AnswerCache promises is    *)
(* made rests on fairness and is left to TLC.)                              *)

\* The phase of a request, as AnswerCache sees it.
Phase == [q \in Queries |-> PhaseOf[pc[q]]]

\* Only the phase of request q changes, to p.
LEMMA PhaseStep ==
  ASSUME TypeOK, NEW q \in Queries,
         NEW s \in {"idle", "read", "hit", "waiting", "done", "gone"},
         pc' = [pc EXCEPT ![q] = s]
  PROVE  Phase' = [Phase EXCEPT ![q] = PhaseOf[s]]
BY DEF Phase, TypeOK

LEMMA PhaseValues ==
  ASSUME TypeOK, NEW q \in Queries
  PROVE  /\ Phase[q] = PhaseOf[pc[q]]
         /\ PhaseOf["idle"] = "idle" /\ PhaseOf["read"] = "asked"
         /\ PhaseOf["hit"] = "asked" /\ PhaseOf["waiting"] = "joined"
         /\ PhaseOf["done"] = "answered" /\ PhaseOf["gone"] = "gone"
BY DEF Phase, PhaseOf, TypeOK

\* A task without an outcome is the one its key's entry names, so it is the only
\* flight of that key in the air.
LEMMA OneInTheAir ==
  ASSUME Inv, NEW k \in Keys
  PROVE  Promise!InTheAir(k) \subseteq {inflight[k]}
BY DEF Inv, TypeOK, RequestStages, TaskStages, RegistryExact,
       Promise!InTheAir, Promise!Flights

\* What is stored, and what a ROLLBACK would put back, was imported or is what a flight
\* for the key has landed with.
LandedRows ==
  \A k \in Keys : {table[k], before.table[k]} \subseteq {None} \cup Imported \cup Promise!Landed(k)

LEMMA LandedGrows ==
  ASSUME Inv, [Next]_vars, NEW k \in Keys
  PROVE  Promise!Landed(k) \subseteq Promise!Landed(k)'
<1> SUFFICES ASSUME NEW t \in Queries, joined[t] = t, qkey[t] = k, verdict[t] \in Answers
             PROVE  joined'[t] = t /\ qkey'[t] = k /\ verdict'[t] = verdict[t]
  BY DEF Promise!Landed, Promise!Flights
<1>1. verdict[t] = reply[t] /\ reply[t] # None /\ tpc[t] # "none"
  BY NoneAssumption, AnswersAssumption DEF Inv, TaskStages, RequestStages, Outcomes, Failures
<1>2. qkey'[t] = k /\ verdict'[t] = verdict[t] /\ tpc'[t] # "none"
  BY <1>1, TaskStays
<1>3. joined'[t] = t
  BY <1>2, RequestStagesStep DEF RequestStages
<1>4. QED
  BY <1>2, <1>3

LEMMA LandedRowsStep ==
  ASSUME Inv, LandedRows, [Next]_vars
  PROVE  LandedRows'
<1> USE LandedGrows
<1> USE DEF LandedRows, Inv, TypeOK
<1>1. ASSUME NEW t \in Queries, Insert(t)
      PROVE  LandedRows'
  <2>1. /\ joined'[t] = t /\ qkey'[t] = qkey[t] /\ qkey[t] \in Keys
        /\ verdict'[t] = reply[t] /\ reply[t] \in Answers
    BY <1>1 DEF Insert, Finish, queryVars, TaskStages, RequestStages
  <2>2. reply[t] \in Promise!Landed(qkey[t])'
    BY <2>1 DEF Promise!Landed, Promise!Flights
  <2>3. /\ table' = [table EXCEPT ![qkey[t]] = IF @ = None THEN reply[t] ELSE @]
        /\ before' = before
    BY <1>1 DEF Insert, importVars
  <2>4. QED
    BY <2>1, <2>2, <2>3
<1>2. ASSUME NEW k \in Keys, Evict(k) \/ \E a \in Imported : Import(k, a)
      PROVE  LandedRows'
  BY <1>2 DEF Evict, Import, importVars
<1>3. CASE BeginImport \/ CommitImport \/ RollbackImport
  BY <1>3 DEF BeginImport, CommitImport, RollbackImport, Blank
<1>4. \/ UNCHANGED <<table, before>>
      \/ \E t \in Queries : Insert(t)
      \/ \E k \in Keys : Evict(k) \/ \E a \in Imported : Import(k, a)
      \/ BeginImport \/ CommitImport \/ RollbackImport
  BY Steps
     DEF vars, importVars, Lookup, LookupFails, StartHit, Join, Launch, ReturnHit, Return,
         Cancel, HitWriteFails, CountMiss, CountMissFails, Reply, StartInsert, ReturnFailure,
         RecordingFails, InsertFails, Retire, Write, StrayWriteFails, Midnight
<1>5. QED
  BY <1>1, <1>2, <1>3, <1>4

LEMMA LandedInvariance == Spec => []LandedRows
<1>1. Init => LandedRows
  BY DEF Init, Blank, LandedRows
<1>2. QED
  BY <1>1, LandedRowsStep, Invariance, PTL DEF Spec

LEMMA Simulation ==
  ASSUME Inv, LandedRows, [Next]_vars
  PROVE  [Promise!Next]_(Promise!vars)
<1> USE NoneAssumption, AnswersAssumption, PhaseStep, PhaseValues
<1> USE DEF Inv, TypeOK, queryVars, taskVars, importVars
<1> DEFINE Same == UNCHANGED <<table, Phase, qkey, seen, joined, verdict, answer>>
<1>0. Same => UNCHANGED Promise!vars
  BY DEF Promise!vars, Phase
<1>1. ASSUME NEW q \in Queries, NEW k \in Keys, Lookup(q, k)
      PROVE  Promise!Ask(q, k)
  BY <1>1 DEF Lookup, Promise!Ask, Phase
<1>2. ASSUME NEW q \in Queries, NEW k \in Keys, LookupFails(q, k)
      PROVE  Promise!AskFails(q, k)
  BY <1>2 DEF LookupFails, Promise!AskFails, Phase, Failures
<1>3. ASSUME NEW q \in Queries, StartHit(q)
      PROVE  Same
  <2>1. pc[q] = "read" /\ pc' = [pc EXCEPT ![q] = "hit"]
    BY <1>3 DEF StartHit
  <2>2. ASSUME NEW r \in Queries
        PROVE  PhaseOf[pc'[r]] = PhaseOf[pc[r]]
    <3>1. PhaseOf["hit"] = PhaseOf["read"]
      BY DEF PhaseOf
    <3>2. QED
      BY <2>1, <3>1
  <2>3. Phase' = Phase
    BY <2>2, Zenon DEF Phase
  <2>4. QED
    BY <1>3, <2>3 DEF StartHit
<1>4. ASSUME NEW q \in Queries, NEW f \in Queries, f = inflight[qkey[q]], Join(q)
      PROVE  Promise!JoinFlight(q, f)
  <2>1. f \in Promise!Flights(qkey[q])
    BY <1>4 DEF Join, RequestStages, RegistryExact, Promise!Flights
  <2>2. Promise!InTheAir(qkey[q]) \subseteq {f}
    BY <1>4, OneInTheAir DEF Join, RequestStages
  <2>3. QED
    BY <1>4, <2>1, <2>2 DEF Join, Promise!JoinFlight, Phase
<1>5. ASSUME NEW q \in Queries, Launch(q)
      PROVE  Promise!LaunchFlight(q)
  <2>1. Promise!InTheAir(qkey[q]) = {}
    BY <1>5, OneInTheAir DEF Launch, RequestStages, Promise!InTheAir, Promise!Flights
  <2>2. QED
    BY <1>5, <2>1 DEF Launch, Promise!LaunchFlight, Phase
<1>6. ASSUME NEW q \in Queries, ReturnHit(q) \/ \E w \in Writes : HitWriteFails(q, w)
      PROVE  Promise!AnswerFromCache(q)
  <2>1. pc[q] = "hit" /\ seen[q] # None
    BY <1>6 DEF ReturnHit, HitWriteFails, RequestStages
  <2>2. /\ pc' = [pc EXCEPT ![q] = "done"]
        /\ answer' = [answer EXCEPT ![q] = seen[q]]
        /\ UNCHANGED <<table, qkey, seen, joined, verdict>>
    BY <1>6 DEF ReturnHit, HitWriteFails
  <2>3. Phase' = [Phase EXCEPT ![q] = "answered"] /\ Phase[q] = "asked"
    BY <2>1, <2>2 DEF Phase, PhaseOf
  <2>4. QED
    BY <2>1, <2>2, <2>3 DEF Promise!AnswerFromCache, Phase
<1>7. ASSUME NEW q \in Queries, Return(q)
      PROVE  Promise!AnswerFromFlight(q)
  BY <1>7 DEF Return, RequestStages, TaskStages, Promise!AnswerFromFlight, Phase
<1>8. ASSUME NEW q \in Queries, Cancel(q)
      PROVE  Promise!GiveUp(q)
  BY <1>8 DEF Cancel, Promise!GiveUp, Phase
<1>9. ASSUME NEW t \in Queries,
             \/ CountMissFails(t) \/ ReturnFailure(t) \/ InsertFails(t) \/ Insert(t)
             \/ \E w \in Writes : RecordingFails(t, w)
      PROVE  \E v \in Outcomes : Promise!Land(t, v)
  <2>1. joined[t] = t /\ verdict[t] = None /\ qkey[t] \in Keys
    BY <1>9 DEF CountMissFails, ReturnFailure, InsertFails, Insert, RecordingFails,
                RequestStages, TaskStages
  <2>2. UNCHANGED <<Phase, qkey, seen, joined, answer>>
    BY <1>9 DEF CountMissFails, ReturnFailure, InsertFails, Insert, RecordingFails, Phase
  <2>3. CASE CountMissFails(t) \/ \E w \in Writes : RecordingFails(t, w)
    <3>1. verdict' = [verdict EXCEPT ![t] = "error"] /\ UNCHANGED table
      BY <2>3 DEF CountMissFails, RecordingFails, Finish
    <3>2. QED
      BY <2>1, <2>2, <3>1 DEF Promise!Land, Phase, Outcomes, Failures
  <2>4. CASE ReturnFailure(t) \/ InsertFails(t)
    <3>1. verdict' = [verdict EXCEPT ![t] = reply[t]] /\ UNCHANGED table
      BY <2>4 DEF ReturnFailure, InsertFails, Finish
    <3>2. reply[t] \in Outcomes
      BY <2>4 DEF ReturnFailure, InsertFails, TaskStages, Outcomes
    <3>3. QED
      BY <2>1, <2>2, <3>1, <3>2 DEF Promise!Land, Phase
  <2>5. CASE Insert(t)
    <3>1. reply[t] \in Answers
      BY <2>5 DEF Insert, TaskStages
    <3>2. verdict' = [verdict EXCEPT ![t] = reply[t]]
      BY <2>5 DEF Insert, Finish
    <3>3. CASE table[qkey[t]] = None
      BY <2>1, <2>2, <2>5, <3>1, <3>2, <3>3 DEF Insert, Promise!Land, Phase, Outcomes
    <3>4. CASE table[qkey[t]] # None
      <4>1. UNCHANGED table
        BY <2>1, <2>5, <3>4 DEF Insert
      <4>2. QED
        BY <2>1, <2>2, <3>1, <3>2, <4>1 DEF Promise!Land, Phase, Outcomes
    <3>5. QED
      BY <3>3, <3>4
  <2>6. QED
    BY <1>9, <2>3, <2>4, <2>5
<1>10. ASSUME NEW t \in Queries,
              \/ CountMiss(t) \/ StartInsert(t) \/ Retire(t)
              \/ \E r \in Answers \cup {"llm-fail", "parse-fail"} : Reply(t, r)
       PROVE  Same
  BY <1>10 DEF CountMiss, StartInsert, Retire, Reply, Phase
<1>11. ASSUME NEW o \in Queries, NEW w \in Writes, Write(o, w) \/ StrayWriteFails(o, w)
       PROVE  Same
  BY <1>11 DEF Write, StrayWriteFails, Phase
<1>12. ASSUME RollbackImport \/ \E k \in Keys : Evict(k) \/ \E a \in Imported : Import(k, a)
       PROVE  Promise!Maintain
  <2>1. UNCHANGED <<Phase, qkey, seen, joined, verdict, answer>>
    BY <1>12 DEF Evict, Import, RollbackImport, Phase
  <2>2. CASE RollbackImport
    BY <2>1, <2>2 DEF RollbackImport, LandedRows, Promise!Maintain, Phase
  <2>3. ASSUME NEW k \in Keys, Evict(k) \/ \E a \in Imported : Import(k, a)
        PROVE  Promise!Maintain
    <3>1. \E v \in Imported \cup {None} : table' = [table EXCEPT ![k] = v]
      BY <2>3 DEF Evict, Import
    <3>2. QED
      BY <2>1, <3>1, ImportedAssumption DEF Promise!Maintain, Phase
  <2>4. QED
    BY <1>12, <2>2, <2>3
<1>13. CASE Midnight \/ BeginImport \/ CommitImport
  BY <1>0, <1>13 DEF Midnight, BeginImport, CommitImport, Phase
<1>14. CASE UNCHANGED vars
  BY <1>0, <1>14 DEF vars, Phase
<1>15. QED
  <2>1. ASSUME NEW q \in Queries, NEW k \in Keys, Promise!Ask(q, k) \/ Promise!AskFails(q, k)
        PROVE  Promise!Next
    BY <2>1 DEF Promise!Next
  <2>2. ASSUME NEW q \in Queries,
               \/ Promise!AnswerFromCache(q) \/ Promise!LaunchFlight(q)
               \/ Promise!AnswerFromFlight(q) \/ Promise!GiveUp(q)
        PROVE  Promise!Next
    BY <2>2 DEF Promise!Next, Promise!Serve
  <2>3. ASSUME NEW q \in Queries, NEW f \in Queries, Promise!JoinFlight(q, f)
        PROVE  Promise!Next
    BY <2>3 DEF Promise!Next, Promise!Serve
  <2>4. ASSUME NEW f \in Queries, NEW v \in Outcomes, Promise!Land(f, v)
        PROVE  Promise!Next
    BY <2>4 DEF Promise!Next, Promise!Resolve, Outcomes
  <2>5. ASSUME Promise!Maintain
        PROVE  Promise!Next
    BY <2>5 DEF Promise!Next
  <2>6. ASSUME NEW q \in Queries, Join(q)
        PROVE  \E f \in Queries : f = inflight[qkey[q]]
    <3>1. inflight[qkey[q]] \in Queries
      BY <2>6 DEF Join, RequestStages
    <3>2. QED
      BY <3>1, Zenon
  <2>7. QED
    <3>1. CASE Next
      <4> HIDE DEF Inv, TypeOK, queryVars, taskVars, importVars
      <4>1. ASSUME Same PROVE UNCHANGED Promise!vars
        BY <4>1, <1>0
      <4>2. ASSUME NEW q \in Queries, Join(q) PROVE Promise!Next
        <5>1. PICK f \in Queries : f = inflight[qkey[q]]
          BY <4>2, <2>6
        <5>2. QED
          BY <4>2, <5>1, <1>4, <2>3
      <4>3. ASSUME NEW q \in Queries, StartHit(q) \/ Launch(q)
            PROVE  Promise!Next \/ UNCHANGED Promise!vars
        BY <4>1, <4>3, <1>3, <1>5, <2>2
      <4>4. ASSUME NEW q \in Queries, ReturnHit(q) \/ Return(q) \/ Cancel(q)
            PROVE  Promise!Next
        BY <4>4, <1>6, <1>7, <1>8, <2>2
      <4>5. QED
        BY <3>1, Steps, <1>1, <1>2, <1>6, <1>9, <1>10, <1>11, <1>12, <1>13,
           <2>1, <2>2, <2>4, <2>5, <4>1, <4>2, <4>3, <4>4
    <3>2. CASE UNCHANGED vars
      BY <3>2, <1>14
    <3>3. QED
      BY <3>1, <3>2

\* Every behaviour of the service is, step for step, one AnswerCache allows
\* (service.py:42-132 against the data flow of service.py:3-7).
THEOREM ServiceImplementsCache == Spec => Promise!Init /\ [][Promise!Next]_(Promise!vars)
<1>1. Init => Promise!Init
  BY DEF Init, Promise!Init, PhaseOf
<1>2. QED
  BY <1>1, Simulation, Invariance, LandedInvariance, PTL DEF Spec
=============================================================================
