------------------------------- MODULE Cleanup -------------------------------
(***************************************************************************)
(* The background task of app/cleanup.py: round after round it reads its   *)
(* settings, deletes in batches the questions nobody has hit for ttl_days, *)
(* and trims call_log, while requests hit and store questions and the      *)
(* panel changes the settings.                                             *)
(*                                                                         *)
(* Time is counted in days, from day 0.  A sleep of the task takes any     *)
(* amount of time.  A statement of another coroutine waits for seconds at  *)
(* most (busy_timeout and one retry), so it may take effect on the day     *)
(* after it was issued but no later.                                       *)
(*                                                                         *)
(* The database is one connection: what any coroutine writes between an    *)
(* import's BEGIN and its COMMIT belongs to that import's transaction, and *)
(* its ROLLBACK, or the end of the process, takes it back.                 *)
(***************************************************************************)
EXTENDS Integers, FiniteSets

CONSTANTS
  Keys,        \* cache keys
  Requests,    \* requests that hit the cache
  None,        \* no row, no touch() under way
  Null,        \* the JSON null, which PUT /api/settings stores like a number
  Ttls,        \* values of ttl_days, Null perhaps among them
  Batches,     \* values of cleanup_batch_size, Null perhaps among them
  Retention,   \* LOG_RETENTION_SECONDS, in days
  LogDays,     \* the days whose rows of call_log are followed; no row affects another
  MaxDay,      \* bound: the last day
  MaxFaults    \* bound: rounds and imports that fail, and restarts of the process

ASSUME NoneAssumption == None \notin Keys \cup Int

ASSUME NullAssumption == Null \notin Int

ASSUME SettingsAssumption ==
  /\ Ttls \subseteq (Nat \ {0}) \cup {Null}
  /\ Batches \subseteq (Nat \ {0}) \cup {Null}

ASSUME LogDaysAssumption == LogDays \subseteq Nat

ASSUME BoundsAssumption == Retention \in Nat /\ MaxDay \in Nat /\ MaxFaults \in Nat

VARIABLES
  now,       \* the day it is
  hit,       \* questions.last_hit_at of each key, None if there is no row
  calls,     \* the days of LogDays that call_log has rows of
  config,    \* app_config: [ttl, batch]
  touches,   \* the UPDATE of touch() each request has issued: [key, at]
  pc,        \* where the task stands
  ttl,       \* ttl_days of _run_round
  batch,     \* batch_size of _run_round
  cutoff,    \* cutoff of _purge_expired
  restored,  \* rows that a ROLLBACK has changed since the purge of this round ended
  before,    \* the tables as they were at the BEGIN of the open transaction, None if
             \* none is open
  faults

vars == <<now, hit, calls, config, touches, pc, ttl, batch, cutoff, restored,
          before, faults>>

localVars == <<ttl, batch, cutoff, restored>>

Stages == {"asleep", "ttl", "batch", "purge", "pause", "trim", "interval"}

Init ==
  /\ now = 0
  /\ hit = [k \in Keys |-> None]
  /\ calls = {}
  /\ config \in [ttl : Ttls, batch : Batches]
  /\ touches = [r \in Requests |-> None]
  /\ pc = "asleep"
  /\ ttl = Null /\ batch = Null
  /\ cutoff = 0
  /\ restored = {}
  /\ before = None
  /\ faults = 0

-----------------------------------------------------------------------------
(* The task                                                                 *)

Enter(stage) == pc' = stage

\* The round returns, or its except clause does; its local variables are gone.
EndRound ==
  /\ Enter("asleep")
  /\ ttl' = Null /\ batch' = Null /\ cutoff' = 0 /\ restored' = {}

\* asyncio.sleep of the initial delay or of the interval ends.
Wake ==
  /\ pc = "asleep"
  /\ Enter("ttl")
  /\ UNCHANGED <<now, hit, calls, config, touches, localVars, before, faults>>

\* int(await settings_repo.get("ttl_days")); int(None) raises.
ReadTtl ==
  /\ pc = "ttl"
  /\ IF config.ttl = Null
       THEN EndRound
       ELSE Enter("batch") /\ ttl' = config.ttl /\ UNCHANGED <<batch, cutoff, restored>>
  /\ UNCHANGED <<now, hit, calls, config, touches, before, faults>>

\* Mutation of ReadBatch: the cutoff lies in the future.
ReadBatchFlipped ==
  /\ pc = "batch"
  /\ IF config.batch = Null
       THEN EndRound
       ELSE /\ Enter("purge") /\ batch' = config.batch /\ cutoff' = now + ttl
            /\ UNCHANGED <<ttl, restored>>
  /\ UNCHANGED <<now, hit, calls, config, touches, before, faults>>

\* int(await settings_repo.get("cleanup_batch_size")); with both numbers at hand
\* _purge_expired reads the clock, once for the whole purge.
ReadBatch ==
  /\ pc = "batch"
  /\ IF config.batch = Null
       THEN EndRound
       ELSE /\ Enter("purge") /\ batch' = config.batch /\ cutoff' = now - ttl
            /\ UNCHANGED <<ttl, restored>>
  /\ UNCHANGED <<now, hit, calls, config, touches, before, faults>>

Rows == {k \in Keys : hit[k] # None}

\* Mutation of Expired: last_hit_at <= cutoff.
ExpiredInclusive == {k \in Rows : hit[k] <= cutoff}

Expired == {k \in Rows : hit[k] < cutoff}

\* The rows one DELETE may pick: the oldest, as many as the batch holds.  Rows of
\* the same age come in any order.
Victims ==
  {some \in SUBSET Expired :
     /\ Cardinality(some) <= batch
     /\ some # Expired => Cardinality(some) = batch
     /\ \A k \in some, l \in Expired \ some : hit[k] <= hit[l]}

\* Mutation of PurgeBatch: a full batch ends the purge.
PurgeOnce ==
  /\ pc = "purge"
  /\ \E victims \in Victims :
       /\ hit' = [k \in Keys |-> IF k \in victims THEN None ELSE hit[k]]
       /\ Enter("trim")
  /\ UNCHANGED <<now, calls, config, touches, localVars, before, faults>>

\* Mutation of PurgeBatch: the comparison that ends the purge is the wrong way round.
PurgeForever ==
  /\ pc = "purge"
  /\ \E victims \in Victims :
       /\ hit' = [k \in Keys |-> IF k \in victims THEN None ELSE hit[k]]
       /\ Enter(IF Cardinality(victims) > batch THEN "trim" ELSE "pause")
  /\ UNCHANGED <<now, calls, config, touches, localVars, before, faults>>

PurgeBatch ==
  /\ pc = "purge"
  /\ \E victims \in Victims :
       /\ hit' = [k \in Keys |-> IF k \in victims THEN None ELSE hit[k]]
       /\ Enter(IF Cardinality(victims) < batch THEN "trim" ELSE "pause")
  /\ UNCHANGED <<now, calls, config, touches, localVars, before, faults>>

\* The pause of BATCH_PAUSE_SECONDS between two batches ends.
Resume ==
  /\ pc = "pause"
  /\ Enter("purge")
  /\ UNCHANGED <<now, hit, calls, config, touches, localVars, before, faults>>

TrimCallLog ==
  /\ pc = "trim"
  /\ calls' = {d \in calls : d >= now - Retention}
  /\ Enter("interval")
  /\ UNCHANGED <<now, hit, config, touches, localVars, before, faults>>

\* The interval is read; null or not, some interval is slept.
ReadInterval ==
  /\ pc = "interval"
  /\ EndRound
  /\ UNCHANGED <<now, hit, calls, config, touches, before, faults>>

\* Mutation of RoundFails: nothing catches it, the task is dead.
RoundFailsForGood ==
  /\ pc \notin {"asleep", "pause"}
  /\ faults < MaxFaults
  /\ faults' = faults + 1
  /\ Enter("dead")
  /\ UNCHANGED <<now, hit, calls, config, touches, localVars, before>>

\* A statement of the round raises: _run_round catches it, the round is over.
RoundFails ==
  /\ pc \notin {"asleep", "pause"}
  /\ faults < MaxFaults
  /\ faults' = faults + 1
  /\ EndRound
  /\ UNCHANGED <<now, hit, calls, config, touches, before>>

CleanupStep ==
  \/ Wake \/ ReadTtl \/ ReadBatch \/ PurgeBatch \/ Resume \/ TrimCallLog \/ ReadInterval

-----------------------------------------------------------------------------
(* Everybody else                                                           *)

\* An answer is stored, by AnswerService or by an import.
Store(k) ==
  /\ hit[k] = None
  /\ hit' = [hit EXCEPT ![k] = now]
  /\ UNCHANGED <<now, calls, config, touches, pc, localVars, before, faults>>

\* A request has read the row: it issues the INSERT of log_call and touch(), which
\* takes the time before its statement runs.
Hit(r, k) ==
  /\ hit[k] # None
  /\ touches[r] = None
  /\ touches' = [touches EXCEPT ![r] = [key |-> k, at |-> now]]
  /\ calls' = calls \cup ({now} \cap LogDays)
  /\ UNCHANGED <<now, hit, config, pc, localVars, before, faults>>

\* The UPDATE of touch(): it finds the row, or the row has gone meanwhile.
Touch(r) ==
  /\ touches[r] # None
  /\ LET k == touches[r].key IN
       hit' = [hit EXCEPT ![k] = IF @ = None THEN None ELSE touches[r].at]
  /\ touches' = [touches EXCEPT ![r] = None]
  /\ UNCHANGED <<now, calls, config, pc, localVars, before, faults>>

\* The panel deletes the row.
Delete(k) ==
  /\ hit[k] # None
  /\ hit' = [hit EXCEPT ![k] = None]
  /\ UNCHANGED <<now, calls, config, touches, pc, localVars, before, faults>>

\* PUT /api/settings, one upsert.
PutTtl(t) ==
  /\ config' = [config EXCEPT !.ttl = t]
  /\ UNCHANGED <<now, hit, calls, touches, pc, localVars, before, faults>>

PutBatch(n) ==
  /\ config' = [config EXCEPT !.batch = n]
  /\ UNCHANGED <<now, hit, calls, touches, pc, localVars, before, faults>>

\* Nobody's statements since the BEGIN have been.
PutBack == hit' = before.hit /\ calls' = before.calls /\ config' = before.config

\* The server stops and starts again: a new task, no requests, and what an import had not
\* committed is gone.
Restart ==
  /\ faults < MaxFaults
  /\ faults' = faults + 1
  /\ EndRound
  /\ touches' = [r \in Requests |-> None]
  /\ \/ before = None /\ UNCHANGED <<hit, calls, config>>
     \/ before # None /\ PutBack
  /\ before' = None
  /\ UNCHANGED now

\* An import's transaction; a second BEGIN raises.  One that nothing can undo any more
\* makes no difference to what the others write.
BeginImport ==
  /\ before = None
  /\ faults < MaxFaults
  /\ before' = [hit |-> hit, calls |-> calls, config |-> config]
  /\ UNCHANGED <<now, hit, calls, config, touches, pc, localVars, faults>>

CommitImport ==
  /\ before # None
  /\ before' = None
  /\ UNCHANGED <<now, hit, calls, config, touches, pc, localVars, faults>>

\* The import fails, or SQLite ends its transaction.
RollbackImport ==
  /\ before # None
  /\ faults < MaxFaults
  /\ faults' = faults + 1
  /\ PutBack
  /\ before' = None
  /\ restored' = IF pc \in {"trim", "interval"}
                   THEN restored \cup {k \in Keys : before.hit[k] # hit[k]}
                   ELSE restored
  /\ UNCHANGED <<now, touches, pc, ttl, batch, cutoff>>

\* Midnight; statements issued the day before yesterday have run.
Midnight ==
  /\ now < MaxDay
  /\ \A r \in Requests : touches[r] # None => touches[r].at = now
  /\ now' = now + 1
  /\ UNCHANGED <<hit, calls, config, touches, pc, localVars, before, faults>>

Next ==
  \/ CleanupStep \/ RoundFails
  \/ \E k \in Keys : Store(k) \/ Delete(k) \/ \E r \in Requests : Hit(r, k)
  \/ \E r \in Requests : Touch(r)
  \/ \E t \in Ttls : PutTtl(t)
  \/ \E n \in Batches : PutBatch(n)
  \/ BeginImport \/ CommitImport \/ RollbackImport
  \/ Restart \/ Midnight

Spec == Init /\ [][Next]_vars

\* Sleeps end and the worker thread runs the statements of the task.
FairSpec == Spec /\ WF_vars(CleanupStep)

-----------------------------------------------------------------------------
(* Properties                                                               *)

Days == 0..MaxDay

\* A cutoff lies ttl_days in the past of some day; 0 is none.
Cutoffs == {0} \cup {d - t : d \in Days, t \in Ttls \ {Null}}

TypeOK ==
  /\ now \in Days
  /\ hit \in [Keys -> Days \cup {None}]
  /\ calls \subseteq Days
  /\ config \in [ttl : Ttls, batch : Batches]
  /\ touches \in [Requests -> [key : Keys, at : Days] \cup {None}]
  /\ pc \in Stages
  /\ ttl \in Ttls \cup {Null}
  /\ batch \in Batches \cup {Null}
  /\ cutoff \in Cutoffs
  /\ restored \subseteq Keys
  /\ before \in [hit : [Keys -> Days \cup {None}], calls : SUBSET Days,
                 config : [ttl : Ttls, batch : Batches]] \cup {None}
  /\ faults \in 0..MaxFaults

\* PurgeSparesRecent: what goes without being deleted by the panel had not been hit
\* for longer than the TTL its round read, however many batches and pauses the purge
\* takes, whatever is hit, stored, deleted or reconfigured meanwhile; but for what was
\* stored since the BEGIN of an import that then fails (cleanup.py:54-61, db.py:155-157).
PurgeSparesRecent ==
  [][\A k \in Rows : hit'[k] = None =>
       \/ Delete(k)
       \/ (RollbackImport \/ Restart) /\ before.hit[k] = None
       \/ hit[k] < now - ttl]_vars

\* PurgeComplete: once a purge has ended by itself nothing that was older than its
\* cutoff is left, and nothing older comes back, except by the ROLLBACK of an import
\* that had its transaction open during the purge: no touch() of an earlier day takes a
\* row behind the cutoff again (cleanup.py:58-60, questions.py:51-56, db.py:155-157).
PurgeComplete == pc \in {"trim", "interval"} => Expired \subseteq restored

\* RoundsEnd: every round ends, so a full batch, a stream of hits, a failure or the
\* ROLLBACK of an import that brings a batch back never keeps the task in one round for
\* ever, as long as imports do not fail for ever (cleanup.py:41-61).
RoundsEnd == (pc # "asleep") ~> (pc = "asleep")

\* The settings are numbers.
Configured == config.ttl # Null /\ config.batch # Null

Overdue(k) == hit[k] # None /\ config.ttl # Null /\ hit[k] < now - config.ttl

\* ExpiredGoes: a question past its TTL is deleted or hit again, and so is a row of
\* call_log past its retention, through failed rounds, restarts and changes of the
\* settings, if these are numbers in the end (cleanup.py:5-6: a failed round is made
\* up for by the next one).
ExpiredGoes ==
  <>[]Configured =>
    /\ \A k \in Keys : Overdue(k) ~> ~Overdue(k)
    /\ (\E d \in calls : d < now - Retention) ~> (\A d \in calls : d >= now - Retention)
=============================================================================
