---------------------------- MODULE AnswerService ----------------------------
(***************************************************************************)
(* The query path of app/answer/service.py: look a question up in the      *)
(* cache, answer a hit from the row, otherwise share one LLM call among    *)
(* every request for the same cache key, and store what could be parsed.   *)
(*                                                                         *)
(* The program is one asyncio event loop: code between two awaits runs     *)
(* without interruption, every await lets any other coroutine run.  Each   *)
(* action below is such a stretch of code, or one SQL statement taking     *)
(* effect in the connection's worker thread.  A SELECT hands its row over  *)
(* before the coroutine that asked for it runs again (query_one: execute,  *)
(* fetchone and close are three round trips to the worker), so a row read  *)
(* may be stale when it is used.                                           *)
(*                                                                         *)
(* A background task is created by exactly one request and each request    *)
(* creates at most one, so a task is named after the request that created  *)
(* it.  A counter of stats_daily is represented by the set of its          *)
(* increments (`counted'), whose cardinality is the value of the column.   *)
(***************************************************************************)
EXTENDS Naturals, FiniteSets

CONSTANTS
  Queries,      \* requests to /api/query
  Keys,         \* cache keys: MD5 of title, type and options
  Answers,      \* answer contents that parse_llm_reply can return
  None,         \* no row, no task, no outcome
  MaxDay,       \* days the clock may reach
  Imported,     \* answers an import may write
  Raising,      \* statements that may raise (BUSY after the retry, full disk)
  Evictions,    \* whether rows may be deleted (panel, TTL cleanup)
  MaxImports    \* transactions that imports may begin

\* Why a query has no answer: QueryOutcome.kind of a failed outcome, or "error"
\* for an exception (a statement raised), which /api/query renders as code 0.
Failures == {"llm-fail", "parse-fail", "error"}

Outcomes == Answers \cup Failures

ASSUME NoneAssumption == None \notin Queries \cup Keys \cup Outcomes

ASSUME AnswersAssumption == Answers \cap Failures = {}

ASSUME ImportedAssumption == Imported \subseteq Answers

ASSUME DaysAssumption == MaxDay \in Nat \ {0}

\* The SELECT, the writes of the statistics and of touch(), the INSERT.
ASSUME RaisingAssumption == Raising \subseteq {"select", "stats", "insert"}

ASSUME EvictionsAssumption == Evictions \in BOOLEAN

ASSUME ImportsAssumption == MaxImports \in Nat

Days == 1..MaxDay

\* Columns of stats_daily that count calls.
Fields == {"cache_hits", "cache_misses", "llm_calls", "llm_failures"}

\* call_log.kind
Kinds == {"hit", "miss", "llm-fail", "parse-fail"}

\* The statements that an asyncio.gather of this module runs side by side.
Writes == {"bump", "log", "touch"}

VARIABLES
  table,      \* questions: the stored answer of each key
  today,      \* the server's date
  inflight,   \* AnswerService._inflight: the task registered for each key
  pc,         \* where query() of each request stands
  qkey,       \* the cache key of each request
  seen,       \* the row each request's SELECT returned
  joined,     \* the task whose outcome each request awaits
  answer,     \* the outcome each request has returned
  tpc,        \* where _answer_and_cache of each request's task stands
  reply,      \* what the LLM call of each task came to
  verdict,    \* the outcome of each finished task, "error" if it raised
  day,        \* the local variable `day' of _record_hit or _answer_and_cache
  pend,       \* writes the request's or task's gather has not finished
  counted,    \* increments applied to stats_daily
  logged,     \* rows of call_log
  begun,      \* transactions that imports have begun
  open,       \* one of them is open on the connection
  before,     \* the tables as they were at its BEGIN
  undone      \* increments and log rows that a ROLLBACK has taken back

vars == <<table, today, inflight, pc, qkey, seen, joined, answer, tpc, reply,
          verdict, day, pend, counted, logged, begun, open, before, undone>>

queryVars == <<pc, qkey, seen, joined, answer>>
taskVars  == <<tpc, reply, verdict>>
statVars  == <<counted, logged>>
importVars == <<begun, open, before, undone>>

\* Mutation of Count: the date is read when the counter is written.
CountLate(o, f) == [owner |-> o, field |-> f, day |-> today]

Count(o, f) == [owner |-> o, field |-> f, day |-> day[o]]

LogRow(o, k) == [owner |-> o, kind |-> k]

\* Tables without a row.
Blank == [table |-> [k \in Keys |-> None], counted |-> {}, logged |-> {}]

\* A task that has been created and has not finished.
Live(t) == tpc[t] \in {"new", "asking", "recording", "inserting"}

Init ==
  /\ table = [k \in Keys |-> None]
  /\ today = 1
  /\ inflight = [k \in Keys |-> None]
  /\ pc = [q \in Queries |-> "idle"]
  /\ qkey = [q \in Queries |-> None]
  /\ seen = [q \in Queries |-> None]
  /\ joined = [q \in Queries |-> None]
  /\ answer = [q \in Queries |-> None]
  /\ tpc = [q \in Queries |-> "none"]
  /\ reply = [q \in Queries |-> None]
  /\ verdict = [q \in Queries |-> None]
  /\ day = [q \in Queries |-> 1]
  /\ pend = [q \in Queries |-> {}]
  /\ counted = {}
  /\ logged = {}
  /\ begun = 0
  /\ open = FALSE
  /\ before = Blank
  /\ undone = [counted |-> {}, logged |-> {}]

-----------------------------------------------------------------------------
(* query(): one request                                                    *)

\* The request arrives and the SELECT of get_by_key takes its snapshot.
Lookup(q, k) ==
  /\ pc[q] = "idle"
  /\ pc' = [pc EXCEPT ![q] = "read"]
  /\ qkey' = [qkey EXCEPT ![q] = k]
  /\ seen' = [seen EXCEPT ![q] = table[k]]
  /\ UNCHANGED <<table, today, inflight, joined, answer, taskVars, day, pend, statVars,
                 importVars>>

\* The SELECT raises; nothing in query() catches it.
LookupFails(q, k) ==
  /\ "select" \in Raising
  /\ pc[q] = "idle"
  /\ pc' = [pc EXCEPT ![q] = "done"]
  /\ qkey' = [qkey EXCEPT ![q] = k]
  /\ answer' = [answer EXCEPT ![q] = "error"]
  /\ UNCHANGED <<table, today, inflight, seen, joined, taskVars, day, pend, statVars,
                 importVars>>

\* The SELECT returned a row: _record_hit reads the date and starts its gather.
StartHit(q) ==
  /\ pc[q] = "read"
  /\ seen[q] # None
  /\ pc' = [pc EXCEPT ![q] = "hit"]
  /\ day' = [day EXCEPT ![q] = today]
  /\ pend' = [pend EXCEPT ![q] = {"bump", "log", "touch"}]
  /\ UNCHANGED <<table, today, inflight, qkey, seen, joined, answer, taskVars,
                 statVars, importVars>>

\* The SELECT returned nothing and a task is registered for the key.
Join(q) ==
  /\ pc[q] = "read"
  /\ seen[q] = None
  /\ inflight[qkey[q]] # None
  /\ pc' = [pc EXCEPT ![q] = "waiting"]
  /\ joined' = [joined EXCEPT ![q] = inflight[qkey[q]]]
  /\ UNCHANGED <<table, today, inflight, qkey, seen, answer, taskVars, day, pend,
                 statVars, importVars>>

\* Mutation of Launch: the registry is not consulted.
LaunchUnchecked(q) ==
  /\ pc[q] = "read"
  /\ seen[q] = None
  /\ pc' = [pc EXCEPT ![q] = "waiting"]
  /\ joined' = [joined EXCEPT ![q] = q]
  /\ tpc' = [tpc EXCEPT ![q] = "new"]
  /\ day' = [day EXCEPT ![q] = today]
  /\ inflight' = [inflight EXCEPT ![qkey[q]] = q]
  /\ UNCHANGED <<table, today, qkey, seen, answer, reply, verdict, pend, statVars, importVars>>

\* The SELECT returned nothing and no task is registered: create one, register
\* it and await it.  Its first step, which only reads the date, is included.
Launch(q) ==
  /\ pc[q] = "read"
  /\ seen[q] = None
  /\ inflight[qkey[q]] = None
  /\ pc' = [pc EXCEPT ![q] = "waiting"]
  /\ joined' = [joined EXCEPT ![q] = q]
  /\ tpc' = [tpc EXCEPT ![q] = "new"]
  /\ day' = [day EXCEPT ![q] = today]
  /\ inflight' = [inflight EXCEPT ![qkey[q]] = q]
  /\ UNCHANGED <<table, today, qkey, seen, answer, reply, verdict, pend, statVars, importVars>>

\* The gather of _record_hit has finished: answer from the row that was read.
ReturnHit(q) ==
  /\ pc[q] = "hit"
  /\ pend[q] = {}
  /\ pc' = [pc EXCEPT ![q] = "done"]
  /\ answer' = [answer EXCEPT ![q] = seen[q]]
  /\ UNCHANGED <<table, today, inflight, qkey, seen, joined, taskVars, day, pend,
                 statVars, importVars>>

\* One write of _record_hit's gather raises: the exception is logged and the
\* answer returned; the other writes run on.
HitWriteFails(q, w) ==
  /\ "stats" \in Raising
  /\ pc[q] = "hit"
  /\ w \in pend[q]
  /\ pend' = [pend EXCEPT ![q] = @ \ {w}]
  /\ pc' = [pc EXCEPT ![q] = "done"]
  /\ answer' = [answer EXCEPT ![q] = seen[q]]
  /\ UNCHANGED <<table, today, inflight, qkey, seen, joined, taskVars, day, statVars,
                 importVars>>

\* Mutation of Return: the task is looked for in the registry again.
ReturnRegistered(q) ==
  /\ pc[q] = "waiting"
  /\ tpc[joined[q]] = "finished"
  /\ pc' = [pc EXCEPT ![q] = "done"]
  /\ answer' = [answer EXCEPT ![q] = verdict[joined[q]]]
  /\ UNCHANGED <<table, today, inflight, qkey, seen, joined, taskVars, day, pend,
                 statVars, importVars>>

\* The awaited task has finished: return its outcome, or raise its exception.
Return(q) ==
  /\ pc[q] = "waiting"
  /\ tpc[joined[q]] \in {"finished", "retired"}
  /\ pc' = [pc EXCEPT ![q] = "done"]
  /\ answer' = [answer EXCEPT ![q] = verdict[joined[q]]]
  /\ UNCHANGED <<table, today, inflight, qkey, seen, joined, taskVars, day, pend,
                 statVars, importVars>>

\* Mutation of Cancel: the registry entry is removed in a finally of query().
CancelUnregisters(q) ==
  /\ pc[q] \in {"read", "waiting"}
  /\ pc' = [pc EXCEPT ![q] = "gone"]
  /\ inflight' = [inflight EXCEPT ![qkey[q]] = None]
  /\ UNCHANGED <<table, today, qkey, seen, joined, answer, taskVars, day, pend,
                 statVars, importVars>>

\* Mutation of Cancel: without asyncio.shield the task is cancelled as well.
CancelUnshielded(q) ==
  /\ pc[q] \in {"read", "waiting"}
  /\ pc' = [pc EXCEPT ![q] = "gone"]
  /\ tpc' = [t \in Queries |-> IF t = joined[q] /\ Live(t) THEN "finished" ELSE tpc[t]]
  /\ UNCHANGED <<table, today, inflight, qkey, seen, joined, answer, reply, verdict, day,
                 pend, statVars, importVars>>

\* The caller gives up.  asyncio.shield keeps the cancellation from the task;
\* the writes of a cancelled gather may already be queued, or never run.
Cancel(q) ==
  /\ pc[q] \in {"read", "hit", "waiting"}
  /\ pc' = [pc EXCEPT ![q] = "gone"]
  /\ \E left \in SUBSET pend[q] :
       /\ pc[q] # "hit" => left = pend[q]
       /\ pend' = [pend EXCEPT ![q] = left]
  /\ UNCHANGED <<table, today, inflight, qkey, seen, joined, answer, taskVars, day,
                 statVars, importVars>>

-----------------------------------------------------------------------------
(* _answer_and_cache(): the task created by request t                      *)

Finish(t, v) ==
  /\ tpc' = [tpc EXCEPT ![t] = "finished"]
  /\ verdict' = [verdict EXCEPT ![t] = v]

\* bump_daily(cache_misses=1), then the call to the LLM starts.
CountMiss(t) ==
  /\ tpc[t] = "new"
  /\ counted' = counted \cup {Count(t, "cache_misses")}
  /\ tpc' = [tpc EXCEPT ![t] = "asking"]
  /\ UNCHANGED <<table, today, inflight, queryVars, reply, verdict, day, pend, logged,
                 importVars>>

\* The same statement raises: the task ends before it asks.
CountMissFails(t) ==
  /\ "stats" \in Raising
  /\ tpc[t] = "new"
  /\ Finish(t, "error")
  /\ UNCHANGED <<table, today, inflight, queryVars, reply, day, pend, statVars, importVars>>

\* The LLM replies with something parse_llm_reply accepts or rejects, or every
\* provider fails; in each case a gather of two statistics writes starts.
Reply(t, r) ==
  /\ tpc[t] = "asking"
  /\ reply' = [reply EXCEPT ![t] = r]
  /\ tpc' = [tpc EXCEPT ![t] = "recording"]
  /\ pend' = [pend EXCEPT ![t] = {"bump", "log"}]
  /\ UNCHANGED <<table, today, inflight, queryVars, verdict, day, statVars, importVars>>

\* Mutation of StartInsert: whatever the LLM said is stored.
StartInsertAnything(t) ==
  /\ tpc[t] = "recording"
  /\ pend[t] = {}
  /\ tpc' = [tpc EXCEPT ![t] = "inserting"]
  /\ UNCHANGED <<table, today, inflight, queryVars, reply, verdict, day, pend,
                 statVars, importVars>>

\* Mutation of StartInsert: the statistics are not awaited.
StartInsertAtOnce(t) ==
  /\ tpc[t] = "recording"
  /\ reply[t] \in Answers
  /\ tpc' = [tpc EXCEPT ![t] = "inserting"]
  /\ UNCHANGED <<table, today, inflight, queryVars, reply, verdict, day, pend,
                 statVars, importVars>>

\* The gather has finished and there is an answer to store.
StartInsert(t) ==
  /\ tpc[t] = "recording"
  /\ pend[t] = {}
  /\ reply[t] \in Answers
  /\ tpc' = [tpc EXCEPT ![t] = "inserting"]
  /\ UNCHANGED <<table, today, inflight, queryVars, reply, verdict, day, pend,
                 statVars, importVars>>

\* The gather has finished and there is none: the failure is returned, not stored.
ReturnFailure(t) ==
  /\ tpc[t] = "recording"
  /\ pend[t] = {}
  /\ reply[t] \in Failures
  /\ Finish(t, reply[t])
  /\ UNCHANGED <<table, today, inflight, queryVars, reply, day, pend, statVars, importVars>>

\* A statistics write raises: none of the three gathers is inside a try, so the
\* task ends with the exception and the reply is lost; the other write runs on.
RecordingFails(t, w) ==
  /\ "stats" \in Raising
  /\ tpc[t] = "recording"
  /\ w \in pend[t]
  /\ pend' = [pend EXCEPT ![t] = @ \ {w}]
  /\ Finish(t, "error")
  /\ UNCHANGED <<table, today, inflight, queryVars, reply, day, statVars, importVars>>

\* Mutation of Insert: INSERT OR REPLACE.
InsertReplaces(t) ==
  /\ tpc[t] = "inserting"
  /\ table' = [table EXCEPT ![qkey[t]] = reply[t]]
  /\ Finish(t, reply[t])
  /\ UNCHANGED <<today, inflight, queryVars, reply, day, pend, statVars, importVars>>

\* insert_question: the UNIQUE constraint keeps the first row of a key.
Insert(t) ==
  /\ tpc[t] = "inserting"
  /\ table' = [table EXCEPT ![qkey[t]] = IF @ = None THEN reply[t] ELSE @]
  /\ Finish(t, reply[t])
  /\ UNCHANGED <<today, inflight, queryVars, reply, day, pend, statVars, importVars>>

\* The INSERT raises something else: logged, and the answer returned all the same.
InsertFails(t) ==
  /\ "insert" \in Raising
  /\ tpc[t] = "inserting"
  /\ Finish(t, reply[t])
  /\ UNCHANGED <<table, today, inflight, queryVars, reply, day, pend, statVars, importVars>>

\* Mutation of Retire: a task that raised stays registered.
RetireUnlessRaised(t) ==
  /\ tpc[t] = "finished"
  /\ verdict[t] # "error"
  /\ tpc' = [tpc EXCEPT ![t] = "retired"]
  /\ inflight' = [inflight EXCEPT ![qkey[t]] = None]
  /\ UNCHANGED <<table, today, queryVars, reply, verdict, day, pend, statVars, importVars>>

\* The done callback, which the loop runs some time after the task finished.
Retire(t) ==
  /\ tpc[t] = "finished"
  /\ tpc' = [tpc EXCEPT ![t] = "retired"]
  /\ inflight' = [inflight EXCEPT ![qkey[t]] = None]
  /\ UNCHANGED <<table, today, queryVars, reply, verdict, day, pend, statVars, importVars>>

-----------------------------------------------------------------------------
(* Statistics writes take effect in the worker thread, in any order when    *)
(* one of them is retried.  touch() changes no column modelled here.        *)

BumpedFields(o) ==
  IF tpc[o] = "none"
    THEN {"cache_hits"}
    ELSE {"llm_calls"} \cup {f \in {"llm_failures"} : reply[o] = "llm-fail"}

\* Mutation of LoggedKind: the reply is logged as the kind.
LoggedReply(o) == IF tpc[o] = "none" THEN "hit" ELSE reply[o]

LoggedKind(o) ==
  IF tpc[o] = "none" THEN "hit" ELSE IF reply[o] \in Answers THEN "miss" ELSE reply[o]

Write(o, w) ==
  /\ w \in pend[o]
  /\ pend' = [pend EXCEPT ![o] = @ \ {w}]
  /\ counted' = IF w = "bump" THEN counted \cup {Count(o, f) : f \in BumpedFields(o)}
                              ELSE counted
  /\ logged' = IF w = "log" THEN logged \cup {LogRow(o, LoggedKind(o))} ELSE logged
  /\ UNCHANGED <<table, today, inflight, queryVars, taskVars, day, importVars>>

\* A write that no gather waits for any more raises: asyncio only reports it.
StrayWriteFails(o, w) ==
  /\ "stats" \in Raising
  /\ w \in pend[o]
  /\ pc[o] # "hit" /\ tpc[o] # "recording"
  /\ pend' = [pend EXCEPT ![o] = @ \ {w}]
  /\ UNCHANGED <<table, today, inflight, queryVars, taskVars, day, statVars, importVars>>

-----------------------------------------------------------------------------
(* What the rest of the program does to the same state, on the one         *)
(* connection: whatever is written between an import's BEGIN and its COMMIT *)
(* belongs to its transaction, whoever wrote it.                            *)

\* BEGIN IMMEDIATE; a second one raises.
BeginImport ==
  /\ ~open
  /\ begun < MaxImports
  /\ begun' = begun + 1
  /\ open' = TRUE
  /\ before' = [table |-> table, counted |-> counted, logged |-> logged]
  /\ UNCHANGED <<table, today, inflight, queryVars, taskVars, day, pend, statVars, undone>>

CommitImport ==
  /\ open
  /\ open' = FALSE
  /\ before' = Blank
  /\ UNCHANGED <<table, today, inflight, queryVars, taskVars, day, pend, statVars, begun,
                 undone>>

\* ROLLBACK, by the import or by SQLite itself.
RollbackImport ==
  /\ open
  /\ open' = FALSE
  /\ before' = Blank
  /\ table' = before.table
  /\ counted' = before.counted
  /\ logged' = before.logged
  /\ undone' = [counted |-> undone.counted \cup (counted \ before.counted),
                logged  |-> undone.logged \cup (logged \ before.logged)]
  /\ UNCHANGED <<today, inflight, queryVars, taskVars, day, pend, begun>>

\* upsert_import inserts a key or rewrites its answer, within its transaction, or without
\* one where SQLite has ended it.
Import(k, a) ==
  /\ table' = [table EXCEPT ![k] = a]
  /\ UNCHANGED <<today, inflight, queryVars, taskVars, day, pend, statVars, importVars>>

\* The panel or the TTL cleanup deletes a row.
Evict(k) ==
  /\ Evictions
  /\ table' = [table EXCEPT ![k] = None]
  /\ UNCHANGED <<today, inflight, queryVars, taskVars, day, pend, statVars, importVars>>

\* Midnight.
Midnight ==
  /\ today < MaxDay
  /\ today' = today + 1
  /\ UNCHANGED <<table, inflight, queryVars, taskVars, day, pend, statVars, importVars>>

-----------------------------------------------------------------------------
QueryStep(q) ==
  \/ StartHit(q) \/ Join(q) \/ Launch(q) \/ ReturnHit(q) \/ Return(q)
  \/ \E w \in Writes : HitWriteFails(q, w)

TaskStep(t) ==
  \/ CountMiss(t) \/ CountMissFails(t)
  \/ \E r \in Answers \cup {"llm-fail", "parse-fail"} : Reply(t, r)
  \/ StartInsert(t) \/ ReturnFailure(t)
  \/ \E w \in Writes : RecordingFails(t, w)
  \/ Insert(t) \/ InsertFails(t) \/ Retire(t)

WriteStep(o) == \E w \in Writes : Write(o, w) \/ StrayWriteFails(o, w)

Next ==
  \/ \E q \in Queries :
       \/ \E k \in Keys : Lookup(q, k) \/ LookupFails(q, k)
       \/ QueryStep(q) \/ TaskStep(q) \/ WriteStep(q)
       \/ Cancel(q)
  \/ BeginImport \/ CommitImport \/ RollbackImport
  \/ \E k \in Keys : Evict(k) \/ \E a \in Imported : Import(k, a)
  \/ Midnight

Spec == Init /\ [][Next]_vars

\* The event loop runs every ready coroutine and callback, the worker thread
\* every queued statement, and litellm's timeout ends every call to the LLM.
\* Nothing makes a request arrive, be cancelled, or the clock move.
Fairness ==
  \A q \in Queries : WF_vars(QueryStep(q)) /\ WF_vars(TaskStep(q)) /\ WF_vars(WriteStep(q))

FairSpec == Spec /\ Fairness

-----------------------------------------------------------------------------
(* The service keeps the promise of AnswerCache.  A request that started its *)
(* hit path is still to be answered; a flight is a task, from its creation   *)
(* to its outcome.                                                           *)

PhaseOf == [idle |-> "idle", read |-> "asked", hit |-> "asked",
            waiting |-> "joined", done |-> "answered", gone |-> "gone"]

Promise == INSTANCE AnswerCache WITH phase <- [q \in Queries |-> PhaseOf[pc[q]]]

\* Every behaviour of the service is one AnswerCache allows, and it makes the
\* progress AnswerCache promises: at most one call to the LLM in the air per key,
\* everyone who joined it gets its verdict, failures are not stored.
KeepsPromise == Promise!Spec

-----------------------------------------------------------------------------
(* Properties                                                               *)

Increments == [owner : Queries, field : Fields, day : Days]
LogRows == [owner : Queries, kind : Kinds]

TypeOK ==
  /\ table \in [Keys -> Answers \cup {None}]
  /\ today \in Days
  /\ inflight \in [Keys -> Queries \cup {None}]
  /\ pc \in [Queries -> {"idle", "read", "hit", "waiting", "done", "gone"}]
  /\ qkey \in [Queries -> Keys \cup {None}]
  /\ seen \in [Queries -> Answers \cup {None}]
  /\ joined \in [Queries -> Queries \cup {None}]
  /\ answer \in [Queries -> Outcomes \cup {None}]
  /\ tpc \in [Queries -> {"none", "new", "asking", "recording", "inserting",
                          "finished", "retired"}]
  /\ reply \in [Queries -> Answers \cup {"llm-fail", "parse-fail", None}]
  /\ verdict \in [Queries -> Outcomes \cup {None}]
  /\ day \in [Queries -> Days]
  /\ pend \in [Queries -> SUBSET Writes]
  /\ counted \subseteq Increments
  /\ logged \subseteq LogRows
  /\ begun \in 0..MaxImports
  /\ open \in BOOLEAN
  /\ before \in [table : [Keys -> Answers \cup {None}], counted : SUBSET Increments,
                 logged : SUBSET LogRows]
  /\ undone \in [counted : SUBSET Increments, logged : SUBSET LogRows]

\* SingleFlight: two tasks never work on the same key at the same time, so
\* however requests, callbacks and stale reads interleave, the LLM is asked at
\* most once at a time for a question (service.py:53-57).
SingleFlight ==
  \A s, t \in Queries : Live(s) /\ Live(t) /\ qkey[s] = qkey[t] => s = t

\* RegistryExact: the in-flight table holds exactly the tasks whose done
\* callback has not run.  No callback removes the entry of a newer task, and no
\* entry outlives its task (service.py:56-57; a failed task is removed too).
RegistryExact ==
  /\ \A t \in Queries : tpc[t] \notin {"none", "retired"} => inflight[qkey[t]] = t
  /\ \A k \in Keys : inflight[k] # None =>
       /\ qkey[inflight[k]] = k
       /\ tpc[inflight[k]] \notin {"none", "retired"}

\* Answers that were legitimately obtained for key k: imported, or parsed from
\* the reply to a call made for k.
Obtained(k) == Imported \cup {a \in Answers : \E t \in Queries : qkey[t] = k /\ reply[t] = a}

\* GroundedAnswers: what is stored under a key, and what a request is told, was
\* obtained for that very key.  A failure is never stored, and neither sharing a
\* task nor answering from a row read earlier crosses keys (service.py:3-6).
GroundedAnswers ==
  /\ \A k \in Keys : table[k] \in Obtained(k) \cup {None}
  /\ \A q \in Queries : answer[q] \in Obtained(qkey[q]) \cup Failures \cup {None}

\* What has been written, whether or not a ROLLBACK has taken it back.
EverCounted == counted \cup undone.counted
EverLogged  == logged \cup undone.logged

\* The value of a stats_daily column on a day, where these increments are applied.
Column(increments, f, d) == Cardinality({c \in increments : c.field = f /\ c.day = d})

\* LedgerOrdered: on every day, failures <= LLM calls, and LLM calls <= cache misses, those
\* included that an import's ROLLBACK has taken back, across midnight, concurrent tasks and
\* failed writes: a call and its failure are one statement, the day is read once per task
\* and the miss is counted before the call (service.py:81-117).  Without the exception it
\* does not hold: the ROLLBACK may undo a miss and leave the call counted after it.
LedgerOrdered ==
  \A d \in Days :
    /\ Column(counted, "llm_failures", d) <= Column(counted, "llm_calls", d)
    /\ Column(counted, "llm_calls", d) <= Column(EverCounted, "cache_misses", d)

\* RecordedBeforeAnswered: when a task has an outcome other than an exception,
\* its call was counted in stats_daily and logged in call_log with the matching kind, so
\* the panel shows every call a request is answered by, but for those that an import's
\* ROLLBACK has taken back (service.py:88-117, db.py:155-157).
RecordedBeforeAnswered ==
  \A t \in Queries : verdict[t] \in Outcomes \ {"error"} =>
    /\ {Count(t, "cache_misses"), Count(t, "llm_calls")} \subseteq EverCounted
    /\ (verdict[t] = "llm-fail") <=> (Count(t, "llm_failures") \in EverCounted)
    /\ LogRow(t, IF verdict[t] \in Answers THEN "miss" ELSE verdict[t]) \in EverLogged

\* FirstAnswerWins: once a key is stored its answer changes only by an import, or back to
\* what it was when the import began by that import's ROLLBACK; a task that finishes after
\* another one stored the key leaves the row alone (insert_question, questions.py:42-48).
FirstAnswerWins ==
  [][\A k \in Keys : table[k] # None /\ table'[k] \notin {table[k], None}
                       => RollbackImport \/ \E a \in Imported : Import(k, a)]_vars

\* EveryRequestEnds: a request that arrived is answered or was cancelled, also
\* when the task it awaits fails or the writes of its gather do.
EveryRequestEnds ==
  \A q \in Queries : (pc[q] # "idle") ~> (pc[q] \in {"done", "gone"})

\* RegistryDrains: every entry of the in-flight table is eventually removed, so a
\* failed question can be asked again (design.md:407).
RegistryDrains ==
  \A k \in Keys, t \in Queries : (inflight[k] = t) ~> (inflight[k] # t)

\* OrphanStored: an accepted reply reaches the cache although every request that
\* waited for it has given up (service.py:58, design.md:399).  It holds when the
\* INSERT does not raise; a statistics write that raises still ends the task.
OrphanStored ==
  \A t \in Queries, k \in Keys :
    (qkey[t] = k /\ Live(t) /\ reply[t] \in Answers) ~> (table[k] # None \/ verdict[t] = "error")
=============================================================================
