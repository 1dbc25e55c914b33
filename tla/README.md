# Specifications of ocs-local-tiku

TLA+ specifications of the question cache in `src/app`: a FastAPI service that answers quiz
questions from an SQLite table and asks an LLM for the ones it does not know. The modules are
model-checked with TLC on small instances; every safety property the passing runs check is proved
for every instance with TLAPS.

## The system

One process, one asyncio event loop, one aiosqlite connection. Three facts shape every module:

* Code between two `await`s runs alone. Every `await` lets any other coroutine run.
* The connection has one worker thread that runs statements one after the other. The statements of
  one `asyncio.gather`, and of different coroutines, reach it in any order (a statement that meets a
  lock is retried later), and the result of a SELECT is a snapshot that may be stale when the
  coroutine uses it (`query_one` is three round trips).
* An import opens its transaction on that same connection (`db.py:149-157`). Whatever any coroutine
  writes between its BEGIN and its COMMIT, and whatever it reads of the import's rows, belongs to the
  import's transaction: its ROLLBACK, SQLite's own on a full disk, or a kill takes all of it back,
  answers, log rows, counters, deletions and the ids of AUTOINCREMENT (`sqlite_sequence`) alike.

| Component | State | Operations | Talks to | What is hard | Correct means |
|---|---|---|---|---|---|
| Answer service `answer/service.py` | `_inflight`, the tasks | `query`, `_record_hit`, `_answer_and_cache`, done callback | questions, statistics, LLM | stale reads, callback after the end of a task, cancelled waiters, a gather of which one write fails, midnight | one call per question at a time, answers grounded, nothing told before it is recorded, everyone answered |
| Connection, import `db.py`, `repository/questions.py`, `api/import_api.py` | the open transaction, the tables | `extract_import_items`, `transaction`, `upsert_import`, `_run_import`, single statements | everybody | one connection shared by all: others' writes join a transaction; crash; second BEGIN; SQLite's own rollback on a full disk | one owner per transaction, failed chunks leave nothing, a good import is complete, a loss is reported |
| Migration `db.py` | schema, `user_version` | `connect`, `_migrate` | file | kill between two statements, other releases | version never ahead of the schema, restart works |
| TTL cleanup `cleanup.py` | locals of a round | `_run_round`, `_purge_expired`, `_trim_call_log` | questions, call_log, settings | batches with pauses, settings changed during a round, failures | deletes only what is expired, all of it, rounds end |
| Settings `repository/settings.py`, `api/admin_settings.py` | `app_config` | `get`, `put` | cleanup, router | null values, half-written updates | readers can use what is accepted |
| Providers `repository/providers.py`, `api/admin_providers.py` | `providers` | create, reorder, update, delete, enable | router | multi-statement handlers racing | priorities are the order asked for |
| Router `llm/router_manager.py`, `llm/usage_tracker.py` | the litellm Router | `rebuild`, `ask`, callbacks | providers, settings, statistics | two rebuilds racing, failing rebuild, attribution | the router follows the database |
| Statistics `repository/stats.py`, status page `api/admin_providers.py` | `stats_daily`, `provider_stats_daily`, `call_log` | counters, log, queries | all | writes out of order or failing; events logged after edits, rebuilds and midnight | counters consistent, each attempt counted once, for the provider that was called |
| Parsing and mapping `answer/parse.py`, `normalize.py` | none | reply to content, content to letters, cache key | answer service | reordered options, separators in options, wrappers, words that look like markers or refusals | same option whatever the order and the wrapping |
| Startup and shutdown `main.py` | the tasks | `lifespan` | all | closing under running tasks | |
| Panel `static/app.js`, `api/admin_cache.py` | page, rows on screen, selection | load, search, turn, select, delete | question repository | responses out of order, rows that change under the page | what is deleted was confirmed, no row is skipped |

Query API, token check, prompt, fake LLM, health endpoint and the vendored Alpine library have no
state of their own or no control worth a model.

## Modules

| Module | Models | Run by |
|---|---|---|
| `AnswerCache` | what a caller of `/api/query` may rely on (abstract) | `KeepsPromise` |
| `AnswerService` | the query path | `MCAnswerService`, two cfgs |
| `AnswerServiceProof` | theorems about it, and that it implements `AnswerCache` | TLAPS |
| `AnswerMapping` | cache key, parsing of a reply, letters | `MCAnswerMapping`, two cfgs |
| `AnswerMappingProof` | theorems about it | TLAPS |
| `ImportTransaction` | shared connection, transaction, upload and import | `MCImportTransaction` |
| `ImportTransactionProof` | theorems about it | TLAPS |
| `Migration` | opening the file | `MCMigration`, two cfgs |
| `MigrationProof` | theorems about it | TLAPS |
| `Cleanup` | the TTL task | `MCCleanup` |
| `CleanupProof` | theorems about it | TLAPS |
| `Providers` | provider list, router settings, the router's rebuild | `MCProviders`, two cfgs |
| `ProvidersProof` | theorems about it | TLAPS |
| `Statistics` | calls of the router, the tracker's callbacks, counters per provider, status page | `MCStatistics` |
| `StatisticsProof` | theorems about it | TLAPS |
| `Panel` | the cache tab of the web panel on `/api/cache` | `MCPanel` |
| `PanelProof` | theorems about it | TLAPS |

The modules share tables, not variables. Where one writes what another reads, the writer appears in
the other as an action that may happen at any time: `Import`, `Evict` in `AnswerService`, `Hit`,
`Touch`, `PutTtl` in `Cleanup`, `WriteAnswer`, `Delete` in `ImportTransaction`, `Insert`, `Purge` in
`Panel`, `Change`, `Rebuild` in `Statistics`. An import's transaction is `BeginImport`, `CommitImport`
and `RollbackImport` in `AnswerService`, `Cleanup` and `Panel`: at the BEGIN the tables of the module
are kept in `before`, a ROLLBACK puts them back, and the coroutines, whose local state it does not
touch, go on. `ImportTransaction` has the import itself. `AnswerMapping` needs no such actions (a
ROLLBACK there would put back a row it has had, or none, which an eviction and an import do too), and
`Statistics` and `Providers` leave it out, see there.

Definitions whose comment begins with *Mutation of* are not part of the model. Each is a variant of
a neighbouring definition with a plausible mistake; substituted for it, it breaks the property
`PROJECT.json` pairs it with. They show that the properties depend on the code.

### AnswerService

A request goes `idle -> read -> hit | waiting -> done`, or is `gone` when the caller gives up. Its
SELECT (`Lookup`) and the code that uses the row (`StartHit`, `Join`, `Launch`) are two actions, so
the row read may be stale. A task is named after the request that created it and goes
`new -> asking -> recording -> inserting -> finished -> retired`; `Retire` is the done callback that
pops the registry, apart from the end of the task. `pend` holds the statements of a gather that have
not taken effect: they run in any order (`Write`), one that raises ends the gather's owner
(`HitWriteFails` is caught, `RecordingFails` is not) while the others run on, and cancelling a
request in its hit path leaves any subset of them queued. The row counters of `stats_daily` are sets
of increments, so the value of a column is a cardinality; this keeps apart who incremented it, which
the properties need. `Import` and `Evict` are what the import, the panel and the cleanup do to the
table; `Midnight` moves the date. `RollbackImport` takes back what the table, the counters and the log
have got since the BEGIN, and `undone` remembers it: `LedgerOrdered` and `RecordedBeforeAnswered`
speak of what was ever counted and logged where the code can promise no more. Without that TLC finds
both violated: a miss counted inside the transaction is undone and the call counted after it stays.

Abstracted: contents are members of `Answers`; tokens, latency and the LLM are a reply, a failure or
an unparsable text; a waiter may be resumed before the callback as well as after it (a request that
joins a finished task is resumed at once); `_log_collision` only logs.

Implements `AnswerCache` with the mapping `phase = PhaseOf[pc]`, everything else being the variable
of the same name: a request looks once, answers from what it saw or joins the only flight in the
air; a flight lands once, may store an answer where none is stored, and never stores a failure.

### AnswerMapping

One question of any type that comes again and again, its options in any order, labelled or not, or
left out where they are no part of it. A text is what the functions of `parse.py` and `normalize.py`
tell apart: a list marker, a label, a sign, and a word. A sign belongs to the text and looks like a
list marker (the "-" of -5, the "1." of 1.5) or like the prefix of an answer (in Chinese it may begin
a word). A word may hold separators, be letters of options, be an alias of a judgement, or contain a
phrase of refusal. A reply is texts in wrappers. A fence may share its line with what it holds
(`inline`): `[\w-]*` of `FENCE_RE` (parse.py:36), meant for the name of a language, then takes the first run of word
characters and hyphens, so "```北京#上海```" comes out as "#上海". `Eaten` says what that does to the
wrappers inside (of "答案：" the colon is left, which nothing strips any more), `Bites` what may be left
of the first text: all of it, the text without its marker, label or sign, with `Bitten` for its word,
or nothing. `cut` marks the answers that came out other than after a fence in a line of its own
(`InLines`). `StripWrappers`, `IsRefusal`, `Judged`, `OptionKey`,
`CacheKey`, `Pieces`, `MatchPiece`, `Content` and `Response` are the functions of `parse.py` and
`normalize.py` on such texts; a letter is a position. Around them are the requests that hit, launch
or join, with the options each one sent, and the task with the options of the request that created
it. `meant` is what the writer of an answer meant: `Written` gives every text that means some
options, in any order and manner. What a letter means is not defined where an option is itself a
letter, so such answers are left out there (`Understood`).

Left out: several answers to a single choice, option lists that are split wrongly, collisions of
MD5, replies longer than the 60 characters a refusal may have. A letter of an imported answer has no
defined order, so imports write texts.

### ImportTransaction

`rows` is the tables the connection sees, `stored` what is committed, `tx` the import whose BEGIN is
open. `Apply` is any statement: outside a transaction it commits by itself, inside it does not,
whoever issues it. An upload is a body or the .json entries of a file, each readable or `Broken`;
`Accept` and `Refuse` decide before anything is written. An import then goes item by item (`Skip`,
`InsertItem`, `Conflict` then `UpdateItem`, two statements) and chunk by chunk, and ends with its
row of `call_log`. `BeginFails` is a BEGIN that raises, because of the transaction of another import or a
lock or an I/O error (it does not go through `_run` and is not retried); it is outside the try of
`transaction()` and so rolls nothing back. `Interrupted` is an UPDATE or COMMIT that raises; an
INSERT that raises is skipped, as in the code. `Raises` is every failing statement: it changes
nothing, or (once, as on a full disk) SQLite undoes the open transaction with it and the import that
began it is in `lost`. `Commit` and `Rollback` end whatever transaction is open, whoever began it.
`Crash` keeps `stored`. A row's content is who wrote it. A cancelled import (the server does not
cancel handlers in use) is not modelled.

### Migration

`Start` reads `user_version` once; `Execute` is one statement of the script, durable by itself
because `executescript` runs in autocommit mode; `ExecuteFails` is a CREATE of what exists; `Record`
the PRAGMA. `Kill` between any two of them, `Start` as any release. The scripts are those of `db.py`.

### Cleanup

The task goes `asleep -> ttl -> batch -> purge <-> pause`, then `trim -> interval -> asleep`, one
stage per statement. `Victims` are the sets of rows one DELETE may take. Everybody else stores, hits
(the time of a `touch` is taken before its statement runs), deletes and changes settings between any two
stages. Time is in days; sleeps take any time, so the interval has no effect. A batch deleted inside an
import's transaction comes back with its ROLLBACK while the task goes on as if it were gone; `restored`
holds the rows that a ROLLBACK has changed since the purge of the round ended, which are the only
expired ones `PurgeComplete` allows. They go in the next round (`ExpiredGoes`). `LogDays` are the days
whose rows of `call_log` are followed, since no row affects another.

### Providers

A request goes `idle -> write -> rebuild -> building -> done`, or ends `refused` (HTTP 400 or 404),
`failed` (a statement raised), `raised` (`Router()` did) or `gone` (restart). Its arrival is the read
it begins with; what it will write is then fixed and waits in `todo`, one statement per action, so a
reorder is three actions for three providers and an edit may write to a provider that has gone.
`ListEnabled` and `ReadSettings` are the two SELECTs of `rebuild()`, `Build` its end, which has no
`await`. `queue` holds the rebuilds in the order of their first SELECT. They cannot overtake one
another: each is the same number of round trips through two FIFO queues, the worker's and the event
loop's. Only a SELECT that meets a lock of another process and is retried would; the model leaves
that out (hazard at db.py:180, mutation `BuildAnyOrder`). Writes interleave without such a bound,
which allows more than the FIFO queues do; the counterexample of `providers_reorder` needs no more
than two reorders running in step.

Abstracted: a provider is its priority, whether it is enabled and its `base_url`; `strategy` and one
`timeout` stand for the router settings; deployments are a set, since litellm goes by `order`. An
import's ROLLBACK, which would undo these writes too, is left out, so the properties say what holds
when none falls between a write and the end of its rebuild. Without
`RouterManager` (fake LLM) there is nothing to rebuild.

### Statistics

A call of the router goes `idle -> asking -> answered | failed`, with up to `MaxTries` attempts at the
deployments it began with (`held`), which a rebuild does not change; the test button goes `idle ->
testing -> tested` at a provider as the table has it. An attempt's event goes `logged -> queued ->
counted | lost`, or is `ignored`. litellm is external: it picks deployments and retries freely, and
logs an event any time later, to the tracker that `litellm.callbacks` holds then. `Deliver` is the
callback up to its statement (lookup and date), `Bump` the statement. `ApiBaseMaps` are the maps that
priorities may lead to where two providers share a `base_url`. A row of `provider_stats_daily` is a
set of increments, as in `AnswerService`. The status request computes its first day (`StatusBegins`)
before its SELECTs run; what it would show (`Shown`) is compared at every moment until it replies.

A rebuild is one action here: what its SELECTs interleave with is the subject of `Providers`, and a
`Change` may come between any two of them. Left out: tokens, cooldowns, latencies, and the increments
that an import's ROLLBACK undoes: `NoAttemptForgotten` tells that none is ignored or counted elsewhere,
not that none counted is taken back.

### Panel

`table` is `questions` by id, and `issued` the AUTOINCREMENT counter. Both go back with the ROLLBACK
of an import or a kill during it, although pages with its rows have been shown; `revoked` remembers the
rows that were taken back, and `DeletesWhatWasConfirmed` excepts them. A load goes `sent -> counted ->
read` (request, COUNT, SELECT of one page) and is then applied or fails; several may be under way,
since nothing disables the buttons, and each carries the page and the filter it was sent with. A
deletion carries the ids and, for the property, the rows that were on screen when the user
confirmed. `walk` observes a reader who goes from the first page to the last: `unseen` are the rows
there were when he began. It is reset when a row is deleted or taken back, when loads overlap or fail,
and when a question is stored between the two SELECTs of a load. The code makes no promise there: pages are cut
by OFFSET.

## Runs

| Run | Bounds | Shows |
|---|---|---|
| `answer_records` | 2 requests, 2 keys, 1 answer, 2 days, every statement may raise, 1 transaction of an import (of which the ROLLBACK matters here, not its rows: none is importable) | `SingleFlight`, `RegistryExact`, `GroundedAnswers`, `LedgerOrdered`, `RecordedBeforeAnswered`. Two keys for crossing, two tasks on one key after another, a request between a task's end and its callback, midnight once, a BEGIN and a ROLLBACK at any two points; the proofs cover more requests, imports and answers together |
| `answer_liveness` | 2 requests, 1 key, 2 answers (1 importable), statistics may raise, no deletions, no transaction, `FairSpec` | `FirstAnswerWins`, `EveryRequestEnds`, `RegistryDrains`, `OrphanStored`, `KeepsPromise` (refinement with liveness) |
| `answer_mapping` | 2 requests; 6 questions: choices with a sign like a marker or a prefix, with a separator beside an option that is a letter, with a refusal's phrase, a judgement with aliases, a completion; 5 wrappings, one as deep as three rounds strip, two with a fence in the line of the answer, options of two words among them | `NeverAnotherOption`, `PlainAnswerComplete`, `OneRowPerQuestion`. Every order of the options, every manner of writing |
| `answer_mapping_joined` | 2 requests, 2 plain options | violation, below |
| `import_safety` | 5 pairs of uploads: an archive of 2 entries and 3 chunks (a new key, a repeated and a bad item after the first) against an overlapping body, and uploads that are too long, too many, too large, broken or empty; 1 writer, 3 keys, one deletable, one rollback by SQLite, `FairSpec` | `TransactionOwned`, `OnlyCommittedChunks`, `RestoreComplete`, `LossIsReported`, `TransactionEnds`. Two imports are enough for one to end the other's transaction |
| `migration` | both releases, an early build's file, 3 kills | `VersionNeverAhead`, `ServesFullSchema`, `FailsOnlyAfterInterruption` |
| `migration_restart` | current release, 1 kill, `FairSpec` | violation |
| `cleanup` | 2 questions, 1 request, 3 days, TTL 1 or null, batch 1, the log rows of the first day, 1 fault (statement, restart or ROLLBACK), `FairSpec` | `PurgeSparesRecent`, `PurgeComplete`, `RoundsEnd`, `ExpiredGoes`. Batch 1 with two questions makes full batches, a pause and an empty last batch; a BEGIN before, between or after the batches and a ROLLBACK after any of them; other TTLs and batch sizes are the proof's |
| `providers` | 3 requests of any kind, 2 providers (one exists), 2 URLs, a strategy `Router()` rejects, 1 fault | `RouterFollowsDatabase`, `DeletedNeverServed`. Three requests so that two rebuilds overlap while a third writes; equal URLs and equal priorities occur |
| `providers_reorder` | 2 requests, 3 providers | violation |
| `statistics` | 2 calls, 2 providers, 2 URLs, 2 attempts in all, 2 days, 1 edit, 1 failing statement or rebuild | `CountedForItsOwn`, `NoAttemptForgotten`, `StatusCoversWindow`. A shared URL, an edit between attempt and event, an old router under a new tracker, midnight at any point; a retry within one call |
| `panel` | 3 questions, 3 ids, 2 stored at first, pages of 1, 1 load and 1 deletion at a time, 3 loads in all, 2 filters, 1 transaction | `DeletesWhatWasConfirmed`, `WalkSkipsNothing`. A row stored, deleted and stored again under the page, a late answer, a row shown, taken back and its id given again before the deletion arrives (without the exception TLC finds this in 11 states), a walk over two pages; overlapping loads are the proof's |

The bounds are the constants of the cfgs: `MaxDay`, `MaxKills`, `MaxFaults` (faults, restarts and, in
`Cleanup`, imports that fail), `MaxImports`, `MaxAttempts`, `MaxEdits`, `MaxSent`, `MaxId`, `LogDays`,
the lengths of the uploads. Requests, keys and answers are symmetric where no property tells them apart
and no liveness is checked. `CHECK_DEADLOCK FALSE` is set throughout: a finite number of requests
ends, and then the system rests.

### Fairness

* `AnswerService`: weak fairness of each request's own steps, each task's steps and each owner's
  writes. The event loop runs every ready coroutine and callback, the worker every queued statement,
  and litellm's timeout (`llm_timeout`) ends every call. Arrivals, cancellations, imports and
  their transactions, deletions, midnight and faults are not fair; which of success and failure a
  statement meets is free.
* `ImportTransaction`: weak fairness of an import that has begun; whether a statement succeeds or
  raises is free. Crashes and arrivals are not fair.
* `Statistics`, `Panel`, `Providers`, `AnswerMapping`: none; nothing is claimed to happen.
* `Migration`: the supervisor restarts the process (`restart: unless-stopped` in
  `docker-compose.yml`) and the process goes on.
* `Cleanup`: weak fairness of the task's steps other than failing; faults, restarts and imports that
  are rolled back are bounded: a round that fails for ever is a broken disk, and `RoundsEnd` needs that
  imports do not for ever bring back the batch just deleted.

### Disagreements with the documents

* `answer_mapping_joined`: a request that joins another's task gets letters for the other's order of
  the options, another option than the one meant (service.py:59, 129-132; design.md:96, README.md:21).
* `migration_restart`: killed inside `SCHEMA_V1`, the program never starts again (db.py:159-168;
  db.py:3, design.md:238).
* `providers_reorder`: two reorders interleave into an order nobody asked for (providers.py:79;
  design.md:252, providers.py:75).

Read and not run:

* An exception of the statistics gather after a successful reply loses the reply (service.py:111-117;
  line 7 promises that a failed cache write does not). `RecordingFails` models it and `OrphanStored`
  therefore excepts it.
* A request that read "no row" before the INSERT and looks into the registry after the callback
  launches a second call for a cached question (service.py:49-57; design.md:15 promises none).
  `AnswerService` has these behaviours.
* The reply -5 is stored as 5 when 5 is an option too, and 1.5 likewise, because
  `PIECE_NOISE_RE` (parse.py:44) takes its beginning for a list marker; "y, z" is stored as y and z
  where y is an option (parse.py:42). The prompt asks for exactly these texts (prompt.py:6-7).
  `AnswerMapping` shows both once a question has such options: `NeverAnotherOption` then fails. The
  questions of `answer_mapping` share no word, so that the property tells of everything else.
* An answer is given out when its INSERT returns. If an import holds the shared connection's
  transaction, that INSERT is part of it, and the import's ROLLBACK or a crash undoes it
  (db.py:148-157; design.md:399 promises that the result is kept). `ImportTransaction` has these
  behaviours (`WriteAnswer` in the transaction, then `RollbackChunk` or `Crash`).
* The same ROLLBACK undoes others' increments and log rows, so a day may end with more calls than
  misses and an answer without a row in the log (`AnswerService`), it brings back rows the cleanup has
  deleted until the next round (`Cleanup`), and it frees ids that the panel has shown. A deletion the
  user has confirmed then removes the question that got the id next, although AUTOINCREMENT (db.py:29)
  is there to give none twice (`Panel`; the properties name these cases and hold otherwise).
* A fence in the line of its answer, "```北京#上海```", loses the first word: `[\w-]*` of `FENCE_RE` takes
  it for a language (parse.py:36), and 上海 alone is matched, cached and told. The comment above it
  (parse.py:35) shows fences of both forms, "```json ... ```" and "``` ... ```". `AnswerMapping` has it
  (`inline`), and `PlainAnswerComplete` excepts the answers so `cut`.
* After SQLite has undone the transaction of import 1 (full disk), import 2 may BEGIN; the COMMIT of
  import 1 then commits half a chunk of import 2, and import 1 answers with success although items of
  it are gone. Import 2's COMMIT raises, so that one failure is reported: `LossIsReported`.
* The settings API accepts `{"ttl_days": null}` (admin_settings.py:22) and every later cleanup round
  fails at `int(None)` (cleanup.py:44). `Cleanup` has it; `ExpiredGoes` needs the setting to be a
  number in the end.
* Two providers with one `base_url` share an entry of the tracker's map (router_manager.py:66):
  all calls count for the last of them. `CountedForItsOwn` excepts shared URLs.
* No row of `call_log` has a `provider_id`: `ask()` returns none (router_manager.py:92-98). The average
  latency of the status page is therefore always null, which design.md:254 lists.
* A completion whose answer begins with a prefix or an asterisk loses it, also inside an option
  (parse.py:38-40, 95); an option with a phrase of refusal can never be learnt (parse.py:86-88).
* Panel: the type column shows `item.qtype` where the server sends `type`; deleting the only row of
  the last page leaves an empty page; when the total shrinks by two pages or more, "previous" does
  nothing (app.js:429); the trend chart expects `{items}` where `/api/stats` sends a list (app.js:81);
  the priority arrows send the order of the list last loaded (app.js:371).

## Proofs

`AnswerServiceProof` proves, for any sets of requests, keys and answers, any number of days and any
of the three kinds of statements failing, under the named assumptions of `AnswerService` (`None` is
no key, answer or request; answers and failures differ; imported answers are answers; there is at
least one day):

* `TypeCorrect`, `RegistryIsExact`, `SingleFlightHolds` from the inductive invariant
  `Inv == TypeOK /\ RequestStages /\ TaskStages /\ RegistryExact`. The types alone are not inductive:
  that `inflight[qkey[q]]` is a task rests on `qkey[q]` being a key by the time it is used, and that
  `Retire` removes its own entry rests on `RegistryExact`. `RequestStages` and `TaskStages` say what
  is known in each stage. `SingleFlight` follows: two live tasks on a key would both be registered.
* `AnswersAreGrounded`: what a row, a reply, a verdict or an answer holds was obtained for its key
  (`Provenance`); obtaining is monotonic (`ObtainedGrows`), a reply never changes once given
  (`TaskStays`).
* `RecordsPrecedeAnswers` and `LedgerIsOrdered` from `Records`: a task past a write has its record,
  and each increment of one counter has its partner in the larger one, with the same owner and day.
  The inequality of two columns is then an injection between sets of increments (`MatchedColumn`).
  A ROLLBACK keeps what was ever counted and logged, and what it puts back is a part of what was there
  (`SnapshotKept`); a call and its failure are one statement and go or stay together
  (`FailuresMatched`, of the counters and of the snapshot).
* `FirstAnswerStays`: the action property, from `Inv` for the rows an INSERT may touch.

It proves `ServiceImplementsCache` too: the initial state and every step of the service map to
`AnswerCache`. That a flight launched is the only one in the air is `RegistryExact` again. To a ROLLBACK
`AnswerCache` is indifferent: rows may go or come back to what was obtained for their keys
(`Provenance`, which holds of the snapshot too). Imports with their rows, answers and transactions all
together are the proof's; TLC has the transactions in `answer_records` and the rows in
`answer_liveness`.

`AnswerMappingProof` proves `TypeCorrect`, `OneRowHolds`, `NoOtherOptionIsNamed` and
`PlainAnswersAreWhole` for any questions, words, wrappings and styles. Assumed is that a question
has finitely many options and `None` is none of their arrangements; that what stands between two
separators holds none, and letters hold none; that there is a letter for each option where the LLM
answers in letters, and that imports do not (`LettersAssumption`); and that no two options of a
question share a word and letters in an option are the whole of it (`OptionsAssumption`, without
which `NeverAnotherOption` is false: see the -5 and the "y, z" above). `PlainAnswersAreWhole` has a
hypothesis of its own: three rounds strip every wrapping, its fences taken to open with lines of their
own. What a fence may leave of a word is assumed not to change its meaning (`BittenAssumption`: letters
less the first are letters, and what is left of a judgement is no other judgement), and
`OptionsAssumption` speaks of these remains too. A prefix inside such a fence occurs in the proof only.

* One key per question: an arrangement is an order of a finite set, an order of a finite set is
  onto (`OrderIsOnto`), so the bag of option keys has each option once (`OneKey`).
* What a text of a stored answer matches, in any arrangement, is what its source meant, or nothing
  (`Good`). A text with the word of an option, or with a part of it, matches this option or none
  (`MatchesItsOption`); letters are mapped when the reply is stored, with the options they were
  written for, unless something of a wrapper is left on them, and then they match nothing ever
  (`FitMatch`). Of a text after a fence in its line any of `Bites` may be left (`BiteParts`), and
  the same is shown of each. Splitting keeps this (`PiecesKept`), and so do matching and storing
  (`LearntContent`).
* The inductive invariant says that every row is `Sound`, that is, right in every arrangement, and
  that a launcher waits for a task with its own options (`LaunchersFly`). For a joiner this fails,
  which is the finding of `answer_mapping_joined`.

`ImportTransactionProof` proves `TypeCorrect`, `TransactionIsOwned`, `FailedChunksLeaveNothing`,
`LossIsAlwaysReported` and `RestoreIsComplete` for any uploads, importers, writers, chunk size and
bounds, under the named assumptions of `ImportTransaction` (`None` is nobody, a bad item is no key,
an importer is no writer, a chunk holds at least one item). The inductive invariant is
`Inv == TypeOK /\ TransactionOwned /\ Counted /\ RowsWritten /\ OnlyCommittedChunks /\ LossMarked
/\ KeysStay /\ Begun /\ Restoring`:

* `TransactionOwned` is inductive with the types: BEGIN needs that none is open, and COMMIT and
  ROLLBACK end the importer's own, or the importer is in `lost` by then.
* `OnlyCommittedChunks` speaks of the disk and is not inductive: a COMMIT copies what the
  transaction holds. `RowsWritten` says the same of the rows the connection sees, of which those of
  an open chunk come from the items dealt with so far. `Counted` says that these are exactly the
  items counted, so that a COMMIT moves both together.
* `LossIsReported` needs `LossMarked`: the loser that is still at work does not hold the open
  transaction, so its own COMMIT raises unless it ends another's, who is then the next such loser.
* `RestoreComplete` needs `Restoring`: the items of an import up to its last chunk are on disk, and
  those up to its position in the rows the connection sees, unless deleted. Others only add to
  both (`KeysStay`), except when a transaction is undone, whose owner is then in `lost`. That the
  positions reach every item of every entry is `FlattenHolds`.

`MigrationProof` proves `TypeCorrect`, `VersionIsBacked`, `FullSchemaIsServed` and
`OnlyInterruptionFails` for any scripts that create no object twice and drop none they create, a
legacy file with none of their objects, any releases and number of kills. `CreatedSoFar` says what
the statements that have run have left, so that at the PRAGMA the whole script is there;
`CleanUntilKilled` says that without a kill there is nothing else, so that a CREATE that fails has
met a leftover.

`CleanupProof` proves `TypeCorrect`, `PurgeIsComplete` and `RecentIsSpared` (an action property) for
any keys, requests, TTLs and batches (positive or null), number of days and faults. `CutoffPast`
keeps the cutoff of a round at least its TTL in the past, and `TouchesRecent` bounds how old the time
a late touch() writes may be: a row cannot become expired between two batches. An import's ROLLBACK or a
restart is a case of its own in each step: what it changes after the purge is in `restored`.

`ProvidersProof` proves `TypeCorrect`, `RouterIsCurrent` and `DeletedStaysAway` for any requests,
finitely many providers, any settings, rejected strategies and number of faults (`None` is no row and
no configuration).

* `RouterFollowsDatabase` needs `LastIsCurrent`: when no request has written what no rebuild has
  read, the last rebuild in the queue has read everything. This is where it matters that rebuilds do
  not overtake one another.
* `DeletedNeverServed` needs `DeletedIsGone`, stage by stage: once the DELETE has run, no listing at
  or behind its request's own in the queue has the provider, and when that one is built none is left
  ahead of it. An id must not come back: `RowsAreBorn`, `TodoIsAsked` and `CreatedOnce` say that an
  insert waiting to run is of an id nobody ever had, and `QueuedOnce` that a request builds once.

`StatisticsProof` proves `TypeCorrect`, `CountsAreRight`, `AttemptsAreRemembered` and
`StatusIsComplete` for any calls, providers, URLs, attempts, edits, days and failures, under the named
assumptions of `Statistics` (at least one try; `None` is no URL, number or record).

* `CountedForItsOwn`: what waits to be written (`OwedRightly`) and what is written
  (`CountedRightly`) is for an owner of the attempt's URL as the tracker knew it, and routers,
  trackers and calls hold only URLs a provider has had (`Known`).
* `NoAttemptForgotten`: a provider that has stayed enabled with one URL that is its own alone is in
  every tracker (`SteadyTracked`), so its events are not ignored (`NeverIgnored`).
* `StatusCoversWindow`: the first day of a status under way is no later than the window's of today
  (`StatusSince`).

`PanelProof` proves `TypeCorrect`, `OnlyTheConfirmedIsDeleted` and `PagesCoverTheList` for any
questions, filters, page size, loads and deletions under way (`None` is no load and no deletion,
filters are sets of questions, a page has at least one row).

* `DeletesWhatWasConfirmed` needs `KnownFit`: whatever was once read of the table is still true of
  its ids, on screen, in an answer under way and in a deletion, since no id is given twice, and would
  be after a ROLLBACK, unless one has taken the row back, or would (`Holds`, `SnapshotFits`).
* `WalkSkipsNothing` goes by the rank of a row in the list. What a page leaves unseen ranks beyond it
  (`FirstLeaves`, `NextLeaves`, `WalkLeaves`), a row stored meanwhile only raises the ranks of the
  older ones, and on the last page no rank is left (`CountIsTrue`).

Inductions over data (`FlattenSeq` of the entries of an archive or the pieces of a reply) are done by
the least position at which the claim would be false, since the library's induction theorems take
operators.

Only model-checked: liveness (`EveryRequestEnds`, `RegistryDrains`, `OrphanStored`,
`TransactionEnds`, `RoundsEnd`, `ExpiredGoes`), since fairness and ENABLED are out of the prover's
reach; `KeepsPromise` is proved in its safety part and checked in full.

## Not modelled

* Query API and token check (`api/query.py`, `api/deps.py`): they pass parameters on and hold no state;
  `AnswerService` begins where they call `query`.
* Prompt, data classes, fake LLM, health endpoint: formatting and constants. The LLM is a reply, a
  failure or an unparsable text.
* Closing the connection at shutdown (`main.py:52`): a task that still runs then meets statements
  that raise, which `AnswerService` has as `RecordingFails` and failing writes, and a restart, which
  is `Crash` in `ImportTransaction` and `Kill` in `Migration`.
* The dashboard, provider and settings tabs of the panel: each shows the last response and sends one
  request; the requests are in `Providers`, `Statistics` and `Cleanup`.
* A cancelled import, tokens, latencies and cooldowns, wrongly split option lists, MD5 collisions.

## Plan

1. Done: query path with its abstract specification, answer mapping, connection and import,
   migration, cleanup, providers and the router's rebuild, statistics, panel.
2. Proved: every invariant and action property of the passing runs, and the safety part of the
   refinement of `AnswerCache`.
3. Left: abstract specifications of the other components (an import as one atomic step per chunk, the
   router as a function of the tables) with their refinements.
