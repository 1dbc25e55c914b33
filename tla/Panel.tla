-------------------------------- MODULE Panel --------------------------------
(***************************************************************************)
(* The cache tab of the web panel (app/static/app.js) on the API behind it *)
(* (app/api/admin_cache.py, app/repository/questions.py), while requests   *)
(* store questions and the cleanup or another window deletes some.         *)
(*                                                                         *)
(* Nothing keeps the user from turning the page before the last answer has *)
(* come: several loads may be under way, a load is two SELECTs, and its    *)
(* answer is applied when it comes.  The user confirms a deletion in a     *)
(* dialog that blocks the page, so the request names what was on screen    *)
(* then; what it finds in the table may be something else.                 *)
(*                                                                         *)
(* The database is one connection: the panel reads what an import has      *)
(* stored before it commits, and whatever anyone stores or deletes between *)
(* its BEGIN and its COMMIT goes back with its ROLLBACK, the ids given     *)
(* included (sqlite_sequence is a table like the others).                  *)
(***************************************************************************)
EXTENDS Integers, Sequences, FiniteSets, FiniteSetsExt

CONSTANTS
  Questions,  \* what rows are about (the cache key and its text)
  Filters,    \* what the search box and the type filter let through: sets of questions
  Stored,     \* the questions stored when the panel is opened, oldest first
  PageSize,   \* CACHE_PAGE_SIZE
  Loads,      \* bound: loads under way at a time
  Removals,   \* bound: deletions under way at a time
  MaxSent,    \* bound: loads ever sent
  MaxId,      \* bound: rows ever stored
  MaxImports, \* bound: transactions ever begun
  None        \* no load, no deletion

ASSUME FiltersAssumption == Questions \in Filters /\ Filters \subseteq SUBSET Questions
ASSUME StoredAssumption == Stored \in Seq(Questions) /\ Len(Stored) <= MaxId
ASSUME SizesAssumption == PageSize \in Nat \ {0} /\ MaxId \in Nat /\ MaxSent \in Nat
                          /\ MaxImports \in Nat

Ids == 1..MaxId
Row == [id : Ids, question : Questions]

Load == [stage : {"sent", "counted", "read"}, page : Nat \ {0}, filter : Filters, count : Nat,
         rows : SUBSET Row, others : SUBSET Row, intact : BOOLEAN]

Removal == [kind : {"one", "batch"}, stage : {"sent", "deleted"}, ids : SUBSET Ids, seen : SUBSET Row]

\* The table as it was at a BEGIN, and the rows stored since.
Snapshot == [table : SUBSET Row, issued : 0..MaxId, given : SUBSET Row]

ASSUME NoneAssumption == None \notin Load /\ None \notin Removal /\ None \notin Snapshot

VARIABLES
  table,     \* table questions: the rows that are in it
  issued,    \* the greatest id given (sqlite_sequence)
  before,    \* the Snapshot of the open transaction, None if none is open
  begun,     \* transactions begun so far
  revoked,   \* rows that were stored and that a ROLLBACK has taken back
  page,      \* cachePage
  filter,    \* cacheQ and cacheType, as typed
  items,     \* cacheItems: the rows on screen
  total,     \* cacheTotal
  selected,  \* selectedIds
  loads,     \* GET /api/cache under way
  removals,  \* DELETE or delete-batch under way: [ids, seen], seen being the rows confirmed
  sent,      \* loads sent so far
  mixed,     \* loads have overlapped, or one has failed
  walk       \* a reader going from the first page to the last: [intact, page, filter,
             \* unseen], of the rows there were when the first page was read

server == <<table, issued, before, begun, revoked>>
screen == <<items, total, selected>>
vars == <<server, page, filter, screen, sent, loads, removals, mixed, walk>>

IdsOf(rows) == {row.id : row \in rows}

NoWalk == [intact |-> FALSE, page |-> 0, filter |-> Questions, unseen |-> {}]

Init ==
  /\ table = {[id |-> i, question |-> Stored[i]] : i \in DOMAIN Stored}
  /\ issued = Len(Stored)
  /\ before = None /\ begun = 0 /\ revoked = {}
  /\ page = 1 /\ filter = Questions
  /\ items = {} /\ total = 0 /\ selected = {}
  /\ loads = [l \in Loads |-> None]
  /\ removals = [d \in Removals |-> None]
  /\ sent = 0 /\ mixed = FALSE
  /\ walk = NoWalk

-----------------------------------------------------------------------------
(* The repository                                                           *)

Matching(f) == {row \in table : row.question \in f}

Rank(row, rows) == Cardinality({other \in rows : other.id > row.id})

\* Mutation of PageOf: the search is in the COUNT alone.
PageOfAll(rows, p) ==
  {row \in table : Rank(row, table) \in (p - 1) * PageSize .. p * PageSize - 1}

\* ORDER BY id DESC LIMIT page_size OFFSET (page - 1) * page_size.
PageOf(rows, p) == {row \in rows : Rank(row, rows) \in (p - 1) * PageSize .. p * PageSize - 1}

\* What a ROLLBACK would take back.
Given(row) ==
  before' = IF before = None THEN None ELSE [before EXCEPT !.given = @ \cup {row}]

\* Mutation of Insert: without AUTOINCREMENT the id of the newest row is given again.
InsertReusing(q) ==
  LET id == Max(IdsOf(table) \cup {0}) + 1 IN
    /\ id <= MaxId
    /\ \A row \in table : row.question # q
    /\ table' = table \cup {[id |-> id, question |-> q]}
    /\ issued' = id
    /\ Given([id |-> id, question |-> q])
    /\ loads' = [l \in Loads |->
                   IF loads[l] # None /\ loads[l].stage = "counted" THEN [loads[l] EXCEPT !.intact = FALSE]
                   ELSE loads[l]]
    /\ UNCHANGED <<begun, revoked, sent, page, filter, screen, removals, mixed, walk>>

\* A request or an import stores a question under the next id.  A load that has counted
\* the rows has missed it.
Insert(q) ==
  /\ issued < MaxId
  /\ \A row \in table : row.question # q
  /\ table' = table \cup {[id |-> issued + 1, question |-> q]}
  /\ issued' = issued + 1
  /\ Given([id |-> issued + 1, question |-> q])
  /\ loads' = [l \in Loads |->
                 IF loads[l] # None /\ loads[l].stage = "counted" THEN [loads[l] EXCEPT !.intact = FALSE]
                 ELSE loads[l]]
  /\ UNCHANGED <<begun, revoked, sent, page, filter, screen, removals, mixed, walk>>

\* Rows are gone or back; pages read before no longer fit those read after.
Becomes(rows) ==
  /\ table' = rows
  /\ IF rows = table THEN UNCHANGED <<loads, walk>>
     ELSE /\ loads' = [l \in Loads |-> IF loads[l] = None THEN None ELSE [loads[l] EXCEPT !.intact = FALSE]]
          /\ walk' = NoWalk

\* DELETE ... WHERE id IN (...).
DeleteByIds(ids) ==
  /\ Becomes({row \in table : row.id \notin ids})
  /\ UNCHANGED <<issued, before, begun, revoked>>

\* The cleanup, or another window.
Purge(row) ==
  /\ row \in table
  /\ DeleteByIds({row.id})
  /\ UNCHANGED <<sent, page, filter, screen, removals, mixed>>

\* An import's transaction; a second BEGIN raises.
BeginImport ==
  /\ before = None /\ begun < MaxImports
  /\ begun' = begun + 1
  /\ before' = [table |-> table, issued |-> issued, given |-> {}]
  /\ UNCHANGED <<table, issued, revoked, sent, page, filter, screen, loads, removals, mixed, walk>>

CommitImport ==
  /\ before # None
  /\ before' = None
  /\ UNCHANGED <<table, issued, begun, revoked, sent, page, filter, screen, loads, removals, mixed, walk>>

\* The import fails, or SQLite ends its transaction, or the server is killed (what the
\* requests under way come to, LoadFails and RemovalFails say).
RollbackImport ==
  /\ before # None
  /\ Becomes(before.table)
  /\ issued' = before.issued
  /\ revoked' = revoked \cup before.given
  /\ before' = None
  /\ UNCHANGED <<begun, sent, page, filter, screen, removals, mixed>>

-----------------------------------------------------------------------------
(* loadCache                                                                *)

\* A load of this page is sent, beside those already under way.
SendLoad(p, f, others) ==
  \E l \in Loads :
    /\ others[l] = None
    /\ sent < MaxSent /\ sent' = sent + 1
    /\ loads' = [others EXCEPT ![l] =
                   [stage |-> "sent", page |-> p, filter |-> f, count |-> 0, rows |-> {},
                    others |-> {}, intact |-> TRUE]]
    /\ mixed' = (\E other \in Loads : others[other] # None)

\* list_page: SELECT COUNT(*) ...
Count(l) ==
  /\ loads[l] # None /\ loads[l].stage = "sent"
  /\ loads' = [loads EXCEPT ![l].stage = "counted",
                            ![l].count = Cardinality(Matching(loads[l].filter))]
  /\ UNCHANGED <<sent, server, page, filter, screen, removals, mixed, walk>>

\* ... and SELECT * ...
Select(l) ==
  /\ loads[l] # None /\ loads[l].stage = "counted"
  /\ LET all == Matching(loads[l].filter)
         rows == PageOf(all, loads[l].page)
     IN
       loads' = [loads EXCEPT ![l].stage = "read", ![l].rows = rows,
                              ![l].others = IF loads[l].page = 1 THEN all \ rows ELSE {}]
  /\ UNCHANGED <<sent, server, page, filter, screen, removals, mixed, walk>>

\* The walk begins with a first page and goes on with the page after the last, one load
\* after the other.
WalkOn(load) ==
  IF ~mixed /\ load.intact /\ load.page = 1 THEN
    [intact |-> TRUE, page |-> 1, filter |-> load.filter, unseen |-> load.others]
  ELSE IF ~mixed /\ load.intact /\ walk.intact /\ load.page = walk.page + 1 /\ load.filter = walk.filter THEN
    [walk EXCEPT !.page = load.page, !.unseen = @ \ load.rows]
  ELSE NoWalk

\* Mutation of Deliver: the selection is kept over the change of the page.
DeliverUnpruned(l) ==
  /\ loads[l] # None /\ loads[l].stage = "read"
  /\ items' = loads[l].rows /\ total' = loads[l].count
  /\ walk' = WalkOn(loads[l])
  /\ loads' = [loads EXCEPT ![l] = None]
  /\ UNCHANGED <<sent, server, page, filter, selected, removals, mixed>>

\* Whichever answer comes is shown, and what is no longer on the page is deselected.
Deliver(l) ==
  /\ loads[l] # None /\ loads[l].stage = "read"
  /\ items' = loads[l].rows /\ total' = loads[l].count
  /\ selected' = selected \cap IdsOf(loads[l].rows)
  /\ walk' = WalkOn(loads[l])
  /\ loads' = [loads EXCEPT ![l] = None]
  /\ UNCHANGED <<sent, server, page, filter, removals, mixed>>

\* An error of the server, or of the network, which ever shows in place of the answer; the
\* screen stays.
LoadFails(l) ==
  /\ loads[l] # None /\ loads[l].stage = "read"
  /\ loads' = [loads EXCEPT ![l] = None]
  /\ mixed' = TRUE
  /\ UNCHANGED <<sent, server, page, filter, screen, removals, walk>>

-----------------------------------------------------------------------------
(* The user                                                                 *)

TotalPages(n) == Max({1, (n + PageSize - 1) \div PageSize})

\* switchTab.
Open ==
  /\ SendLoad(page, filter, loads)
  /\ UNCHANGED <<server, page, filter, screen, removals, walk>>

\* Something is typed into the search box, which alone loads nothing.
Type(f) ==
  /\ sent < MaxSent
  /\ filter' = f
  /\ UNCHANGED <<sent, server, page, screen, loads, removals, mixed, walk>>

SearchCache ==
  /\ page' = 1
  /\ SendLoad(1, filter, loads)
  /\ UNCHANGED <<server, filter, screen, removals, walk>>

ChangePage(delta) ==
  LET next == page + delta IN
    /\ next \in 1..TotalPages(total)
    /\ page' = next
    /\ SendLoad(next, filter, loads)
    /\ UNCHANGED <<server, filter, screen, removals, walk>>

ToggleSelect(id) ==
  /\ id \in IdsOf(items)
  /\ selected' = IF id \in selected THEN selected \ {id} ELSE selected \cup {id}
  /\ UNCHANGED <<sent, server, page, filter, items, total, loads, removals, mixed, walk>>

ToggleSelectAll ==
  /\ selected' = IF items # {} /\ IdsOf(items) \subseteq selected THEN {} ELSE IdsOf(items)
  /\ UNCHANGED <<sent, server, page, filter, items, total, loads, removals, mixed, walk>>

SendRemoval(kind, ids) ==
  \E d \in Removals :
    /\ removals[d] = None
    /\ removals' = [removals EXCEPT ![d] =
                      [kind |-> kind, stage |-> "sent", ids |-> ids,
                       seen |-> {row \in items : row.id \in ids}]]

DeleteCacheItem(item) ==
  /\ item \in items
  /\ SendRemoval("one", {item.id})
  /\ UNCHANGED <<sent, server, page, filter, screen, loads, mixed, walk>>

DeleteSelected ==
  /\ selected # {}
  /\ SendRemoval("batch", selected)
  /\ UNCHANGED <<sent, server, page, filter, screen, loads, mixed, walk>>

\* delete_cache and delete_cache_batch: a single row that is gone is answered 404, which
\* changes nothing here or there.
Remove(d) ==
  /\ removals[d] # None /\ removals[d].stage = "sent"
  /\ DeleteByIds(removals[d].ids)
  /\ removals' = [removals EXCEPT ![d] =
                    IF @.kind = "one" /\ @.ids \cap IdsOf(table) = {} THEN None
                    ELSE [@ EXCEPT !.stage = "deleted"]]
  /\ UNCHANGED <<sent, page, filter, screen, mixed>>

\* The request is answered: the page is loaded again, after a batch the first one.
Removed(d) ==
  /\ removals[d] # None /\ removals[d].stage = "deleted"
  /\ IF removals[d].kind = "batch"
       THEN page' = 1 /\ selected' = {} ELSE UNCHANGED <<page, selected>>
  /\ SendLoad(page', filter, loads)
  /\ removals' = [removals EXCEPT ![d] = None]
  /\ UNCHANGED <<server, filter, items, total, walk>>

\* It is lost on its way there or back, or fails.
RemovalFails(d) ==
  /\ removals[d] # None
  /\ removals' = [removals EXCEPT ![d] = None]
  /\ UNCHANGED <<sent, server, page, filter, screen, loads, mixed, walk>>

Next ==
  \/ \E q \in Questions : Insert(q)
  \/ \E row \in table : Purge(row)
  \/ BeginImport \/ CommitImport \/ RollbackImport
  \/ \E l \in Loads : Count(l) \/ Select(l) \/ Deliver(l) \/ LoadFails(l)
  \/ Open \/ SearchCache
  \/ \E f \in Filters : Type(f)
  \/ \E delta \in {-1, 1} : ChangePage(delta)
  \/ \E item \in items : ToggleSelect(item.id) \/ DeleteCacheItem(item)
  \/ ToggleSelectAll \/ DeleteSelected
  \/ \E d \in Removals : Remove(d) \/ Removed(d) \/ RemovalFails(d)

Spec == Init /\ [][Next]_vars

-----------------------------------------------------------------------------
(* Properties                                                               *)

TypeOK ==
  /\ table \in SUBSET Row /\ issued \in 0..MaxId
  /\ before \in Snapshot \cup {None} /\ begun \in Nat /\ revoked \subseteq Row
  /\ page \in Nat \ {0} /\ filter \in Filters
  /\ items \in SUBSET Row /\ total \in Nat
  /\ selected \subseteq IdsOf(items)
  /\ loads \in [Loads -> Load \cup {None}]
  /\ removals \in [Removals -> Removal \cup {None}]
  /\ sent \in Nat /\ mixed \in BOOLEAN
  /\ walk \in [intact : BOOLEAN, page : Nat, filter : Filters, unseen : SUBSET Row]

\* DeletesWhatWasConfirmed: what a deletion of the panel may still find in the table under
\* its ids is what the user had on screen and confirmed, whatever was loaded, deleted or
\* stored since (AUTOINCREMENT, db.py:29; pruneSelection, app.js:413); but where a ROLLBACK
\* has taken the confirmed row back, its id may stand for another question by then
\* (db.py:155-157).
DeletesWhatWasConfirmed ==
  \A d \in Removals : removals[d] # None =>
    \A row \in table : row.id \in removals[d].ids =>
      row \in removals[d].seen \/ \E known \in removals[d].seen \cap revoked : known.id = row.id

\* WalkSkipsNothing: whoever turns the pages from the first to the last has seen every row
\* there was when he began, though questions are stored meanwhile, if none is deleted or
\* taken back, none is stored between the two SELECTs of a load and no load overtakes
\* another (questions.py:59-75, app.js:418-432).
WalkSkipsNothing == walk.intact /\ walk.page = TotalPages(total) => walk.unseen = {}
=============================================================================
