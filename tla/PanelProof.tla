------------------------------ MODULE PanelProof ------------------------------
(***************************************************************************)
(* Safety of Panel for any questions, filters and page size, any number of *)
(* loads and deletions under way, and any bounds.                          *)
(***************************************************************************)
EXTENDS Panel, FiniteSetTheorems, TLAPS

-----------------------------------------------------------------------------
(* The inductive invariant                                                  *)

\* Agree: what is known of a row is true of a table that ids up to n have been given in: its
\* id has been given, and if it is in the table it stands for that row.
Agree(known, rows, n) == known.id <= n /\ \A row \in rows : row.id = known.id => row = known

Fits(rows) == \A known \in rows : Agree(known, table, issued)

\* Holds: what was once read of the table is still true of it, and would be after a ROLLBACK,
\* unless a ROLLBACK has taken the row back or would.
Holds(rows) ==
  \A known \in rows :
    \/ known \in revoked
    \/ /\ Agree(known, table, issued)
       /\ before # None =>
            known \in before.given \/ Agree(known, before.table, before.issued)

SnapshotFits ==
  before # None =>
    /\ table \subseteq before.table \cup before.given
    /\ \A known \in before.table : Agree(known, before.table, before.issued)

KnownFit ==
  /\ Fits(table) /\ SnapshotFits /\ Holds(items)
  /\ \A l \in Loads : loads[l] # None => Holds(loads[l].rows)
  /\ \A d \in Removals : removals[d] # None =>
       removals[d].ids \subseteq IdsOf(removals[d].seen) /\ Holds(removals[d].seen)

\* Rows the search lets through that the first n of its list are not.
Beyond(rows, f, n) == rows \subseteq Matching(f) /\ \A row \in rows : Rank(row, Matching(f)) >= n

\* Loads that nothing is deleted or stored under, at the given stage.
Intact(l, stage) == loads[l] # None /\ loads[l].stage = stage /\ loads[l].intact

LoadsAlone == ~mixed => \A l, m \in Loads : loads[l] # None /\ loads[m] # None => l = m

CountIsTrue ==
  \A l \in Loads : Intact(l, "counted") => loads[l].count = Cardinality(Matching(loads[l].filter))

\* What a page leaves for the later ones is beyond it, and nothing if it is the last.
FirstLeaves ==
  \A l \in Loads : Intact(l, "read") /\ loads[l].page = 1 =>
    /\ Beyond(loads[l].others, loads[l].filter, 1 * PageSize)
    /\ TotalPages(loads[l].count) = 1 => loads[l].others = {}

Follows(l) == loads[l].page = walk.page + 1 /\ loads[l].filter = walk.filter

NextLeaves ==
  walk.intact /\ ~mixed => \A l \in Loads : Intact(l, "read") /\ Follows(l) =>
    /\ Beyond(walk.unseen \ loads[l].rows, walk.filter, loads[l].page * PageSize)
    /\ TotalPages(loads[l].count) = loads[l].page => walk.unseen \subseteq loads[l].rows

WalkLeaves ==
  walk.intact =>
    /\ walk.page >= 1 /\ Beyond(walk.unseen, walk.filter, walk.page * PageSize)
    /\ walk.page = TotalPages(total) => walk.unseen = {}

Inv ==
  /\ TypeOK /\ KnownFit
  /\ LoadsAlone /\ CountIsTrue /\ FirstLeaves /\ NextLeaves /\ WalkLeaves

LEMMA Numbers ==
  /\ PageSize \in Nat /\ PageSize >= 1 /\ MaxId \in Nat /\ MaxSent \in Nat
BY SizesAssumption

LEMMA TotalPagesSuffice ==
  ASSUME NEW n \in Nat
  PROVE  TotalPages(n) \in Nat \ {0} /\ n <= TotalPages(n) * PageSize
<1> DEFINE q == (n + PageSize - 1) \div PageSize
<1>1. q \in Nat /\ n <= q * PageSize
  BY Numbers
<1>2. TotalPages(n) = IF q >= 1 THEN q ELSE 1
  <2>1. TotalPages(n) = Max({1, q})
    BY DEF TotalPages
  <2> HIDE DEF q
  <2>2. QED
    BY <1>1, <2>1 DEF Max
<1> HIDE DEF q
<1>3. QED
  <2>1. CASE q >= 1
    BY <1>1, <1>2, <2>1
  <2>2. CASE q = 0
    BY <1>1, <1>2, <2>2, Numbers
  <2>3. QED
    BY <1>1, <2>1, <2>2

LEMMA RowsFinite ==
  ASSUME NEW rows, rows \subseteq Row, \A r, s \in rows : r.id = s.id => r = s
  PROVE  IsFiniteSet(rows)
<1> DEFINE id == [row \in rows |-> row.id]
<1>1. Ids = 1..MaxId
  BY DEF Ids
<1>2. id \in Injection(rows, Ids)
  BY <1>1 DEF Row, Injection, IsInjective
<1>3. IsFiniteSet(Ids)
  BY <1>1, Numbers, FS_Interval
<1> HIDE DEF id
<1>4. QED
  BY <1>2, <1>3, FS_Injection

LEMMA TableFinite ==
  ASSUME TypeOK, Fits(table)
  PROVE  IsFiniteSet(table)
BY RowsFinite DEF TypeOK, Fits, Agree

LEMMA MatchingFinite ==
  ASSUME TypeOK, Fits(table), NEW f
  PROVE  IsFiniteSet(Matching(f)) /\ Cardinality(Matching(f)) \in Nat /\ Matching(f) \subseteq Row
<1>1. Matching(f) \subseteq table /\ table \subseteq Row
  BY DEF Matching, TypeOK
<1>2. QED
  BY <1>1, TableFinite, FS_Subset, FS_CardinalityType

\* A row's place in a list only gets further down as the list grows ...
LEMMA RankGrows ==
  ASSUME NEW rows, NEW more, IsFiniteSet(more), rows \subseteq more, NEW row
  PROVE  /\ Rank(row, rows) \in Nat /\ Rank(row, more) \in Nat
         /\ Rank(row, rows) <= Rank(row, more)
<1> DEFINE above == {other \in rows : other.id > row.id}
           aboveMore == {other \in more : other.id > row.id}
<1>1. IsFiniteSet(aboveMore)
  <2>1. aboveMore \subseteq more
    OBVIOUS
  <2>2. QED
    BY <2>1, FS_Subset
<1>2. above \subseteq aboveMore
  OBVIOUS
<1>3. Rank(row, rows) = Cardinality(above) /\ Rank(row, more) = Cardinality(aboveMore)
  BY DEF Rank
<1> HIDE DEF above, aboveMore
<1>4. QED
  BY <1>1, <1>2, <1>3, FS_Subset, FS_CardinalityType

\* ... and is always within it.
LEMMA RankBelow ==
  ASSUME NEW rows, IsFiniteSet(rows), rows \subseteq Row, NEW row \in rows
  PROVE  Rank(row, rows) < Cardinality(rows)
<1> DEFINE above == {other \in rows : other.id > row.id}
<1>1. above \subseteq rows /\ row \notin above
  <2>1. row.id \in Ids /\ Ids \subseteq Int
    BY DEF Row, Ids
  <2>2. \A n \in Int : ~(n > n)
    OBVIOUS
  <2>3. QED
    BY <2>1, <2>2
<1>2. Rank(row, rows) = Cardinality(above)
  BY DEF Rank
<1> HIDE DEF above
<1>3. /\ IsFiniteSet(above) /\ Cardinality(above) <= Cardinality(rows)
      /\ Cardinality(above) # Cardinality(rows)
  BY <1>1, FS_Subset
<1>4. Cardinality(above) \in Nat /\ Cardinality(rows) \in Nat
  BY <1>3, FS_CardinalityType
<1>5. QED
  BY <1>2, <1>3, <1>4

\* What is not before a page and not on it comes after it; and nothing comes after the last.
LEMMA PageLeaves ==
  ASSUME TypeOK, Fits(table), NEW f, NEW p \in Nat \ {0},
         NEW row \in Matching(f), row \notin PageOf(Matching(f), p),
         Rank(row, Matching(f)) >= (p - 1) * PageSize
  PROVE  /\ Rank(row, Matching(f)) >= p * PageSize
         /\ TotalPages(Cardinality(Matching(f))) # p
<1> DEFINE rank == Rank(row, Matching(f))
           count == Cardinality(Matching(f))
<1>1. /\ rank \in Nat /\ count \in Nat /\ rank < count
      /\ p * PageSize \in Int /\ (p - 1) * PageSize \in Int
  BY MatchingFinite, RankGrows, RankBelow, Numbers
<1>2. rank \notin (p - 1) * PageSize .. p * PageSize - 1
  BY DEF PageOf
<1>3. count <= TotalPages(count) * PageSize
  BY <1>1, TotalPagesSuffice
<1> HIDE DEF rank, count
<1>4. rank >= p * PageSize
  <2>1. rank >= (p - 1) * PageSize
    BY DEF rank
  <2>2. QED
    BY <1>1, <1>2, <2>1
<1>5. TotalPages(count) # p
  BY <1>1, <1>3, <1>4
<1>6. QED
  BY <1>4, <1>5 DEF rank, count

\* Rows that are beyond some stay so while rows are only stored.
LEMMA BeyondStays ==
  ASSUME TypeOK, Fits(table), TypeOK', Fits(table)', table \subseteq table',
         NEW rows, NEW f, NEW n \in Int, Beyond(rows, f, n)
  PROVE  Beyond(rows, f, n)'
<1>1. Matching(f) \subseteq Matching(f)'
  BY DEF Matching
<1>2. IsFiniteSet(Matching(f)')
  <2>1. Matching(f)' \subseteq table'
    BY DEF Matching
  <2>2. IsFiniteSet(table')
    BY RowsFinite DEF TypeOK, Fits, Agree
  <2>3. QED
    BY <2>1, <2>2, FS_Subset
<1>3. \A row : Rank(row, Matching(f)) \in Nat /\ Rank(row, Matching(f)') \in Nat
               /\ Rank(row, Matching(f)) <= Rank(row, Matching(f)')
  BY <1>1, <1>2, RankGrows
<1>4. QED
  BY <1>1, <1>3 DEF Beyond

-----------------------------------------------------------------------------
(* What a step changes                                                      *)

\* Every step is one of these.
LEMMA Steps ==
  ASSUME Next
  PROVE  \/ \E q \in Questions : Insert(q)
         \/ \E row \in table : Purge(row)
         \/ BeginImport
         \/ CommitImport
         \/ RollbackImport
         \/ \E l \in Loads : Count(l)
         \/ \E l \in Loads : Select(l)
         \/ \E l \in Loads : Deliver(l)
         \/ \E l \in Loads : LoadFails(l)
         \/ Open
         \/ SearchCache
         \/ \E f \in Filters : Type(f)
         \/ \E delta \in {-1, 1} : ChangePage(delta)
         \/ \E item \in items : ToggleSelect(item.id)
         \/ \E item \in items : DeleteCacheItem(item)
         \/ ToggleSelectAll
         \/ DeleteSelected
         \/ \E d \in Removals : Remove(d)
         \/ \E d \in Removals : Removed(d)
         \/ \E d \in Removals : RemovalFails(d)
BY DEF Next

\* A load that is sent takes the place of none.
LEMMA LoadSent ==
  ASSUME TypeOK, NEW p \in Nat \ {0}, NEW f \in Filters, SendLoad(p, f, loads)
  PROVE  /\ loads' \in [Loads -> Load \cup {None}] /\ sent' \in Nat /\ mixed' \in BOOLEAN
         /\ mixed' <=> \E other \in Loads : loads[other] # None
         /\ \E l \in Loads :
              /\ loads[l] = None
              /\ loads'[l] # None /\ loads'[l].stage = "sent" /\ loads'[l].rows = {}
              /\ \A m \in Loads \ {l} : loads'[m] = loads[m]
<1>1. PICK l \in Loads :
        /\ loads[l] = None /\ sent' = sent + 1
        /\ loads' = [loads EXCEPT ![l] =
                       [stage |-> "sent", page |-> p, filter |-> f, count |-> 0, rows |-> {},
                        others |-> {}, intact |-> TRUE]]
        /\ mixed' = (\E other \in Loads : loads[other] # None)
  BY DEF SendLoad
<1> DEFINE new == [stage |-> "sent", page |-> p, filter |-> f, count |-> 0, rows |-> {},
                   others |-> {}, intact |-> TRUE]
<1>2. new \in Load /\ new.stage = "sent" /\ new.rows = {}
  BY DEF Load
<1>3. loads \in [Loads -> Load \cup {None}] /\ sent \in Nat
  BY DEF TypeOK
<1>4. loads' = [loads EXCEPT ![l] = new]
  BY <1>1
<1> HIDE DEF new
<1>5. new # None
  BY <1>2, NoneAssumption
<1>6. loads' \in [Loads -> Load \cup {None}] /\ loads'[l] = new
      /\ \A m \in Loads \ {l} : loads'[m] = loads[m]
  BY <1>2, <1>3, <1>4
<1>7. mixed' \in BOOLEAN /\ (mixed' <=> \E other \in Loads : loads[other] # None)
  BY <1>1
<1>8. sent' \in Nat
  BY <1>1, <1>3
<1>9. QED
  BY <1>1, <1>2, <1>5, <1>6, <1>7, <1>8

\* Every user action that loads a page sends it for a page and a filter there are.
LEMMA SendsProperly ==
  ASSUME TypeOK,
         Open \/ SearchCache \/ (\E delta \in {-1, 1} : ChangePage(delta)) \/ (\E d \in Removals : Removed(d))
  PROVE  \E p \in Nat \ {0}, f \in Filters :
           page' = p /\ filter' = f /\ SendLoad(p, f, loads)
<1>1. page \in Nat \ {0} /\ filter \in Filters /\ total \in Nat
  BY DEF TypeOK
<1>2. CASE Open
  BY <1>1, <1>2 DEF Open
<1>3. CASE SearchCache
  BY <1>1, <1>3 DEF SearchCache
<1>4. ASSUME NEW delta \in {-1, 1}, ChangePage(delta)
      PROVE  \E p \in Nat \ {0}, f \in Filters : page' = p /\ filter' = f /\ SendLoad(p, f, loads)
  <2>1. TotalPages(total) \in Nat
    BY <1>1, TotalPagesSuffice
  <2>2. page + delta \in Nat \ {0}
    BY <1>4, <2>1 DEF ChangePage
  <2>3. QED
    BY <1>1, <1>4, <2>2 DEF ChangePage
<1>5. ASSUME NEW d \in Removals, Removed(d)
      PROVE  \E p \in Nat \ {0}, f \in Filters : page' = p /\ filter' = f /\ SendLoad(p, f, loads)
  <2>1. page' \in Nat \ {0}
    BY <1>1, <1>5 DEF Removed
  <2>2. PICK p \in Nat \ {0} : p = page'
    BY <2>1
  <2>3. SendLoad(p, filter, loads)
    BY <1>5, <2>2 DEF Removed, SendLoad
  <2>4. filter' = filter
    BY <1>5 DEF Removed
  <2>5. QED
    BY <1>1, <2>2, <2>3, <2>4
<1>6. QED
  BY <1>2, <1>3, <1>4, <1>5

\* What a change of the table does to the loads and the walk.
LEMMA Became ==
  ASSUME TypeOK, NEW rows, Becomes(rows)
  PROVE  \/ table' = table /\ loads' = loads /\ walk' = walk
         \/ /\ walk' = NoWalk /\ loads' \in [Loads -> Load \cup {None}]
            /\ \A l \in Loads : loads[l] = None => loads'[l] = None
            /\ \A l \in Loads : loads[l] # None =>
                 loads'[l] # None /\ loads'[l] = [loads[l] EXCEPT !.intact = FALSE]
<1>1. CASE rows = table
  BY <1>1 DEF Becomes
<1>2. CASE rows # table
  <2>1. /\ loads' = [l \in Loads |-> IF loads[l] = None THEN None ELSE [loads[l] EXCEPT !.intact = FALSE]]
        /\ walk' = NoWalk
    BY <1>2 DEF Becomes
  <2>2. loads \in [Loads -> Load \cup {None}]
    BY DEF TypeOK
  <2>3. \A load \in Load : [load EXCEPT !.intact = FALSE] \in Load
    BY DEF Load
  <2>4. QED
    BY <2>1, <2>2, <2>3, NoneAssumption
<1>3. QED
  BY <1>1, <1>2

\* Rows are deleted, or the table is what it was.
LEMMA Changes ==
  ASSUME (\E row \in table : Purge(row)) \/ (\E d \in Removals : Remove(d)) \/ RollbackImport
  PROVE  /\ \E rows : Becomes(rows)
         /\ RollbackImport \/ \E ids : DeleteByIds(ids)
         /\ UNCHANGED <<sent, page, filter, screen, mixed>>
<1>1. ASSUME NEW ids, DeleteByIds(ids)
      PROVE  \E rows : Becomes(rows)
  <2>1. PICK rows : rows = {row \in table : row.id \notin ids}
    OBVIOUS
  <2>2. QED
    BY <1>1, <2>1 DEF DeleteByIds
<1>2. CASE RollbackImport
  BY <1>2 DEF RollbackImport
<1>3. CASE (\E row \in table : Purge(row)) \/ (\E d \in Removals : Remove(d))
  BY <1>1, <1>3 DEF Purge, Remove
<1>4. QED
  BY <1>2, <1>3

\* What storing a question does to them.
LEMMA Inserted ==
  ASSUME TypeOK, NEW q \in Questions, Insert(q)
  PROVE  /\ issued + 1 \in Ids /\ issued' = issued + 1
         /\ table' = table \cup {[id |-> issued + 1, question |-> q]}
         /\ loads' \in [Loads -> Load \cup {None}]
         /\ \A l \in Loads :
              \/ loads'[l] = loads[l] /\ (loads[l] = None \/ loads[l].stage # "counted")
              \/ /\ loads[l] # None /\ loads'[l] # None
                 /\ loads'[l] = [loads[l] EXCEPT !.intact = FALSE]
<1>1. issued + 1 \in Ids
  <2>1. issued \in 0..MaxId /\ issued < MaxId
    BY DEF Insert, TypeOK
  <2>2. QED
    BY <2>1, Numbers DEF Ids
<1>2. loads' = [l \in Loads |->
                 IF loads[l] # None /\ loads[l].stage = "counted" THEN [loads[l] EXCEPT !.intact = FALSE]
                 ELSE loads[l]]
  BY DEF Insert
<1>3. loads \in [Loads -> Load \cup {None}]
  BY DEF TypeOK
<1>4. \A load \in Load : [load EXCEPT !.intact = FALSE] \in Load
  BY DEF Load
<1>5. QED
  BY <1>1, <1>2, <1>3, <1>4, NoneAssumption DEF Insert

\* What the steps of a load do to it.
LEMMA LoadGoesOn ==
  ASSUME TypeOK, Fits(table), NEW l \in Loads, Count(l) \/ Select(l)
  PROVE  /\ loads' \in [Loads -> Load \cup {None}]
         /\ loads[l] # None /\ loads'[l] # None
         /\ loads'[l].page = loads[l].page /\ loads'[l].filter = loads[l].filter
         /\ loads'[l].intact = loads[l].intact
         /\ \A m \in Loads \ {l} : loads'[m] = loads[m]
         /\ Count(l) => /\ loads'[l].stage = "counted" /\ loads'[l].rows = loads[l].rows
                        /\ loads'[l].count = Cardinality(Matching(loads[l].filter))
         /\ Select(l) =>
              /\ loads[l].stage = "counted" /\ loads'[l].stage = "read"
              /\ loads'[l].count = loads[l].count
              /\ loads'[l].rows = PageOf(Matching(loads[l].filter), loads[l].page)
              /\ loads[l].page = 1 =>
                   loads'[l].others = Matching(loads[l].filter) \ loads'[l].rows
<1>1. loads \in [Loads -> Load \cup {None}] /\ loads[l] \in Load
  BY DEF TypeOK, Count, Select
<1>2. PICK load \in Load : load = loads[l]
  BY <1>1
<1>3. /\ load.page \in Nat \ {0} /\ load.filter \in Filters /\ load.count \in Nat
      /\ load.intact \in BOOLEAN /\ load.rows \in SUBSET Row /\ load.others \in SUBSET Row
  BY DEF Load
<1> DEFINE all == Matching(load.filter)
           rows == PageOf(all, load.page)
<1>4. Cardinality(all) \in Nat /\ all \subseteq Row /\ rows \subseteq Row
  BY MatchingFinite DEF PageOf
<1>5. CASE Count(l)
  <2> DEFINE new == [load EXCEPT !.stage = "counted", !.count = Cardinality(all)]
  <2>1. loads' = [loads EXCEPT ![l] = new]
    BY <1>1, <1>2, <1>5 DEF Count
  <2>2. /\ new \in Load /\ new.stage = "counted" /\ new.count = Cardinality(all)
        /\ new.page = load.page /\ new.filter = load.filter /\ new.intact = load.intact
        /\ new.rows = load.rows
    BY <1>4 DEF Load
  <2>3. loads[l].stage = "sent"
    BY <1>5 DEF Count
  <2> HIDE DEF new
  <2>4. loads'[l] = new /\ \A m \in Loads \ {l} : loads'[m] = loads[m]
    BY <1>1, <2>1
  <2>5. loads' \in [Loads -> Load \cup {None}]
    BY <1>1, <2>1, <2>2
  <2>6. ~Select(l)
    BY <2>3 DEF Select
  <2>7. QED
    BY <1>2, <2>2, <2>4, <2>5, <2>6, NoneAssumption
<1>6. CASE Select(l)
  <2> DEFINE new == [load EXCEPT !.stage = "read", !.rows = rows,
                                 !.others = IF load.page = 1 THEN all \ rows ELSE {}]
  <2>1. loads' = [loads EXCEPT ![l] = new]
    BY <1>1, <1>2, <1>6 DEF Select
  <2>2. /\ new \in Load /\ new.stage = "read" /\ new.count = load.count
        /\ new.page = load.page /\ new.filter = load.filter /\ new.intact = load.intact
        /\ new.rows = rows /\ (load.page = 1 => new.others = all \ rows)
    BY <1>4 DEF Load
  <2>3. loads[l].stage = "counted"
    BY <1>6 DEF Select
  <2> HIDE DEF new
  <2>4. loads'[l] = new /\ \A m \in Loads \ {l} : loads'[m] = loads[m]
    BY <1>1, <2>1
  <2>5. loads' \in [Loads -> Load \cup {None}]
    BY <1>1, <2>1, <2>2
  <2>6. ~Count(l)
    BY <2>3 DEF Count
  <2>7. QED
    BY <1>2, <2>2, <2>3, <2>4, <2>5, <2>6, NoneAssumption
<1>7. QED
  BY <1>5, <1>6

\* A deletion that is under way keeps what it names and what was seen; a new one names rows
\* on screen, and has seen them.
LEMMA RemovalHistory ==
  ASSUME TypeOK, [Next]_vars
  PROVE  /\ removals' \in [Removals -> Removal \cup {None}]
         /\ \A d \in Removals : removals'[d] # None =>
              \/ removals[d] # None /\ removals'[d].ids = removals[d].ids
                 /\ removals'[d].seen = removals[d].seen
              \/ /\ removals'[d].ids \subseteq IdsOf(items)
                 /\ removals'[d].seen = {row \in items : row.id \in removals'[d].ids}
<1>a. /\ removals \in [Removals -> Removal \cup {None}]
      /\ items \subseteq Row /\ selected \subseteq IdsOf(items)
  BY DEF TypeOK
<1>1. ASSUME NEW kind \in {"one", "batch"}, NEW ids, ids \subseteq IdsOf(items), SendRemoval(kind, ids)
      PROVE  /\ removals' \in [Removals -> Removal \cup {None}]
             /\ \A d \in Removals : removals'[d] # None =>
                  \/ removals[d] # None /\ removals'[d].ids = removals[d].ids
                     /\ removals'[d].seen = removals[d].seen
                  \/ /\ removals'[d].ids \subseteq IdsOf(items)
                     /\ removals'[d].seen = {row \in items : row.id \in removals'[d].ids}
  <2> DEFINE new == [kind |-> kind, stage |-> "sent", ids |-> ids,
                     seen |-> {row \in items : row.id \in ids}]
  <2>1. PICK d \in Removals : removals' = [removals EXCEPT ![d] = new]
    BY <1>1 DEF SendRemoval
  <2>2. new \in Removal /\ new.ids = ids /\ new.seen = {row \in items : row.id \in ids}
    <3>1. ids \in SUBSET Ids /\ {row \in items : row.id \in ids} \in SUBSET Row
      BY <1>a, <1>1 DEF IdsOf, Row
    <3>2. QED
      BY <3>1 DEF Removal
  <2> HIDE DEF new
  <2>3. removals'[d] = new /\ \A e \in Removals \ {d} : removals'[e] = removals[e]
    BY <1>a, <2>1
  <2>4. removals' \in [Removals -> Removal \cup {None}]
    BY <1>a, <2>1, <2>2
  <2>5. QED
    BY <1>1, <2>2, <2>3, <2>4
<1>2. CASE UNCHANGED removals
  BY <1>a, <1>2
<1>3. ASSUME NEW item \in items, DeleteCacheItem(item)
      PROVE  SendRemoval("one", {item.id}) /\ {item.id} \subseteq IdsOf(items)
  BY <1>3 DEF DeleteCacheItem, IdsOf
<1>4. CASE DeleteSelected
  BY <1>a, <1>1, <1>4 DEF DeleteSelected
<1>5. ASSUME NEW d \in Removals, Remove(d) \/ Removed(d) \/ RemovalFails(d)
      PROVE  \/ removals' = [removals EXCEPT ![d] = None]
             \/ /\ removals[d] # None
                /\ removals' = [removals EXCEPT ![d] = [removals[d] EXCEPT !.stage = "deleted"]]
  <2>1. CASE Removed(d) \/ RemovalFails(d)
    BY <2>1 DEF Removed, RemovalFails
  <2>2. CASE Remove(d)
    BY <1>a, <2>2 DEF Remove
  <2>3. QED
    BY <1>5, <2>1, <2>2
<1>6. ASSUME NEW d \in Removals, removals' = [removals EXCEPT ![d] = None]
      PROVE  /\ removals' \in [Removals -> Removal \cup {None}]
             /\ \A e \in Removals : removals'[e] # None => removals'[e] = removals[e]
  BY <1>a, <1>6
<1>7. ASSUME NEW d \in Removals, removals[d] # None,
             removals' = [removals EXCEPT ![d] = [removals[d] EXCEPT !.stage = "deleted"]]
      PROVE  /\ removals' \in [Removals -> Removal \cup {None}]
             /\ \A e \in Removals : removals'[e] # None =>
                  /\ removals[e] # None
                  /\ removals'[e].ids = removals[e].ids /\ removals'[e].seen = removals[e].seen
  <2> DEFINE new == [removals[d] EXCEPT !.stage = "deleted"]
  <2>1. removals[d] \in Removal
    BY <1>a, <1>7
  <2>2. new \in Removal /\ new.ids = removals[d].ids /\ new.seen = removals[d].seen
    BY <2>1 DEF Removal
  <2>3. removals' = [removals EXCEPT ![d] = new]
    BY <1>7
  <2> HIDE DEF new
  <2>4. QED
    BY <1>a, <1>7, <2>2, <2>3
<1>8. \/ \E d \in Removals : Remove(d) \/ Removed(d) \/ RemovalFails(d)
      \/ \E item \in items : DeleteCacheItem(item)
      \/ DeleteSelected
      \/ UNCHANGED removals
  BY Steps DEF Insert, Purge, BeginImport, CommitImport, RollbackImport, Count, Select, Deliver,
               LoadFails, Open, SearchCache, Type, ChangePage, ToggleSelect, ToggleSelectAll, vars
<1>9. CASE \E d \in Removals : Remove(d) \/ Removed(d) \/ RemovalFails(d)
  BY <1>5, <1>6, <1>7, <1>9
<1>10. CASE \E item \in items : DeleteCacheItem(item)
  BY <1>1, <1>3, <1>10
<1>11. QED
  BY <1>2, <1>4, <1>8, <1>9, <1>10

\* Whatever a step does to the loads, they stay loads.
LEMMA LoadsStayLoads ==
  ASSUME TypeOK, Fits(table), [Next]_vars
  PROVE  loads' \in [Loads -> Load \cup {None}] /\ sent' \in Nat /\ mixed' \in BOOLEAN
<1>a. loads \in [Loads -> Load \cup {None}] /\ sent \in Nat /\ mixed \in BOOLEAN
  BY DEF TypeOK
<1>1. CASE UNCHANGED <<sent, loads, mixed>>
  BY <1>a, <1>1
<1>2. ASSUME NEW l \in Loads, Count(l) \/ Select(l)
      PROVE  loads' \in [Loads -> Load \cup {None}] /\ UNCHANGED <<sent, mixed>>
  BY <1>2, LoadGoesOn DEF Count, Select
<1>3. ASSUME NEW l \in Loads, Deliver(l) \/ LoadFails(l)
      PROVE  /\ loads' \in [Loads -> Load \cup {None}] /\ sent' = sent
             /\ mixed' = mixed \/ mixed' = TRUE
  BY <1>a, <1>3 DEF Deliver, LoadFails
<1>4. ASSUME NEW q \in Questions, Insert(q)
      PROVE  loads' \in [Loads -> Load \cup {None}] /\ UNCHANGED <<sent, mixed>>
  BY <1>4, Inserted DEF Insert
<1>5. ASSUME NEW rows, Becomes(rows)
      PROVE  loads' \in [Loads -> Load \cup {None}]
  BY <1>a, <1>5, Became
<1>6. ASSUME NEW p \in Nat \ {0}, NEW f \in Filters, SendLoad(p, f, loads)
      PROVE  loads' \in [Loads -> Load \cup {None}] /\ sent' \in Nat /\ mixed' \in BOOLEAN
  BY <1>6, LoadSent
<1>7. \/ UNCHANGED <<sent, loads, mixed>>
      \/ \E l \in Loads : Count(l) \/ Select(l)
      \/ \E l \in Loads : Deliver(l) \/ LoadFails(l)
      \/ \E q \in Questions : Insert(q)
      \/ (\E rows : Becomes(rows)) /\ UNCHANGED <<sent, mixed>>
      \/ Open \/ SearchCache \/ (\E delta \in {-1, 1} : ChangePage(delta)) \/ (\E d \in Removals : Removed(d))
      \/ \E f \in Filters : Type(f)
  BY Steps, Changes DEF BeginImport, CommitImport, ToggleSelect, ToggleSelectAll,
                        DeleteCacheItem, DeleteSelected, RemovalFails, vars
<1>8. CASE \E f \in Filters : Type(f)
  BY <1>a, <1>8 DEF Type
<1>9. QED
  BY <1>a, <1>1, <1>2, <1>3, <1>4, <1>5, <1>6, <1>7, <1>8, SendsProperly

\* Only these steps touch the tables, ...
LEMMA TableSteps ==
  ASSUME [Next]_vars
  PROVE  \/ \E q \in Questions : Insert(q)
         \/ \E ids : DeleteByIds(ids)
         \/ BeginImport
         \/ CommitImport
         \/ RollbackImport
         \/ UNCHANGED server
BY Steps, Changes DEF Count, Select, Deliver, LoadFails, Open, SearchCache, Type, ChangePage,
             ToggleSelect, ToggleSelectAll, DeleteCacheItem, DeleteSelected, Removed, RemovalFails,
             vars, server

\* ... the rows of them ...
LEMMA RowSteps ==
  ASSUME [Next]_vars
  PROVE  \/ \E q \in Questions : Insert(q)
         \/ \E rows : Becomes(rows)
         \/ UNCHANGED table
BY Steps, Changes DEF BeginImport, CommitImport, Count, Select, Deliver, LoadFails, Open,
             SearchCache, Type, ChangePage, ToggleSelect, ToggleSelectAll, DeleteCacheItem,
             DeleteSelected, Removed, RemovalFails, vars, server

\* ... and the walk.
LEMMA WalkSteps ==
  ASSUME [Next]_vars
  PROVE  \/ \E l \in Loads : Deliver(l)
         \/ (\E rows : Becomes(rows)) /\ UNCHANGED screen
         \/ UNCHANGED <<walk, total>>
BY Steps, Changes DEF BeginImport, CommitImport, Count, Select, Insert, LoadFails, Open,
             SearchCache, Type, ChangePage, ToggleSelect, ToggleSelectAll, DeleteCacheItem,
             DeleteSelected, Removed, RemovalFails, vars, screen

\* What the steps of an import's transaction do to the tables.
LEMMA Transaction ==
  ASSUME TypeOK
  PROVE  /\ BeginImport => /\ before' \in Snapshot /\ before' # None /\ before = None
                           /\ before'.table = table /\ before'.issued = issued
                           /\ before'.given = {} /\ begun' = begun + 1
                           /\ UNCHANGED <<table, issued, revoked>>
         /\ before # None => before \in Snapshot
         /\ \A row : Given(row) /\ before = None => before' = None
         /\ \A row \in Row : Given(row) /\ before # None =>
              /\ before' \in Snapshot /\ before' # None
              /\ before'.table = before.table /\ before'.issued = before.issued
              /\ before'.given = before.given \cup {row}
<1>1. table \in SUBSET Row /\ issued \in 0..MaxId /\ before \in Snapshot \cup {None}
  BY DEF TypeOK
<1>2. ASSUME NEW t \in SUBSET Row, NEW n \in 0..MaxId, NEW g \in SUBSET Row
      PROVE  /\ [table |-> t, issued |-> n, given |-> g] \in Snapshot
             /\ [table |-> t, issued |-> n, given |-> g] # None
  BY NoneAssumption DEF Snapshot
<1>3. ASSUME BeginImport
      PROVE  /\ before' \in Snapshot /\ before' # None /\ before = None
             /\ before'.table = table /\ before'.issued = issued
             /\ before'.given = {} /\ begun' = begun + 1
             /\ UNCHANGED <<table, issued, revoked>>
  BY <1>1, <1>2, <1>3 DEF BeginImport
<1>4. ASSUME NEW row \in Row, Given(row), before # None
      PROVE  /\ before' \in Snapshot /\ before' # None
             /\ before'.table = before.table /\ before'.issued = before.issued
             /\ before'.given = before.given \cup {row}
  <2>1. before \in Snapshot
    BY <1>1, <1>4
  <2>2. /\ before.table \in SUBSET Row /\ before.issued \in 0..MaxId
        /\ before.given \cup {row} \in SUBSET Row
    BY <2>1 DEF Snapshot
  <2>3. before' = [table |-> before.table, issued |-> before.issued,
                   given |-> before.given \cup {row}]
    BY <1>4, <2>1 DEF Given, Snapshot
  <2>4. QED
    BY <1>2, <2>2, <2>3
<1>5. ASSUME NEW row, Given(row), before = None
      PROVE  before' = None
  BY <1>5 DEF Given
<1>6. QED
  BY <1>1, <1>3, <1>4, <1>5

LEMMA TableStaysTable ==
  ASSUME TypeOK, [Next]_vars
  PROVE  /\ table' \in SUBSET Row /\ issued' \in 0..MaxId
         /\ before' \in Snapshot \cup {None} /\ begun' \in Nat /\ revoked' \subseteq Row
<1> DEFINE Goal == /\ table' \in SUBSET Row /\ issued' \in 0..MaxId
                   /\ before' \in Snapshot \cup {None} /\ begun' \in Nat /\ revoked' \subseteq Row
<1>a. /\ table \in SUBSET Row /\ issued \in 0..MaxId
      /\ before \in Snapshot \cup {None} /\ begun \in Nat /\ revoked \subseteq Row
  BY DEF TypeOK
<1>1. ASSUME NEW q \in Questions, Insert(q)
      PROVE  Goal
  <2>1. issued + 1 \in Ids /\ issued' = issued + 1
        /\ table' = table \cup {[id |-> issued + 1, question |-> q]}
    BY <1>1, Inserted
  <2>2. [id |-> issued + 1, question |-> q] \in Row
    BY <2>1 DEF Row
  <2>3. UNCHANGED <<begun, revoked>> /\ Given([id |-> issued + 1, question |-> q])
    BY <1>1 DEF Insert
  <2>4. before' \in Snapshot \cup {None}
    BY <2>2, <2>3, Transaction
  <2>5. QED
    BY <1>a, <2>1, <2>2, <2>3, <2>4 DEF Ids
<1>2. ASSUME NEW ids, DeleteByIds(ids)
      PROVE  Goal
  BY <1>a, <1>2 DEF DeleteByIds, Becomes
<1>3. CASE BeginImport
  BY <1>a, <1>3, Transaction
<1>4. CASE CommitImport
  BY <1>a, <1>4 DEF CommitImport
<1>5. CASE RollbackImport
  <2>1. before \in Snapshot
    BY <1>a, <1>5 DEF RollbackImport
  <2>2. before.table \in SUBSET Row /\ before.issued \in 0..MaxId /\ before.given \in SUBSET Row
    BY <2>1 DEF Snapshot
  <2>3. QED
    BY <1>a, <1>5, <2>2 DEF RollbackImport, Becomes
<1>6. CASE UNCHANGED server
  BY <1>a, <1>6 DEF server
<1>7. QED
  BY <1>1, <1>2, <1>3, <1>4, <1>5, <1>6, TableSteps

LEMMA NoWalkType == NoWalk \in [intact : BOOLEAN, page : Nat, filter : Filters, unseen : SUBSET Row]
                    /\ NoWalk.intact = FALSE
BY FiltersAssumption DEF NoWalk

LEMMA WalkStaysWalk ==
  ASSUME TypeOK, [Next]_vars
  PROVE  walk' \in [intact : BOOLEAN, page : Nat, filter : Filters, unseen : SUBSET Row]
         /\ total' \in Nat
<1>a. walk \in [intact : BOOLEAN, page : Nat, filter : Filters, unseen : SUBSET Row] /\ total \in Nat
  BY DEF TypeOK
<1>1. ASSUME NEW l \in Loads, Deliver(l)
      PROVE  walk' \in [intact : BOOLEAN, page : Nat, filter : Filters, unseen : SUBSET Row]
             /\ total' \in Nat
  <2>1. loads[l] \in Load /\ walk' = WalkOn(loads[l]) /\ total' = loads[l].count
    BY <1>1 DEF Deliver, TypeOK
  <2>2. PICK load \in Load : load = loads[l]
    BY <2>1
  <2>3. WalkOn(load) \in [intact : BOOLEAN, page : Nat, filter : Filters, unseen : SUBSET Row]
    BY <1>a, NoWalkType DEF WalkOn, Load
  <2>4. QED
    BY <2>1, <2>2, <2>3 DEF Load
<1>2. ASSUME NEW rows, Becomes(rows), UNCHANGED screen
      PROVE  walk' \in [intact : BOOLEAN, page : Nat, filter : Filters, unseen : SUBSET Row]
             /\ total' \in Nat
  BY <1>a, <1>2, Became, NoWalkType DEF screen
<1>3. QED
  BY <1>a, <1>1, <1>2, WalkSteps

LEMMA ScreenStaysScreen ==
  ASSUME TypeOK, [Next]_vars
  PROVE  /\ page' \in Nat \ {0} /\ filter' \in Filters
         /\ items' \in SUBSET Row /\ selected' \subseteq IdsOf(items')
<1>a. /\ page \in Nat \ {0} /\ filter \in Filters
      /\ items \in SUBSET Row /\ selected \subseteq IdsOf(items)
  BY DEF TypeOK
<1>1. CASE UNCHANGED <<page, filter, items, selected>>
  BY <1>a, <1>1
<1>2. ASSUME NEW l \in Loads, Deliver(l)
      PROVE  UNCHANGED <<page, filter>> /\ items' \in SUBSET Row /\ selected' \subseteq IdsOf(items')
  <2>1. loads[l] \in Load
    BY <1>2 DEF Deliver, TypeOK
  <2>2. QED
    BY <1>2, <2>1 DEF Deliver, Load
<1>3. ASSUME \/ Open \/ SearchCache \/ \E delta \in {-1, 1} : ChangePage(delta)
             \/ \E d \in Removals : Removed(d)
      PROVE  page' \in Nat \ {0} /\ filter' \in Filters
  BY <1>3, SendsProperly
<1>4. ASSUME \/ Open \/ SearchCache \/ \E delta \in {-1, 1} : ChangePage(delta)
             \/ \E d \in Removals : Removed(d)
      PROVE  items' = items /\ (selected' = selected \/ selected' = {})
  BY <1>4 DEF Open, SearchCache, ChangePage, Removed, screen
<1>5. ASSUME NEW f \in Filters, Type(f)
      PROVE  filter' \in Filters /\ UNCHANGED <<page, items, selected>>
  BY <1>5 DEF Type, screen
<1>6. ASSUME ToggleSelectAll \/ \E item \in items : ToggleSelect(item.id)
      PROVE  UNCHANGED <<page, filter, items>> /\ selected' \subseteq IdsOf(items)
  BY <1>a, <1>6 DEF ToggleSelectAll, ToggleSelect
<1>7. \/ UNCHANGED <<page, filter, items, selected>>
      \/ \E l \in Loads : Deliver(l)
      \/ Open \/ SearchCache \/ (\E delta \in {-1, 1} : ChangePage(delta)) \/ (\E d \in Removals : Removed(d))
      \/ \E f \in Filters : Type(f)
      \/ ToggleSelectAll \/ \E item \in items : ToggleSelect(item.id)
  BY Steps, Changes DEF Insert, BeginImport, CommitImport, Count, Select, LoadFails,
                        DeleteCacheItem, DeleteSelected, RemovalFails, vars, screen
<1>8. QED
  BY <1>a, <1>1, <1>2, <1>3, <1>4, <1>5, <1>6, <1>7

LEMMA TypeStep ==
  ASSUME TypeOK, Fits(table), [Next]_vars
  PROVE  TypeOK'
BY TableStaysTable, ScreenStaysScreen, WalkStaysWalk, LoadsStayLoads, RemovalHistory DEF TypeOK

-----------------------------------------------------------------------------
(* What was read of the table stays true                                    *)

\* A row that is stored makes nothing wrong that is known, ...
LEMMA AgreesWithMore ==
  ASSUME NEW known \in Row, NEW rows, NEW n \in Nat, Agree(known, rows, n), NEW q
  PROVE  Agree(known, rows \cup {[id |-> n + 1, question |-> q]}, n + 1)
<1>1. known.id \in Nat /\ known.id <= n
  BY DEF Row, Ids, Agree
<1>2. known.id <= n + 1 /\ known.id # n + 1
  BY <1>1
<1>3. QED
  BY <1>2 DEF Agree

\* ... nor does one that is deleted.
LEMMA AgreesWithLess ==
  ASSUME NEW known, NEW rows, NEW less, less \subseteq rows, NEW n, Agree(known, rows, n)
  PROVE  Agree(known, less, n)
BY DEF Agree

LEMMA TableFits ==
  ASSUME TypeOK, [Next]_vars, Fits(table), SnapshotFits
  PROVE  Fits(table)'
<1>a. issued \in Nat /\ table \subseteq Row
  BY DEF TypeOK
<1>f. \A known \in table : Agree(known, table, issued)
  BY DEF Fits
<1> SUFFICES \A known \in table' : Agree(known, table', issued')
  BY DEF Fits, Agree
<1>1. ASSUME NEW q \in Questions, Insert(q), NEW known \in table'
      PROVE  Agree(known, table', issued')
  <2>1. issued' = issued + 1 /\ table' = table \cup {[id |-> issued + 1, question |-> q]}
    BY <1>1, Inserted
  <2>2. CASE known \in table
    BY <1>a, <1>f, <2>1, <2>2, AgreesWithMore
  <2>3. CASE known = [id |-> issued + 1, question |-> q]
    <3>1. \A row \in table : row.id \in Nat /\ row.id <= issued
      BY <1>a, <1>f DEF Agree, Row, Ids
    <3>2. \A row \in table : row.id # issued + 1
      BY <1>a, <3>1
    <3>3. known.id = issued + 1 /\ issued + 1 <= issued + 1
      BY <1>a, <2>3
    <3>4. QED
      BY <2>1, <2>3, <3>2, <3>3 DEF Agree
  <2>4. QED
    BY <1>1, <2>1, <2>2, <2>3
<1>2. ASSUME NEW ids, DeleteByIds(ids)
      PROVE  \A known \in table' : Agree(known, table', issued')
  <2>1. table' \subseteq table /\ issued' = issued
    BY <1>2 DEF DeleteByIds, Becomes
  <2>2. QED
    BY <1>f, <2>1, AgreesWithLess
<1>3. CASE RollbackImport
  BY <1>3 DEF RollbackImport, Becomes, SnapshotFits
<1>4. CASE BeginImport \/ CommitImport
  BY <1>4, <1>f DEF BeginImport, CommitImport
<1>5. CASE UNCHANGED server
  BY <1>5, <1>f DEF server
<1>6. QED
  BY <1>1, <1>2, <1>3, <1>4, <1>5, TableSteps

LEMMA SnapshotStep ==
  ASSUME TypeOK, [Next]_vars, Fits(table), SnapshotFits
  PROVE  SnapshotFits'
<1> SUFFICES ASSUME before' # None
             PROVE  /\ table' \subseteq before'.table \cup before'.given
                    /\ \A known \in before'.table : Agree(known, before'.table, before'.issued)
  BY DEF SnapshotFits, Agree
<1>1. ASSUME NEW q \in Questions, Insert(q)
      PROVE  /\ table' \subseteq before'.table \cup before'.given
             /\ \A known \in before'.table : Agree(known, before'.table, before'.issued)
  <2>1. issued + 1 \in Ids /\ table' = table \cup {[id |-> issued + 1, question |-> q]}
    BY <1>1, Inserted
  <2>2. PICK row : row = [id |-> issued + 1, question |-> q]
    OBVIOUS
  <2>3. row \in Row /\ Given(row) /\ table' = table \cup {row}
    BY <1>1, <2>1, <2>2 DEF Row, Insert
  <2>4. /\ before # None /\ before'.table = before.table /\ before'.issued = before.issued
        /\ before'.given = before.given \cup {row}
    BY <2>3, Transaction
  <2>5. QED
    BY <2>3, <2>4 DEF SnapshotFits
<1>2. ASSUME NEW ids, DeleteByIds(ids)
      PROVE  table' \subseteq table /\ before' = before
  BY <1>2 DEF DeleteByIds, Becomes
<1>3. CASE BeginImport
  BY <1>3, Transaction DEF Fits
<1>4. ~CommitImport /\ ~RollbackImport
  BY DEF CommitImport, RollbackImport
<1>5. CASE UNCHANGED server
  BY <1>5 DEF server, SnapshotFits
<1>6. QED
  BY <1>1, <1>2, <1>3, <1>4, <1>5, TableSteps DEF SnapshotFits

LEMMA HoldsStays ==
  ASSUME TypeOK, [Next]_vars, NEW rows, rows \subseteq Row, Holds(rows)
  PROVE  Holds(rows)'
<1>a. issued \in Nat
  BY DEF TypeOK
<1> SUFFICES ASSUME NEW known \in rows
             PROVE  \/ known \in revoked'
                    \/ /\ Agree(known, table', issued')
                       /\ before' # None =>
                            known \in before'.given \/ Agree(known, before'.table, before'.issued)
  BY DEF Holds, Agree
<1> DEFINE Goal == \/ known \in revoked'
                   \/ /\ Agree(known, table', issued')
                      /\ before' # None =>
                           known \in before'.given \/ Agree(known, before'.table, before'.issued)
<1>b. \/ known \in revoked
      \/ /\ Agree(known, table, issued)
         /\ before # None =>
              known \in before.given \/ Agree(known, before.table, before.issued)
  BY DEF Holds
<1>1. ASSUME NEW q \in Questions, Insert(q)
      PROVE  Goal
  <2>1. /\ issued + 1 \in Ids /\ issued' = issued + 1
        /\ table' = table \cup {[id |-> issued + 1, question |-> q]}
    BY <1>1, Inserted
  <2>2. revoked' = revoked
    BY <1>1 DEF Insert
  <2>3. Agree(known, table, issued) => Agree(known, table', issued')
    BY <1>a, <2>1, AgreesWithMore
  <2>4. PICK row : row = [id |-> issued + 1, question |-> q]
    OBVIOUS
  <2>5. row \in Row /\ Given(row)
    BY <1>1, <2>1, <2>4 DEF Row, Insert
  <2>6. before' # None =>
          /\ before # None /\ before'.table = before.table /\ before'.issued = before.issued
          /\ before'.given = before.given \cup {row}
    BY <2>5, Transaction
  <2>7. QED
    BY <1>b, <2>2, <2>3, <2>6
<1>2. ASSUME NEW ids, DeleteByIds(ids)
      PROVE  Goal
  <2>1. table' \subseteq table /\ UNCHANGED <<issued, before, revoked>>
    BY <1>2 DEF DeleteByIds, Becomes
  <2>2. Agree(known, table, issued) => Agree(known, table', issued')
    BY <2>1, AgreesWithLess
  <2>3. QED
    BY <1>b, <2>1, <2>2
<1>3. CASE BeginImport
  BY <1>3, <1>b, Transaction
<1>4. CASE CommitImport
  BY <1>4, <1>b DEF CommitImport
<1>5. CASE RollbackImport
  <2>1. /\ before # None /\ before' = None /\ table' = before.table /\ issued' = before.issued
        /\ revoked' = revoked \cup before.given
    BY <1>5 DEF RollbackImport, Becomes
  <2>2. QED
    BY <1>b, <2>1
<1>6. CASE UNCHANGED server
  BY <1>6, <1>b DEF server
<1>7. QED
  BY <1>1, <1>2, <1>3, <1>4, <1>5, <1>6, TableSteps

\* What is read of the table holds.
LEMMA ReadHolds ==
  ASSUME Fits(table), SnapshotFits, NEW rows, rows \subseteq table
  PROVE  Holds(rows)
BY DEF Fits, SnapshotFits, Holds

\* The rows of a load are those it had, none, or some of the table.
LEMMA LoadHistory ==
  ASSUME TypeOK, Fits(table), [Next]_vars, NEW l \in Loads, loads'[l] # None
  PROVE  \/ loads'[l].rows = {} /\ loads'[l].stage = "sent" /\ loads[l] = None
         \/ /\ loads[l] # None
            /\ loads'[l].page = loads[l].page /\ loads'[l].filter = loads[l].filter
            /\ loads'[l].intact => loads[l].intact
            /\ \/ Count(l) \/ Select(l)
               \/ /\ loads'[l].stage = loads[l].stage /\ loads'[l].rows = loads[l].rows
                  /\ loads'[l].count = loads[l].count /\ loads'[l].others = loads[l].others
<1>a. loads \in [Loads -> Load \cup {None}]
  BY DEF TypeOK
<1> DEFINE Goal == \/ loads'[l].rows = {} /\ loads'[l].stage = "sent" /\ loads[l] = None
         \/ /\ loads[l] # None
            /\ loads'[l].page = loads[l].page /\ loads'[l].filter = loads[l].filter
            /\ loads'[l].intact => loads[l].intact
            /\ \/ Count(l) \/ Select(l)
               \/ /\ loads'[l].stage = loads[l].stage /\ loads'[l].rows = loads[l].rows
                  /\ loads'[l].count = loads[l].count /\ loads'[l].others = loads[l].others
<1>1. CASE loads'[l] = loads[l]
  BY <1>1
<1>2. CASE /\ loads[l] # None
           /\ loads'[l] = [loads[l] EXCEPT !.intact = FALSE]
  <2>1. loads[l] \in Load
    BY <1>a, <1>2
  <2>2. QED
    BY <1>2, <2>1 DEF Load
<1>3. ASSUME NEW m \in Loads, Count(m) \/ Select(m)
      PROVE  Goal
  BY <1>1, <1>3, LoadGoesOn
<1>4. ASSUME NEW m \in Loads, Deliver(m) \/ LoadFails(m)
      PROVE  Goal
  BY <1>1, <1>4, <1>a DEF Deliver, LoadFails
<1>5. ASSUME NEW q \in Questions, Insert(q)
      PROVE  Goal
  BY <1>1, <1>2, <1>5, Inserted
<1>6. ASSUME NEW rows, Becomes(rows)
      PROVE  Goal
  BY <1>1, <1>2, <1>6, Became
<1>7. ASSUME NEW p \in Nat \ {0}, NEW f \in Filters, SendLoad(p, f, loads)
      PROVE  Goal
  BY <1>1, <1>7, LoadSent
<1>8. \/ UNCHANGED loads
      \/ \E m \in Loads : Count(m) \/ Select(m)
      \/ \E m \in Loads : Deliver(m) \/ LoadFails(m)
      \/ \E q \in Questions : Insert(q)
      \/ \E rows : Becomes(rows)
      \/ Open \/ SearchCache \/ (\E delta \in {-1, 1} : ChangePage(delta)) \/ (\E d \in Removals : Removed(d))
  BY Steps, Changes DEF BeginImport, CommitImport, ToggleSelect, ToggleSelectAll,
                        DeleteCacheItem, DeleteSelected, RemovalFails, Type, vars
<1>9. QED
  BY <1>1, <1>3, <1>4, <1>5, <1>6, <1>7, <1>8, SendsProperly

LEMMA KnownStep ==
  ASSUME TypeOK, KnownFit, [Next]_vars
  PROVE  KnownFit'
<1>a. /\ Fits(table) /\ SnapshotFits /\ table \subseteq Row /\ items \subseteq Row
      /\ loads \in [Loads -> Load \cup {None}] /\ removals \in [Removals -> Removal \cup {None}]
  BY DEF TypeOK, KnownFit
<1>t. Fits(table)' /\ SnapshotFits'
  BY <1>a, TableFits, SnapshotStep
<1>1. \A rows : rows \subseteq Row /\ Holds(rows) => Holds(rows)'
  BY HoldsStays
<1>2. ASSUME NEW rows, rows \subseteq table
      PROVE  Holds(rows) /\ Holds(rows)'
  BY <1>a, <1>1, <1>2, ReadHolds
<1>3. ASSUME NEW l \in Loads, loads'[l] # None
      PROVE  Holds(loads[l].rows)'
  <2>1. PICK rows : rows = loads'[l].rows
    OBVIOUS
  <2>2. CASE rows = {}
    BY <2>1, <2>2 DEF Holds, Agree
  <2>3. CASE Select(l)
    <3>1. rows = PageOf(Matching(loads[l].filter), loads[l].page)
      BY <1>a, <2>1, <2>3, LoadGoesOn
    <3>2. rows \subseteq table
      BY <3>1 DEF PageOf, Matching
    <3>3. QED
      BY <1>2, <2>1, <3>2 DEF Holds, Agree
  <2>4. CASE loads[l] # None /\ rows = loads[l].rows
    <3>1. rows \subseteq Row /\ Holds(rows)
      BY <1>a, <2>4 DEF KnownFit, Load
    <3>2. QED
      BY <1>1, <2>1, <3>1 DEF Holds, Agree
  <2>5. QED
    BY <1>a, <1>3, <2>1, <2>2, <2>3, <2>4, LoadHistory, LoadGoesOn
<1>4. Holds(items)'
  <2>1. PICK rows : rows = items'
    OBVIOUS
  <2>2. CASE items' = items
    BY <1>1, <1>a, <2>1, <2>2 DEF KnownFit
  <2>3. ASSUME NEW l \in Loads, Deliver(l)
        PROVE  Holds(rows)'
    <3>1. loads[l] \in Load /\ loads[l] # None /\ rows = loads[l].rows
      BY <1>a, <2>1, <2>3 DEF Deliver
    <3>2. rows \subseteq Row /\ Holds(rows)
      BY <3>1 DEF KnownFit, Load
    <3>3. QED
      BY <1>1, <3>2
  <2>4. items' = items \/ \E l \in Loads : Deliver(l)
    BY Steps, Changes DEF Insert, BeginImport, CommitImport, Count, Select, LoadFails, Open,
               SearchCache, Type, ChangePage, ToggleSelect, ToggleSelectAll, DeleteCacheItem,
               DeleteSelected, Removed, RemovalFails, vars, screen
  <2>5. QED
    BY <2>1, <2>2, <2>3, <2>4
<1>5. ASSUME NEW d \in Removals, removals'[d] # None
      PROVE  /\ removals'[d].ids \subseteq IdsOf(removals'[d].seen)
             /\ Holds(removals[d].seen)'
  <2>1. PICK ids, seen : ids = removals'[d].ids /\ seen = removals'[d].seen
    OBVIOUS
  <2>2. CASE removals[d] # None /\ ids = removals[d].ids /\ seen = removals[d].seen
    <3>1. removals[d] \in Removal
      BY <1>a, <2>2
    <3>2. ids \subseteq IdsOf(seen) /\ seen \subseteq Row /\ Holds(seen)
      BY <2>2, <3>1 DEF KnownFit, Removal
    <3>3. QED
      BY <1>1, <2>1, <3>2
  <2>3. CASE ids \subseteq IdsOf(items) /\ seen = {row \in items : row.id \in ids}
    <3>1. ids \subseteq IdsOf(seen)
      BY <2>3 DEF IdsOf
    <3>2. seen \subseteq Row /\ Holds(seen)
      BY <1>a, <2>3 DEF KnownFit, Holds, Agree
    <3>3. QED
      BY <1>1, <2>1, <3>1, <3>2 DEF Holds, Agree
  <2>4. QED
    BY <1>5, <2>1, <2>2, <2>3, RemovalHistory
<1>6. QED
  BY <1>t, <1>3, <1>4, <1>5 DEF KnownFit

-----------------------------------------------------------------------------
(* No page skips a row                                                      *)

\* Loads are mixed until one is sent alone.
LEMMA MixedHistory ==
  ASSUME TypeOK, Fits(table), [Next]_vars
  PROVE  \/ /\ mixed' = mixed \/ mixed' = TRUE
            /\ \A l \in Loads : loads'[l] # None => loads[l] # None
         \/ /\ mixed' <=> \E other \in Loads : loads[other] # None
            /\ \E l \in Loads :
                 /\ loads'[l].stage = "sent"
                 /\ \A m \in Loads \ {l} : loads'[m] = loads[m]
<1>a. loads \in [Loads -> Load \cup {None}]
  BY DEF TypeOK
<1> DEFINE Keeps == /\ mixed' = mixed \/ mixed' = TRUE
                    /\ \A l \in Loads : loads'[l] # None => loads[l] # None
<1>1. ASSUME NEW l \in Loads, Count(l) \/ Select(l)
      PROVE  Keeps
  <2>1. /\ loads[l] # None /\ \A m \in Loads \ {l} : loads'[m] = loads[m]
    BY <1>1, LoadGoesOn
  <2>2. mixed' = mixed
    BY <1>1 DEF Count, Select
  <2>3. QED
    BY <2>1, <2>2
<1>2. ASSUME NEW l \in Loads, Deliver(l) \/ LoadFails(l)
      PROVE  Keeps
  BY <1>a, <1>2 DEF Deliver, LoadFails
<1>3. ASSUME NEW q \in Questions, Insert(q)
      PROVE  Keeps
  <2>1. mixed' = mixed
    BY <1>3 DEF Insert
  <2>2. QED
    BY <1>3, <2>1, Inserted
<1>4. ASSUME NEW rows, Becomes(rows), mixed' = mixed
      PROVE  Keeps
  BY <1>4, Became
<1>5. CASE UNCHANGED <<loads, mixed>>
  BY <1>5
<1>6. ASSUME NEW p \in Nat \ {0}, NEW f \in Filters, SendLoad(p, f, loads)
      PROVE  /\ mixed' <=> \E other \in Loads : loads[other] # None
             /\ \E l \in Loads :
                  /\ loads'[l].stage = "sent"
                  /\ \A m \in Loads \ {l} : loads'[m] = loads[m]
  <2>1. mixed' <=> \E other \in Loads : loads[other] # None
    BY <1>6, LoadSent
  <2>2. \E l \in Loads : /\ loads'[l].stage = "sent"
                         /\ \A m \in Loads \ {l} : loads'[m] = loads[m]
    BY <1>6, LoadSent
  <2>3. QED
    BY <2>1, <2>2
<1>7. \/ UNCHANGED <<loads, mixed>>
      \/ \E m \in Loads : Count(m) \/ Select(m)
      \/ \E m \in Loads : Deliver(m) \/ LoadFails(m)
      \/ \E q \in Questions : Insert(q)
      \/ (\E rows : Becomes(rows)) /\ mixed' = mixed
      \/ Open \/ SearchCache \/ (\E delta \in {-1, 1} : ChangePage(delta)) \/ (\E d \in Removals : Removed(d))
  BY Steps, Changes DEF BeginImport, CommitImport, ToggleSelect, ToggleSelectAll,
                        DeleteCacheItem, DeleteSelected, RemovalFails, Type, vars
<1>8. QED
  BY <1>1, <1>2, <1>3, <1>4, <1>5, <1>6, <1>7, SendsProperly

LEMMA AloneStep ==
  ASSUME TypeOK, Fits(table), LoadsAlone, [Next]_vars
  PROVE  LoadsAlone'
<1>1. CASE /\ mixed' = mixed \/ mixed' = TRUE
           /\ \A l \in Loads : loads'[l] # None => loads[l] # None
  BY <1>1 DEF LoadsAlone
<1>2. CASE /\ mixed' <=> \E other \in Loads : loads[other] # None
           /\ \E l \in Loads : /\ loads'[l].stage = "sent"
                               /\ \A m \in Loads \ {l} : loads'[m] = loads[m]
  BY <1>2 DEF LoadsAlone
<1>3. QED
  BY <1>1, <1>2, MixedHistory

\* Nothing is deleted under an intact load, and nothing stored between its SELECTs.
LEMMA IntactTable ==
  ASSUME TypeOK, [Next]_vars, NEW l \in Loads, loads'[l] # None, loads'[l].intact
  PROVE  table \subseteq table' /\ (loads[l].stage = "counted" => table' = table)
<1>a. loads \in [Loads -> Load \cup {None}]
  BY DEF TypeOK
<1>1. ASSUME loads[l] # None, loads'[l] = [loads[l] EXCEPT !.intact = FALSE]
      PROVE  FALSE
  <2>1. loads[l] \in Load
    BY <1>a, <1>1
  <2>2. loads'[l].intact = FALSE
    BY <1>1, <2>1 DEF Load
  <2>3. QED
    BY <2>2
<1>2. ASSUME NEW q \in Questions, Insert(q)
      PROVE  table \subseteq table' /\ loads[l].stage # "counted"
  <2>1. table \subseteq table'
    BY <1>2, Inserted
  <2>2. loads[l].stage # "counted"
    BY <1>1, <1>2, Inserted
  <2>3. QED
    BY <2>1, <2>2
<1>3. ASSUME NEW rows, Becomes(rows)
      PROVE  table' = table
  BY <1>1, <1>3, Became
<1>4. QED
  BY <1>2, <1>3, RowSteps

\* Nor is it while someone turns the pages.
LEMMA IntactWalk ==
  ASSUME TypeOK, [Next]_vars, walk'.intact
  PROVE  table \subseteq table' /\ ((walk' = walk /\ total' = total) \/ \E l \in Loads : Deliver(l))
<1>1. ASSUME NEW rows, Becomes(rows)
      PROVE  table' = table /\ walk' = walk
  BY <1>1, Became, NoWalkType
<1>2. ASSUME NEW q \in Questions, Insert(q)
      PROVE  table \subseteq table'
  BY <1>2 DEF Insert
<1>3. table \subseteq table'
  BY <1>1, <1>2, RowSteps
<1>4. (walk' = walk /\ total' = total) \/ \E l \in Loads : Deliver(l)
  BY <1>1, WalkSteps DEF screen
<1>5. QED
  BY <1>3, <1>4

LEMMA CountStep ==
  ASSUME TypeOK, Fits(table), CountIsTrue, [Next]_vars
  PROVE  CountIsTrue'
<1> SUFFICES ASSUME NEW l \in Loads, Intact(l, "counted")'
             PROVE  loads'[l].count = Cardinality(Matching(loads[l].filter))'
  BY DEF CountIsTrue
<1>1. loads'[l] # None /\ loads'[l].stage = "counted" /\ loads'[l].intact
  BY DEF Intact
<1>2. table \subseteq table' /\ (loads[l].stage = "counted" => table' = table)
  BY <1>1, IntactTable
<1>3. CASE Count(l)
  <2>1. table' = table
    BY <1>3 DEF Count, server
  <2>2. /\ loads'[l].count = Cardinality(Matching(loads[l].filter))
        /\ loads'[l].filter = loads[l].filter
    BY <1>3, LoadGoesOn
  <2>3. QED
    BY <2>1, <2>2 DEF Matching
<1>4. CASE Select(l)
  BY <1>1, <1>4, LoadGoesOn
<1>5. CASE /\ loads[l] # None /\ loads'[l].filter = loads[l].filter
           /\ loads'[l].intact => loads[l].intact
           /\ loads'[l].stage = loads[l].stage /\ loads'[l].count = loads[l].count
  <2>1. loads[l].count = Cardinality(Matching(loads[l].filter))
    BY <1>1, <1>5 DEF CountIsTrue, Intact
  <2>2. table' = table
    BY <1>1, <1>2, <1>5
  <2>3. QED
    BY <1>5, <2>1, <2>2 DEF Matching
<1>6. QED
  BY <1>1, <1>3, <1>4, <1>5, LoadHistory

\* The page that is read of what an intact load has counted leaves nothing before it.
LEMMA SelectLeaves ==
  ASSUME TypeOK, Fits(table), CountIsTrue, NEW l \in Loads, Select(l), loads'[l].intact,
         NEW rows, Beyond(rows, loads[l].filter, (loads[l].page - 1) * PageSize)
  PROVE  /\ table' = table
         /\ Beyond(rows \ loads'[l].rows, loads[l].filter, loads[l].page * PageSize)
         /\ TotalPages(loads[l].count) = loads[l].page => rows \subseteq loads'[l].rows
<1>1. /\ loads[l] \in Load /\ loads[l].page \in Nat \ {0}
  BY DEF Select, TypeOK, Load
<1>2. /\ loads'[l].rows = PageOf(Matching(loads[l].filter), loads[l].page)
      /\ Intact(l, "counted")
  BY LoadGoesOn DEF Intact
<1>3. loads[l].count = Cardinality(Matching(loads[l].filter))
  BY <1>2 DEF CountIsTrue
<1>4. ASSUME NEW row \in rows \ loads'[l].rows
      PROVE  /\ row \in Matching(loads[l].filter)
             /\ Rank(row, Matching(loads[l].filter)) >= loads[l].page * PageSize
             /\ TotalPages(loads[l].count) # loads[l].page
  <2>1. /\ row \in Matching(loads[l].filter)
        /\ Rank(row, Matching(loads[l].filter)) >= (loads[l].page - 1) * PageSize
    BY DEF Beyond
  <2>2. row \notin PageOf(Matching(loads[l].filter), loads[l].page)
    BY <1>2
  <2>3. QED
    BY <1>1, <1>3, <2>1, <2>2, PageLeaves
<1>5. table' = table
  BY DEF Select, server
<1>6. QED
  BY <1>4, <1>5 DEF Beyond

\* Pages before the first there are none.
LEMMA NothingBeforeFirst ==
  ASSUME TypeOK, Fits(table), NEW f
  PROVE  Beyond(Matching(f), f, (1 - 1) * PageSize)
<1>1. (1 - 1) * PageSize = 0
  BY Numbers
<1>2. \A row \in Matching(f) : Rank(row, Matching(f)) \in Nat
  BY MatchingFinite, RankGrows
<1>3. QED
  BY <1>1, <1>2 DEF Beyond

LEMMA FirstStep ==
  ASSUME TypeOK, TypeOK', Fits(table), Fits(table)', CountIsTrue, FirstLeaves, [Next]_vars
  PROVE  FirstLeaves'
<1> SUFFICES ASSUME NEW l \in Loads, Intact(l, "read")', loads'[l].page = 1
             PROVE  /\ Beyond(loads[l].others, loads[l].filter, 1 * PageSize)'
                    /\ TotalPages(loads'[l].count) = 1 => loads'[l].others = {}
  BY DEF FirstLeaves, TotalPages
<1>1. loads'[l] # None /\ loads'[l].stage = "read" /\ loads'[l].intact
  BY DEF Intact
<1>2. PICK f, n : f = loads'[l].filter /\ n = 1 * PageSize
  OBVIOUS
<1>3. PICK others : others = loads'[l].others
  OBVIOUS
<1>4. n \in Int
  BY <1>2, Numbers
<1>5. Beyond(others, f, n) /\ (TotalPages(loads'[l].count) = 1 => others = {})
  <2>1. CASE Select(l)
    <3>1. /\ loads[l].page = 1 /\ loads'[l].count = loads[l].count /\ f = loads[l].filter
          /\ others = Matching(f) \ loads'[l].rows
      BY <1>2, <1>3, <2>1, LoadGoesOn
    <3>2. Beyond(Matching(f), loads[l].filter, (loads[l].page - 1) * PageSize)
      BY <3>1, NothingBeforeFirst
    <3>3. /\ Beyond(others, f, n)
          /\ TotalPages(loads[l].count) = 1 => Matching(f) \subseteq loads'[l].rows
      BY <1>1, <1>2, <2>1, <3>1, <3>2, SelectLeaves
    <3>4. QED
      BY <3>1, <3>3
  <2>2. CASE Count(l)
    BY <1>1, <2>2, LoadGoesOn
  <2>3. CASE /\ loads[l] # None
             /\ loads'[l].page = loads[l].page /\ loads'[l].filter = loads[l].filter
             /\ loads'[l].intact => loads[l].intact
             /\ loads'[l].stage = loads[l].stage
             /\ loads'[l].count = loads[l].count /\ loads'[l].others = loads[l].others
    BY <1>1, <1>2, <1>3, <2>3 DEF FirstLeaves, Intact
  <2>4. QED
    BY <1>1, <2>1, <2>2, <2>3, LoadHistory
<1>6. Beyond(others, f, n)'
  BY <1>1, <1>4, <1>5, IntactTable, BeyondStays
<1>7. QED
  BY <1>2, <1>3, <1>5, <1>6 DEF Beyond, Matching

LEMMA NextStep ==
  ASSUME TypeOK, TypeOK', Fits(table), Fits(table)', LoadsAlone, CountIsTrue, NextLeaves, WalkLeaves,
         [Next]_vars
  PROVE  NextLeaves'
<1> SUFFICES ASSUME walk'.intact, ~mixed', NEW l \in Loads, Intact(l, "read")', Follows(l)'
             PROVE  /\ Beyond(walk.unseen \ loads[l].rows, walk.filter, loads[l].page * PageSize)'
                    /\ TotalPages(loads'[l].count) = loads'[l].page
                         => walk'.unseen \subseteq loads'[l].rows
  BY DEF NextLeaves, TotalPages
<1>1. loads'[l] # None /\ loads'[l].stage = "read" /\ loads'[l].intact
  BY DEF Intact
<1>2. ~mixed /\ loads[l] # None
  <2>1. CASE /\ mixed' = mixed \/ mixed' = TRUE
             /\ \A m \in Loads : loads'[m] # None => loads[m] # None
    BY <1>1, <2>1
  <2>2. CASE /\ mixed' <=> \E other \in Loads : loads[other] # None
             /\ \E m \in Loads : /\ loads'[m].stage = "sent"
                                 /\ \A other \in Loads \ {m} : loads'[other] = loads[other]
    BY <1>1, <2>2
  <2>3. QED
    BY <2>1, <2>2, MixedHistory
<1>3. walk' = walk
  <2>1. ASSUME NEW m \in Loads, Deliver(m)
        PROVE  FALSE
    <3>1. m = l
      BY <1>2, <2>1 DEF Deliver, LoadsAlone
    <3>2. loads'[l] = None
      BY <2>1, <3>1 DEF Deliver, TypeOK
    <3>3. QED
      BY <1>1, <3>2
  <2>2. QED
    BY <2>1, IntactWalk
<1>4. PICK p, f : p = loads'[l].page /\ f = walk.filter
  OBVIOUS
<1>5. PICK unseen, rows : unseen = walk.unseen /\ rows = loads'[l].rows
  OBVIOUS
<1>6. p = walk.page + 1 /\ f = loads'[l].filter /\ walk.page \in Nat /\ walk.intact
      /\ p - 1 = walk.page /\ p * PageSize \in Int
  <2>1. walk.page \in Nat
    BY DEF TypeOK
  <2>2. QED
    BY <1>3, <1>4, <2>1, Numbers DEF Follows
<1>7. Beyond(unseen \ rows, f, p * PageSize)
      /\ (TotalPages(loads'[l].count) = p => unseen \subseteq rows)
  <2>1. CASE Select(l)
    <3>1. /\ loads[l].page = p /\ loads'[l].count = loads[l].count /\ f = loads[l].filter
      BY <1>4, <1>6, <2>1, LoadGoesOn
    <3>2. Beyond(unseen, loads[l].filter, (loads[l].page - 1) * PageSize)
      BY <1>4, <1>5, <1>6, <3>1 DEF WalkLeaves
    <3>3. QED
      BY <1>1, <1>5, <2>1, <3>1, <3>2, SelectLeaves
  <2>2. CASE Count(l)
    BY <1>1, <2>2, LoadGoesOn
  <2>3. CASE /\ loads[l] # None
             /\ loads'[l].page = loads[l].page /\ loads'[l].filter = loads[l].filter
             /\ loads'[l].intact => loads[l].intact
             /\ loads'[l].stage = loads[l].stage /\ loads'[l].rows = loads[l].rows
             /\ loads'[l].count = loads[l].count
    <3>1. Intact(l, "read") /\ Follows(l)
      BY <1>1, <1>4, <1>6, <2>3 DEF Intact, Follows
    <3>2. QED
      BY <1>2, <1>4, <1>5, <1>6, <2>3, <3>1 DEF NextLeaves
  <2>4. QED
    BY <1>1, <1>2, <2>1, <2>2, <2>3, LoadHistory
<1>8. Beyond(unseen \ rows, f, p * PageSize)'
  <2>1. PICK n \in Int : n = p * PageSize
    BY <1>6
  <2>l. PICK left : left = unseen \ rows
    OBVIOUS
  <2>2. Beyond(left, f, n)'
    BY <1>1, <1>7, <2>1, <2>l, IntactTable, BeyondStays
  <2>3. QED
    BY <2>1, <2>l, <2>2
<1>9. QED
  BY <1>3, <1>4, <1>5, <1>7, <1>8 DEF Beyond, Matching

LEMMA WalkStep ==
  ASSUME TypeOK, TypeOK', Fits(table), Fits(table)', FirstLeaves, NextLeaves, WalkLeaves, [Next]_vars
  PROVE  WalkLeaves'
<1> SUFFICES ASSUME walk'.intact
             PROVE  /\ walk'.page >= 1 /\ Beyond(walk.unseen, walk.filter, walk.page * PageSize)'
                    /\ walk'.page = TotalPages(total') => walk'.unseen = {}
  BY DEF WalkLeaves, TotalPages
<1>1. walk'.page \in Nat
  BY DEF TypeOK
<1>2. PICK p \in Nat : p = walk'.page
  BY <1>1
<1>3. PICK n \in Int : n = p * PageSize
  BY Numbers
<1>w. PICK f, unseen : f = walk'.filter /\ unseen = walk'.unseen
  OBVIOUS
<1>4. p >= 1 /\ Beyond(unseen, f, n) /\ (p = TotalPages(total') => unseen = {})
  <2>1. CASE walk' = walk /\ total' = total
    BY <1>2, <1>3, <1>w, <2>1 DEF WalkLeaves
  <2>2. ASSUME NEW l \in Loads, Deliver(l)
        PROVE  p >= 1 /\ Beyond(unseen, f, n) /\ (p = TotalPages(total') => unseen = {})
    <3>1. /\ loads[l] \in Load /\ loads[l] # None /\ loads[l].stage = "read"
          /\ walk' = WalkOn(loads[l]) /\ total' = loads[l].count
      BY <2>2 DEF Deliver, TypeOK
    <3>2. ~mixed /\ Intact(l, "read")
      BY <3>1, NoWalkType DEF WalkOn, Intact
    <3>3. CASE loads[l].page = 1
      <4>1. p = 1 /\ f = loads[l].filter /\ unseen = loads[l].others
        <5>1. walk' = [intact |-> TRUE, page |-> 1, filter |-> loads[l].filter,
                       unseen |-> loads[l].others]
          <6>1. ~mixed /\ loads[l].intact
            BY <3>2 DEF Intact
          <6>2. QED
            BY <3>1, <3>3, <6>1 DEF WalkOn
        <5>2. QED
          BY <1>2, <1>3, <1>w, <5>1
      <4>2. QED
        BY <1>3, <1>w, <3>1, <3>2, <3>3, <4>1 DEF FirstLeaves
    <3>4. CASE loads[l].page # 1
      <4>1. walk.intact /\ loads[l].page = walk.page + 1 /\ loads[l].filter = walk.filter
            /\ walk' = [walk EXCEPT !.page = loads[l].page, !.unseen = walk.unseen \ loads[l].rows]
        BY <3>1, <3>4, NoWalkType DEF WalkOn
      <4>2. p = loads[l].page /\ f = walk.filter /\ unseen = walk.unseen \ loads[l].rows
        BY <1>2, <1>3, <1>w, <4>1 DEF TypeOK
      <4>3. Follows(l)
        BY <4>1 DEF Follows
      <4>4. loads[l].page >= 1
        BY <3>1 DEF Load
      <4>5. QED
        BY <1>3, <1>w, <3>1, <3>2, <4>1, <4>2, <4>3, <4>4 DEF NextLeaves
    <3>5. QED
      BY <3>3, <3>4
  <2>3. QED
    BY <2>1, <2>2, IntactWalk
<1>5. Beyond(unseen, f, n)'
  BY <1>4, IntactWalk, BeyondStays
<1>6. QED
  BY <1>2, <1>3, <1>w, <1>4, <1>5 DEF Beyond, Matching

-----------------------------------------------------------------------------
(* The theorems                                                             *)

LEMMA InitInv ==
  ASSUME Init
  PROVE  Inv
<1>1. /\ Stored \in Seq(Questions) /\ Len(Stored) \in Nat /\ Len(Stored) <= MaxId
      /\ DOMAIN Stored = 1..Len(Stored) /\ \A i \in DOMAIN Stored : Stored[i] \in Questions
  BY StoredAssumption
<1>2. /\ table \subseteq Row /\ issued \in 0..MaxId
      /\ before = None /\ begun = 0 /\ revoked = {}
  BY <1>1, Numbers DEF Init, Row, Ids
<1>3. Fits(table)
  BY <1>1 DEF Init, Fits, Agree
<1>4. \A l \in Loads : loads[l] = None
  BY DEF Init
<1>5. \A d \in Removals : removals[d] = None
  BY DEF Init
<1>6. TypeOK
  <2>1. /\ page = 1 /\ filter \in Filters /\ items = {} /\ total = 0 /\ selected = {}
        /\ sent = 0 /\ mixed = FALSE /\ begun \in Nat
        /\ walk \in [intact : BOOLEAN, page : Nat, filter : Filters, unseen : SUBSET Row]
    BY <1>2, FiltersAssumption, NoWalkType DEF Init
  <2>2. loads \in [Loads -> Load \cup {None}] /\ removals \in [Removals -> Removal \cup {None}]
    BY DEF Init
  <2>3. QED
    <3>1. page \in Nat \ {0} /\ total \in Nat /\ sent \in Nat
      BY <2>1
    <3>2. items \in SUBSET Row /\ selected \subseteq IdsOf(items) /\ mixed \in BOOLEAN
      BY <2>1
    <3>3. QED
      BY <1>2, <2>1, <2>2, <3>1, <3>2 DEF TypeOK
<1>7. KnownFit
  BY <1>2, <1>3, <1>4, <1>5 DEF Init, KnownFit, Holds, SnapshotFits
<1>8. walk.intact = FALSE
  BY NoWalkType DEF Init
<1>9. QED
  BY <1>4, <1>6, <1>7, <1>8 DEF Inv, LoadsAlone, CountIsTrue, FirstLeaves, NextLeaves, WalkLeaves, Intact

\* InvHolds: the inductive invariant holds in every reachable state.
THEOREM InvHolds == Spec => []Inv
<1>1. Init => Inv
  BY InitInv
<1>2. Inv /\ [Next]_vars => Inv'
  <2> SUFFICES ASSUME Inv, [Next]_vars
               PROVE  Inv'
    OBVIOUS
  <2>1. /\ TypeOK /\ KnownFit /\ LoadsAlone /\ CountIsTrue /\ FirstLeaves /\ NextLeaves /\ WalkLeaves
        /\ Fits(table) /\ SnapshotFits
    BY DEF Inv, KnownFit
  <2>2. TypeOK' /\ KnownFit' /\ Fits(table)'
    BY <2>1, TypeStep, KnownStep, TableFits
  <2>3. LoadsAlone' /\ CountIsTrue'
    BY <2>1, AloneStep, CountStep
  <2>4. FirstLeaves' /\ NextLeaves' /\ WalkLeaves'
    BY <2>1, <2>2, FirstStep, NextStep, WalkStep
  <2>5. QED
    BY <2>2, <2>3, <2>4 DEF Inv
<1>3. QED
  BY <1>1, <1>2, PTL DEF Spec

\* TypeCorrect: every variable of the panel and the table has its type throughout.
THEOREM TypeCorrect == Spec => []TypeOK
<1>1. Inv => TypeOK
  BY DEF Inv
<1>2. QED
  BY <1>1, InvHolds, PTL

\* OnlyTheConfirmedIsDeleted: what a deletion of the panel finds under its ids is what was
\* on screen when the user confirmed it, but where the ROLLBACK of an import has taken the
\* confirmed row back.
THEOREM OnlyTheConfirmedIsDeleted == Spec => []DeletesWhatWasConfirmed
<1>1. Inv => DeletesWhatWasConfirmed
  <2> SUFFICES ASSUME KnownFit, NEW d \in Removals, removals[d] # None,
                      NEW row \in table, row.id \in removals[d].ids
               PROVE  \/ row \in removals[d].seen
                      \/ \E known \in removals[d].seen \cap revoked : known.id = row.id
    BY DEF Inv, DeletesWhatWasConfirmed
  <2>1. PICK known \in removals[d].seen : known.id = row.id
    BY DEF KnownFit, IdsOf
  <2>2. known \in revoked \/ row = known
    BY <2>1 DEF KnownFit, Holds, Agree
  <2>3. QED
    BY <2>1, <2>2
<1>2. QED
  BY <1>1, InvHolds, PTL

\* PagesCoverTheList: who turns the pages of an undisturbed list from the first to the last
\* has seen every row there was when he began, whatever was stored meanwhile.
THEOREM PagesCoverTheList == Spec => []WalkSkipsNothing
<1>1. Inv => WalkSkipsNothing
  BY DEF Inv, WalkLeaves, WalkSkipsNothing
<1>2. QED
  BY <1>1, InvHolds, PTL
=============================================================================
