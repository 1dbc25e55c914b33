------------------------------ MODULE Providers ------------------------------
(***************************************************************************)
(* The provider list and the settings of the LLM router: the handlers of   *)
(* app/api/admin_providers.py and admin_settings.py, the statements of     *)
(* app/repository/providers.py and settings.py they consist of, and        *)
(* RouterManager.rebuild of app/llm/router_manager.py, which each of them  *)
(* calls in the end.                                                       *)
(*                                                                         *)
(* A handler is a sequence of awaited statements, and other handlers run   *)
(* between any two of them.  Writes interleave freely.  Two rebuilds do    *)
(* not: each is two SELECTs of three round trips to the one worker thread, *)
(* and both the worker's queue and the event loop are first in, first out, *)
(* so the rebuild whose first SELECT ran first stays ahead up to the       *)
(* assignment of the Router.                                               *)
(*                                                                         *)
(* Left out: reads that change nothing when they fail or when their result *)
(* only goes into the response (the token, the list a handler returns).    *)
(*                                                                         *)
(* The Router is litellm's.  All that matters here is what it was built    *)
(* from, and that it raises when built with a strategy it does not know.   *)
(* Its deployments are a set: litellm goes by their order field, not by    *)
(* their place in the list.                                                *)
(***************************************************************************)
EXTENDS Naturals, Sequences, FiniteSets, Functions

CONSTANTS
  Requests,    \* requests of the panel, each handled once
  Providers,   \* provider ids, uuids never used twice
  Existing,    \* the providers the server starts with
  Urls,        \* values of base_url
  Strategies,  \* values of routing_strategy
  Rejected,    \* those of them that Router() does not accept
  Timeouts,    \* values of llm_timeout, standing for the other router settings
  None,        \* no row, no request, no settings read
  MaxFaults    \* bound: statements that raise, and restarts of the process

Rows == [priority : Nat, enabled : BOOLEAN, url : Urls]
Configs == [strategy : Strategies, timeout : Timeouts]
Changes == [enabled : BOOLEAN] \cup [url : Urls]

Statements ==
       [kind : {"insert"}, id : Providers, row : Rows]
  \cup [kind : {"update"}, id : Providers, change : Changes \cup [priority : Nat]]
  \cup [kind : {"delete"}, id : Providers]
  \cup [kind : {"upsert"}, key : {"timeout"}, value : Timeouts]
  \cup [kind : {"upsert"}, key : {"strategy"}, value : Strategies]

Asks ==
       [kind : {"create", "edit", "delete"}, id : Providers]
  \cup [kind : {"reorder"}, ids : Seq(Providers)]
  \cup [kind : {"settings"}]

Deployment == [id : Providers, url : Urls, order : Nat]

Job == [by : Requests,
        listing : [deployments : SUBSET Deployment, bases : SUBSET (Urls \X Providers)],
        conf : Configs \cup {None}]

ASSUME NoneAssumption == None \notin Rows \cup Configs

ASSUME SetsAssumption ==
  /\ Existing \subseteq Providers
  /\ Rejected \subseteq Strategies
  /\ IsFiniteSet(Providers)

ASSUME BoundsAssumption == MaxFaults \in Nat

VARIABLES
  rows,     \* table providers, None where there is no row
  born,     \* rank by created_at, then rowid, of each id ever inserted; 0 before
  config,   \* app_config
  up,       \* the server runs; if not, its startup raises again and again
  router,   \* what RouterManager._router was built from: [list, conf]
  tracked,  \* api_base_map of the tracker in litellm.callbacks: pairs <<url, id>>
  pc,       \* where each request stands
  asked,    \* what it asks for
  todo,     \* the writing statements it has still to run
  queue,    \* the rebuilds at work: [by, list, conf], conf None until it is read
  faults

vars == <<rows, born, config, up, router, tracked, pc, asked, todo, queue, faults>>

tables == <<rows, born, config>>
serving == <<up, router, tracked>>

Ended == {"done", "refused", "raised", "failed", "gone"}

Stages == {"idle", "write", "rebuild", "building"} \cup Ended

-----------------------------------------------------------------------------
(* What the statements return and rebuild() makes of it                     *)

Present == {p \in Providers : rows[p] # None}

\* ORDER BY priority, created_at
Before(p, q) ==
  \/ rows[p].priority < rows[q].priority
  \/ rows[p].priority = rows[q].priority /\ born[p] < born[q]

\* SELECT ... WHERE enabled = 1
Enabled == {p \in Present : rows[p].enabled}

\* build_model_list
Deployments == {[id |-> p, url |-> rows[p].url, order |-> rows[p].priority] : p \in Enabled}

\* {p.base_url: p.id for p in providers}: the last one with a URL has it.
ApiBaseMap ==
  {<<rows[p].url, p>> : p \in {p \in Enabled :
     \A q \in Enabled : rows[q].url = rows[p].url => ~Before(p, q)}}

\* What rebuild() reads in its first SELECT.
Listing == [deployments |-> Deployments, bases |-> ApiBaseMap]

\* No deployment, no router.
RouterOf(deployments, conf) ==
  [list |-> deployments, conf |-> IF deployments = {} THEN None ELSE conf]

\* Router() raises.
Raises(deployments, conf) == deployments # {} /\ conf.strategy \in Rejected

Init ==
  /\ born \in {rank \in [Providers -> 0..Cardinality(Existing)] :
                 /\ {p \in Providers : rank[p] # 0} = Existing
                 /\ \A p, q \in Existing : rank[p] = rank[q] => p = q}
  /\ rows \in {table \in [Providers -> [priority : 0..Cardinality(Existing),
                                        enabled : BOOLEAN, url : Urls] \cup {None}] :
                 \A p \in Providers :
                   IF p \in Existing THEN table[p] # None /\ table[p].priority = born[p]
                                     ELSE table[p] = None}
  /\ config \in [strategy : Strategies \ Rejected, timeout : Timeouts]
  /\ up = TRUE
  /\ router = RouterOf(Deployments, config)
  /\ tracked = ApiBaseMap
  /\ pc = [r \in Requests |-> "idle"]
  /\ asked = [r \in Requests |-> None]
  /\ todo = [r \in Requests |-> <<>>]
  /\ queue = <<>>
  /\ faults = 0

-----------------------------------------------------------------------------
(* Requests arrive                                                          *)

\* The reads that precede the first write are done.
Accept(r, request, statements) ==
  /\ up
  /\ pc[r] = "idle"
  /\ pc' = [pc EXCEPT ![r] = IF statements = <<>> THEN "rebuild" ELSE "write"]
  /\ asked' = [asked EXCEPT ![r] = request]
  /\ todo' = [todo EXCEPT ![r] = statements]
  /\ UNCHANGED <<tables, serving, queue, faults>>

\* HTTP 404 or 400.
Refuse(r) ==
  /\ up
  /\ pc[r] = "idle"
  /\ pc' = [pc EXCEPT ![r] = "refused"]
  /\ UNCHANGED <<tables, serving, asked, todo, queue, faults>>

MaxPriority == IF Present = {} THEN 0 ELSE CHOOSE n \in {rows[p].priority : p \in Present} :
                                             \A p \in Present : rows[p].priority <= n

\* create_provider has read the largest priority.
Create(r, p, url) ==
  /\ born[p] = 0
  /\ \A q \in Requests : asked[q] # [kind |-> "create", id |-> p]
  /\ Accept(r, [kind |-> "create", id |-> p],
       << [kind |-> "insert", id |-> p,
           row |-> [priority |-> MaxPriority + 1, enabled |-> TRUE, url |-> url]] >>)

\* reorder has read the list and compared the ids with it.  No providers and no
\* ids is a match, without a statement to run.
Reorder(r, ids) ==
  IF Range(ids) = Present
    THEN Accept(r, [kind |-> "reorder", ids |-> ids],
           [i \in DOMAIN ids |->
              [kind |-> "update", id |-> ids[i], change |-> [priority |-> i]]])
    ELSE Refuse(r)

\* _get_or_404 has looked for the provider.
Edit(r, p, change) ==
  IF p \in Present
    THEN Accept(r, [kind |-> "edit", id |-> p],
           << [kind |-> "update", id |-> p, change |-> change] >>)
    ELSE Refuse(r)

Remove(r, p) ==
  Accept(r, [kind |-> "delete", id |-> p], << [kind |-> "delete", id |-> p] >>)

\* put_settings, with the fields in the order of SettingsUpdate.
PutSettings(r, conf) ==
  Accept(r, [kind |-> "settings"],
    << [kind |-> "upsert", key |-> "timeout", value |-> conf.timeout],
       [kind |-> "upsert", key |-> "strategy", value |-> conf.strategy] >>)

\* Two ids are never the same in the list of a reorder that passes the check.
Orders == UNION {Injection(1..n, Providers) : n \in 0..Cardinality(Providers)}

Arrive(r) ==
  \/ \E p \in Providers :
       \/ \E url \in Urls : Create(r, p, url)
       \/ \E change \in Changes : Edit(r, p, change)
       \/ Remove(r, p)
  \/ \E ids \in Orders : Reorder(r, ids)
  \/ \E conf \in Configs : PutSettings(r, conf)

-----------------------------------------------------------------------------
(* Their writing statements                                                 *)

\* The next statement of the request is of this kind; after the last one comes
\* rebuild_router.
Run(r, kind) ==
  /\ up
  /\ pc[r] = "write"
  /\ Head(todo[r]).kind = kind
  /\ todo' = [todo EXCEPT ![r] = Tail(@)]
  /\ pc' = [pc EXCEPT ![r] = IF Len(todo[r]) = 1 THEN "rebuild" ELSE "write"]
  /\ UNCHANGED <<serving, asked, queue, faults>>

Insert(r) ==
  /\ Run(r, "insert")
  /\ LET s == Head(todo[r]) IN
       /\ rows' = [rows EXCEPT ![s.id] = s.row]
       /\ born' = [born EXCEPT ![s.id] = Cardinality({p \in Providers : born[p] # 0}) + 1]
  /\ UNCHANGED config

\* The fields of row that change names take the values of change.
Changed(row, change) ==
  [f \in DOMAIN row |-> IF f \in DOMAIN change THEN change[f] ELSE row[f]]

\* UPDATE ... WHERE id = ?: a row that has gone meanwhile stays away.
Update(r) ==
  /\ Run(r, "update")
  /\ LET s == Head(todo[r]) IN
       rows' = [rows EXCEPT ![s.id] = IF @ = None THEN None ELSE Changed(@, s.change)]
  /\ UNCHANGED <<born, config>>

\* Mutation of Delete: the handler answers without a rebuild.
DeleteOnly(r) ==
  /\ up
  /\ pc[r] = "write"
  /\ Head(todo[r]).kind = "delete"
  /\ Head(todo[r]).id \in Present
  /\ rows' = [rows EXCEPT ![Head(todo[r]).id] = None]
  /\ pc' = [pc EXCEPT ![r] = "done"]
  /\ todo' = [todo EXCEPT ![r] = <<>>]
  /\ UNCHANGED <<born, config, serving, asked, queue, faults>>

Delete(r) ==
  /\ Run(r, "delete")
  /\ Head(todo[r]).id \in Present
  /\ rows' = [rows EXCEPT ![Head(todo[r]).id] = None]
  /\ UNCHANGED <<born, config>>

\* Nothing deleted: HTTP 404, and no rebuild.
DeleteNothing(r) ==
  /\ up
  /\ pc[r] = "write"
  /\ Head(todo[r]).kind = "delete"
  /\ Head(todo[r]).id \notin Present
  /\ pc' = [pc EXCEPT ![r] = "refused"]
  /\ todo' = [todo EXCEPT ![r] = <<>>]
  /\ UNCHANGED <<tables, serving, asked, queue, faults>>

Upsert(r) ==
  /\ Run(r, "upsert")
  /\ LET s == Head(todo[r]) IN config' = [config EXCEPT ![s.key] = s.value]
  /\ UNCHANGED <<rows, born>>

\* A statement raises: the handler ends with HTTP 500 and without the statements
\* that would follow, the rebuild among them.
WriteFails(r) ==
  /\ up
  /\ pc[r] = "write"
  /\ faults < MaxFaults
  /\ faults' = faults + 1
  /\ pc' = [pc EXCEPT ![r] = "failed"]
  /\ todo' = [todo EXCEPT ![r] = <<>>]
  /\ UNCHANGED <<tables, serving, asked, queue>>

-----------------------------------------------------------------------------
(* RouterManager.rebuild                                                    *)

ListEnabled(r) ==
  /\ up
  /\ pc[r] = "rebuild"
  /\ pc' = [pc EXCEPT ![r] = "building"]
  /\ queue' = Append(queue, [by |-> r, listing |-> Listing, conf |-> None])
  /\ UNCHANGED <<tables, serving, asked, todo, faults>>

ListEnabledFails(r) ==
  /\ up
  /\ pc[r] = "rebuild"
  /\ faults < MaxFaults
  /\ faults' = faults + 1
  /\ pc' = [pc EXCEPT ![r] = "failed"]
  /\ UNCHANGED <<tables, serving, asked, todo, queue>>

\* The first rebuild that has not read its settings yet.
IsNextReader(i) ==
  /\ i \in DOMAIN queue
  /\ queue[i].conf = None
  /\ \A j \in 1..(i - 1) : queue[j].conf # None

\* settings.get_all
ReadSettings ==
  \E i \in DOMAIN queue :
    /\ IsNextReader(i)
    /\ queue' = [queue EXCEPT ![i].conf = config]
    /\ UNCHANGED <<tables, serving, pc, asked, todo, faults>>

\* Mutation of ReadSettingsFails: the rebuild that failed is not given up.
ReadSettingsFailsQueued ==
  \E i \in DOMAIN queue :
    /\ IsNextReader(i)
    /\ faults < MaxFaults
    /\ faults' = faults + 1
    /\ pc' = [pc EXCEPT ![queue[i].by] = "failed"]
    /\ UNCHANGED <<tables, serving, asked, todo, queue>>

ReadSettingsFails ==
  \E i \in DOMAIN queue :
    /\ IsNextReader(i)
    /\ faults < MaxFaults
    /\ faults' = faults + 1
    /\ queue' = SubSeq(queue, 1, i - 1) \o SubSeq(queue, i + 1, Len(queue))
    /\ pc' = [pc EXCEPT ![queue[i].by] = "failed"]
    /\ UNCHANGED <<tables, serving, asked, todo>>

\* Mutation of Build: an await before the assignment lets rebuilds overtake.
BuildAnyOrder ==
  \E i \in DOMAIN queue :
    /\ queue[i].conf # None
    /\ LET job == queue[i]
           raises == Raises(job.listing.deployments, job.conf)
       IN
         /\ tracked' = job.listing.bases
         /\ router' = IF raises THEN router ELSE RouterOf(job.listing.deployments, job.conf)
         /\ pc' = [pc EXCEPT ![job.by] = IF raises THEN "raised" ELSE "done"]
    /\ queue' = SubSeq(queue, 1, i - 1) \o SubSeq(queue, i + 1, Len(queue))
    /\ UNCHANGED <<tables, up, asked, todo, faults>>

\* The rest of rebuild() runs without an await.  The tracker is replaced before
\* Router() has had a chance to raise.
Build ==
  /\ queue # <<>>
  /\ Head(queue).conf # None
  /\ LET job == Head(queue)
         raises == Raises(job.listing.deployments, job.conf)
     IN
       /\ tracked' = job.listing.bases
       /\ router' = IF raises THEN router ELSE RouterOf(job.listing.deployments, job.conf)
       /\ pc' = [pc EXCEPT ![job.by] = IF raises THEN "raised" ELSE "done"]
  /\ queue' = Tail(queue)
  /\ UNCHANGED <<tables, up, asked, todo, faults>>

\* The process is killed and started again.  lifespan() rebuilds before it serves;
\* if that raises, so does every further attempt.
Restart ==
  /\ up
  /\ faults < MaxFaults
  /\ faults' = faults + 1
  /\ up' = ~Raises(Deployments, config)
  /\ router' = IF up' THEN RouterOf(Deployments, config) ELSE RouterOf({}, config)
  /\ tracked' = IF up' THEN ApiBaseMap ELSE {}
  /\ pc' = [r \in Requests |-> IF pc[r] \in {"idle", "done", "refused"} THEN pc[r] ELSE "gone"]
  /\ todo' = [r \in Requests |-> <<>>]
  /\ queue' = <<>>
  /\ UNCHANGED <<tables, asked>>

Next ==
  \/ \E r \in Requests :
       \/ Arrive(r)
       \/ Insert(r) \/ Update(r) \/ Delete(r) \/ DeleteNothing(r) \/ Upsert(r)
       \/ WriteFails(r)
       \/ ListEnabled(r) \/ ListEnabledFails(r)
  \/ ReadSettings \/ ReadSettingsFails \/ Build
  \/ Restart

Spec == Init /\ [][Next]_vars

-----------------------------------------------------------------------------
(* Properties                                                               *)

TypeOK ==
  /\ rows \in [Providers -> Rows \cup {None}]
  /\ born \in [Providers -> 0..Cardinality(Providers)]
  /\ config \in Configs
  /\ up \in BOOLEAN
  /\ router \in [list : SUBSET Deployment, conf : Configs \cup {None}]
  /\ tracked \subseteq Urls \X Providers
  /\ pc \in [Requests -> Stages]
  /\ asked \in [Requests -> Asks \cup {None}]
  /\ todo \in [Requests -> Seq(Statements)]
  /\ \A r \in Requests : todo[r] # <<>> <=> pc[r] = "write"
  /\ queue \in Seq(Job)
  /\ {queue[i].by : i \in DOMAIN queue} = {r \in Requests : pc[r] = "building"}
  /\ faults \in 0..MaxFaults

\* RouterFollowsDatabase: when no request is at work and no statement of one has
\* failed since the last start, the tracker is the one the tables call for, and so is
\* the Router unless Router() would still reject them, whatever the order in which
\* the handlers wrote and rebuilt (router_manager.py:54-81, deps.py:41-48).
RouterFollowsDatabase ==
  up /\ (\A r \in Requests : pc[r] \in {"idle", "done", "refused", "raised", "gone"})
    => /\ tracked = ApiBaseMap
       /\ router = RouterOf(Deployments, config) \/ Raises(Deployments, config)

\* DeletedNeverServed: once DELETE is answered no Router ever has the provider again,
\* although a reorder or an edit may still be writing to it, a rebuild may have listed
\* it before, other requests may fail and the process may restart
\* (admin_providers.py:115-122).
DeletedNeverServed ==
  \A r \in Requests, d \in router.list :
    pc[r] = "done" => asked[r] # [kind |-> "delete", id |-> d.id]

Reordered(r) == pc[r] = "done" /\ asked[r].kind = "reorder"

\* OrderAsAsked: if all that was ever asked is reorders, and all were answered with
\* success, the list is in the order of one of them (providers.py:74-83).
OrderAsAsked ==
  (Requests # {} /\ \A r \in Requests : Reordered(r))
    => \E r \in Requests :
         LET ids == asked[r].ids IN
           \A i, j \in DOMAIN ids : i < j => Before(ids[i], ids[j])
=============================================================================
