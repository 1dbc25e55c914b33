------------------------------ MODULE Statistics ------------------------------
(***************************************************************************)
(* The counters per provider: the attempts a call makes at the deployments *)
(* of the router (RouterManager.ask, test_provider), the events litellm    *)
(* logs for them, which the UsageTracker of the last rebuild turns into    *)
(* statements on provider_stats_daily, and GET /api/providers/status,      *)
(* which sums them up over yesterday and today.                            *)
(*                                                                         *)
(* litellm logs an event some time after the attempt.  By then the list of *)
(* providers may have changed, the router and the tracker may have been    *)
(* rebuilt, and the day may have ended.  A call keeps the router it began  *)
(* with.  An event is given to the tracker that litellm.callbacks holds    *)
(* when it is logged.                                                      *)
(*                                                                         *)
(* A rebuild is one action; what its two SELECTs interleave with is the    *)
(* subject of Providers.  A row of provider_stats_daily is the set of its  *)
(* increments, so that the value of a column is a cardinality.  Tokens     *)
(* come with a success and are left out; so are the cooldown marks, which  *)
(* litellm keeps, and the average latency: no row of call_log has a        *)
(* provider_id, since ask() returns none.                                  *)
(***************************************************************************)
EXTENDS Naturals, Sequences, FiniteSets

CONSTANTS
  Calls,      \* calls of ask() or test_provider()
  Providers,  \* provider ids
  Urls,       \* values of base_url
  None,       \* no row, nothing read yet
  MaxTries,   \* attempts of one call (num_retries + 1)
  MaxAttempts, \* bound: attempts of all calls
  MaxDay,     \* bound: the days are 0 .. MaxDay
  MaxEdits,   \* bound: changes of the provider list
  MaxFaults   \* bound: statements that raise, and rebuilds in which Router() does

ASSUME NoneAssumption ==
  None \notin Urls \cup Nat /\ None \notin [id : Providers, day : Nat]
ASSUME TriesAssumption == MaxTries \in Nat \ {0}
ASSUME BoundsAssumption == {MaxAttempts, MaxDay, MaxEdits, MaxFaults} \subseteq Nat

Attempts == Calls \X (1..MaxTries)
Days == 0..MaxDay

VARIABLES
  url,       \* table providers: the URL of an enabled one, else None
  router,    \* deployments of RouterManager._router: pairs <<id, url>>; {} is no router
  tracked,   \* api_base_map of the tracker: pairs <<url, id>>
  day,
  pc,        \* where each call stands
  held,      \* the deployments of the router it began with, or the provider it tests
  tried,     \* the attempts it has made: [id, url, ok, day]
  event,     \* of each attempt: what has become of its event
  owed,      \* of each attempt: the provider and day of the statement queued for it
  counters,  \* provider_stats_daily: increments [day, id, of, ok]
  status,    \* a request for the status: the first day of its window, None before it comes
  had,       \* every URL each provider has had since the start, None while not enabled
  edits, faults

vars == <<url, router, tracked, day, pc, held, tried, event, owed, counters, status, had, edits,
          faults>>

admin == <<url, had, edits>>
serving == <<router, tracked>>
calling == <<pc, held, tried>>
logging == <<event, owed, counters>>

-----------------------------------------------------------------------------
(* What rebuild() builds                                                    *)

Enabled == {p \in Providers : url[p] # None}

\* build_model_list
Deployments == {<<p, url[p]>> : p \in Enabled}

\* {p.base_url: p.id for p in providers}: of several with one URL the last one has it, which
\* one that is goes by a priority the administrator changes at will.
ApiBaseMaps ==
  {bases \in SUBSET {<<url[p], p>> : p \in Enabled} :
     \A p \in Enabled : \E q \in Enabled : {b \in bases : b[1] = url[p]} = {<<url[p], q>>}}

Init ==
  /\ url \in [Providers -> Urls \cup {None}]
  /\ router = Deployments
  /\ tracked \in ApiBaseMaps
  /\ day = 0
  /\ pc = [c \in Calls |-> "idle"]
  /\ held = [c \in Calls |-> {}]
  /\ tried = [c \in Calls |-> <<>>]
  /\ event = [a \in Attempts |-> "none"]
  /\ owed = [a \in Attempts |-> None]
  /\ counters = {}
  /\ status = None
  /\ had = [p \in Providers |-> {url[p]}]
  /\ edits = 0
  /\ faults = 0

-----------------------------------------------------------------------------
(* Calls                                                                    *)

\* ask() of a router: a rebuild replaces the manager's router, not the one this call runs on.
Ask(c) ==
  /\ pc[c] = "idle"
  /\ router # {}
  /\ pc' = [pc EXCEPT ![c] = "asking"]
  /\ held' = [held EXCEPT ![c] = router]
  /\ UNCHANGED <<admin, serving, day, tried, logging, status, faults>>

\* LLMUnavailable at once.
AskWithoutRouter(c) ==
  /\ pc[c] = "idle"
  /\ router = {}
  /\ pc' = [pc EXCEPT ![c] = "failed"]
  /\ UNCHANGED <<admin, serving, day, held, tried, logging, status, faults>>

\* The test button: a provider as the table has it, with any URL if it is not enabled, without
\* the router.
Test(c, p, base) ==
  /\ pc[c] = "idle"
  /\ url[p] \in {base, None}
  /\ pc' = [pc EXCEPT ![c] = "testing"]
  /\ held' = [held EXCEPT ![c] = {<<p, base>>}]
  /\ UNCHANGED <<admin, serving, day, tried, logging, status, faults>>

\* An attempt at a deployment ends, and litellm queues its event.  After a failure the router
\* may try again, there or elsewhere, until it gives up.
Attempt(c, target, ok) ==
  /\ pc[c] \in {"asking", "testing"}
  /\ Cardinality({a \in Attempts : event[a] # "none"}) < MaxAttempts
  /\ target \in held[c]
  /\ tried' = [tried EXCEPT ![c] = Append(@, [id |-> target[1], url |-> target[2],
                                              ok |-> ok, day |-> day])]
  /\ event' = [event EXCEPT ![<<c, Len(tried'[c])>>] = "logged"]
  /\ \/ /\ pc[c] = "testing"
        /\ pc' = [pc EXCEPT ![c] = "tested"]
     \/ /\ pc[c] = "asking"
        /\ ok
        /\ pc' = [pc EXCEPT ![c] = "answered"]
     \/ /\ pc[c] = "asking"
        /\ ~ok
        /\ pc' = [pc EXCEPT ![c] = "failed"]
     \/ /\ pc[c] = "asking"
        /\ ~ok
        /\ Len(tried'[c]) < MaxTries
        /\ pc' = pc
  /\ held' = IF pc'[c] = "asking" THEN held ELSE [held EXCEPT ![c] = {}]
  /\ UNCHANGED <<admin, serving, day, owed, counters, status, faults>>

-----------------------------------------------------------------------------
(* The tracker's callbacks                                                  *)

OfAttempt(a) == tried[a[1]][a[2]]

\* _is_test_call: the mark test_provider() puts on its call.
IsTest(a) == pc[a[1]] = "tested"

\* Mutation of Owners: any provider of the tracker.
OwnersOfAny(a) == {b[2] : b \in tracked}

\* _provider_id
Owners(a) == {b[2] : b \in {b \in tracked : b[1] = OfAttempt(a).url}}

\* Mutation of Deliver: an attempt of an unknown URL is counted for no provider.
DeliverUnknown(a) ==
  /\ event[a] = "logged"
  /\ ~IsTest(a)
  /\ event' = [event EXCEPT ![a] = "queued"]
  /\ \E p \in IF Owners(a) = {} THEN {None} ELSE Owners(a) :
       owed' = [owed EXCEPT ![a] = [id |-> p, day |-> day]]
  /\ UNCHANGED <<admin, serving, day, calling, counters, status, faults>>

\* async_log_success_event, async_log_failure_event: look up the provider, take the date,
\* queue the statement.
Deliver(a) ==
  /\ event[a] = "logged"
  /\ \E p \in Owners(a) :
       /\ ~IsTest(a)
       /\ event' = [event EXCEPT ![a] = "queued"]
       /\ owed' = [owed EXCEPT ![a] = [id |-> p, day |-> day]]
  /\ UNCHANGED <<admin, serving, day, calling, counters, status, faults>>

\* A URL the tracker does not know, or a test.
Ignore(a) ==
  /\ event[a] = "logged"
  /\ Owners(a) = {} \/ IsTest(a)
  /\ event' = [event EXCEPT ![a] = "ignored"]
  /\ UNCHANGED <<admin, serving, day, calling, owed, counters, status, faults>>

\* bump_provider_daily: INSERT ... ON CONFLICT DO UPDATE SET x = x + excluded.x.
Bump(a) ==
  /\ event[a] = "queued"
  /\ counters' = counters \cup {[day |-> owed[a].day, id |-> owed[a].id, of |-> a,
                                 ok |-> OfAttempt(a).ok]}
  /\ event' = [event EXCEPT ![a] = "counted"]
  /\ owed' = [owed EXCEPT ![a] = None]
  /\ UNCHANGED <<admin, serving, day, calling, status, faults>>

\* The statement raises; the callback logs it and goes on.
BumpFails(a) ==
  /\ event[a] = "queued"
  /\ faults < MaxFaults
  /\ event' = [event EXCEPT ![a] = "lost"]
  /\ owed' = [owed EXCEPT ![a] = None]
  /\ faults' = faults + 1
  /\ UNCHANGED <<admin, serving, day, calling, counters, status>>

-----------------------------------------------------------------------------
(* The provider list                                                        *)

\* A creation, an edit, a switch or a deletion commits; its rebuild comes later.
Change(p, base) ==
  /\ edits < MaxEdits
  /\ url[p] # base
  /\ url' = [url EXCEPT ![p] = base]
  /\ had' = [had EXCEPT ![p] = @ \cup {base}]
  /\ edits' = edits + 1
  /\ UNCHANGED <<serving, day, calling, logging, status, faults>>

\* Any write of the panel, one that changes no provider too, ends in one.
Rebuild ==
  /\ router' = Deployments
  /\ tracked' \in ApiBaseMaps
  /\ UNCHANGED <<admin, day, calling, logging, status, faults>>

\* Mutation of RebuildFails: the callbacks are cleared first and set after Router().
RebuildFailsUntracked ==
  /\ Enabled # {}
  /\ faults < MaxFaults
  /\ tracked' = {}
  /\ faults' = faults + 1
  /\ UNCHANGED <<admin, router, day, calling, logging, status>>

\* Router() raises: the tracker is the new one, the router the old one.
RebuildFails ==
  /\ Enabled # {}
  /\ faults < MaxFaults
  /\ tracked' \in ApiBaseMaps
  /\ faults' = faults + 1
  /\ UNCHANGED <<admin, router, day, calling, logging, status>>

Midnight ==
  /\ day < MaxDay
  /\ day' = day + 1
  /\ UNCHANGED <<admin, serving, calling, logging, status, faults>>

-----------------------------------------------------------------------------
(* GET /api/providers/status                                                *)

\* Mutation of Since: today only.
SinceToday(today) == today

\* days_ago(1)
Since(today) == IF today = 0 THEN 0 ELSE today - 1

\* The dates are computed before the SELECTs are gathered.
StatusBegins ==
  /\ status = None
  /\ status' = Since(day)
  /\ UNCHANGED <<admin, serving, day, calling, logging, faults>>

\* provider_stats_since and _status_dict: the attempts that make up calls and failures of p.
Shown(p) == {i \in counters : i.id = p /\ i.day >= status}

\* The SELECT ran; the response shows Shown of every provider listed.
StatusReplies ==
  /\ status # None
  /\ status' = None
  /\ UNCHANGED <<admin, serving, day, calling, logging, faults>>

-----------------------------------------------------------------------------
Next ==
  \/ \E c \in Calls :
       \/ Ask(c)
       \/ AskWithoutRouter(c)
       \/ \E p \in Providers, base \in Urls : Test(c, p, base)
       \/ \E target \in held[c], ok \in BOOLEAN : Attempt(c, target, ok)
  \/ \E a \in Attempts : Deliver(a) \/ Ignore(a) \/ Bump(a) \/ BumpFails(a)
  \/ \E p \in Providers, base \in Urls \cup {None} : Change(p, base)
  \/ Rebuild
  \/ RebuildFails
  \/ Midnight
  \/ StatusBegins
  \/ StatusReplies

Spec == Init /\ [][Next]_vars

-----------------------------------------------------------------------------
(* Properties                                                               *)

Made(c) == {c} \X (1..Len(tried[c]))

TypeOK ==
  /\ url \in [Providers -> Urls \cup {None}]
  /\ router \subseteq Providers \X Urls
  /\ tracked \subseteq Urls \X Providers
  /\ day \in Days
  /\ pc \in [Calls -> {"idle", "asking", "testing", "tested", "answered", "failed"}]
  /\ held \in [Calls -> SUBSET (Providers \X Urls)]
  /\ tried \in [Calls -> Seq([id : Providers, url : Urls, ok : BOOLEAN, day : Days])]
  /\ \A c \in Calls : Len(tried[c]) <= MaxTries
  /\ event \in [Attempts -> {"none", "logged", "queued", "ignored", "lost", "counted"}]
  /\ owed \in [Attempts -> [id : Providers, day : Days] \cup {None}]
  /\ \A a \in Attempts : event[a] = "queued" <=> owed[a] # None
  /\ counters \subseteq [day : Days, id : Providers, of : Attempts, ok : BOOLEAN]
  /\ status \in Days \cup {None}
  /\ had \in [Providers -> SUBSET (Urls \cup {None})]
  /\ edits \in 0..MaxEdits
  /\ faults \in 0..MaxFaults

\* No other provider has had this URL and been enabled since the start.
Alone(p, base) == \A q \in Providers \ {p} : base \notin had[q]

\* An increment belongs to an attempt that was made, of a call the service asked for, with its
\* result, on no day before it, and no attempt is counted twice.  It goes to a provider that
\* has had the URL of the attempt: to the one that was called, unless two have shared the URL.
\* Whatever is edited, deleted or rebuilt between the attempt and its callback.
\* (UsageTracker, RouterManager.rebuild, _on_provider_success)
CountedForItsOwn ==
  \A i \in counters :
    /\ i.of \in Made(i.of[1]) /\ ~IsTest(i.of)
    /\ LET made == OfAttempt(i.of) IN
         /\ i.ok = made.ok
         /\ i.day >= made.day
         /\ made.url \in had[i.id]
         /\ Alone(made.id, made.url) => i.id = made.id
    /\ \A j \in counters : j.of = i.of => j = i

\* The provider has had this URL all the time, and had it to itself.
Steady(p, base) == had[p] = {base} /\ Alone(p, base)

\* An attempt at a provider that nobody changes and that shares its URL with no other is
\* counted, unless its statement raises, and stays counted: no rebuild, not even one that
\* fails, takes the provider from the tracker while calls of an older router are under way.
\* (router_manager.py:64-81, usage_tracker.py:22-39, stats.py:136-140)
NoAttemptForgotten ==
  \A c \in Calls : \A a \in Made(c) :
    LET made == OfAttempt(a) IN
    Steady(made.id, made.url) /\ pc[c] # "tested" =>
      /\ event[a] # "ignored"
      /\ event[a] = "counted" => \E i \in counters : i.of = a /\ i.id = made.id

\* A status shows, of each provider, every attempt since the day before the reply that has been
\* counted, even if midnight comes between the computation of the dates and the SELECT, or
\* between the attempt and its callback.
\* (admin_providers.py:71-85, stats.py:27-29 and 73-81)
StatusCoversWindow ==
  status # None =>
    \A i \in counters : OfAttempt(i.of).day + 1 >= day => i \in Shown(i.id)

=============================================================================
