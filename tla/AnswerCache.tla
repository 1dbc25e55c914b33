----------------------------- MODULE AnswerCache -----------------------------
(***************************************************************************)
(* What a caller of /api/query may rely on, without statements, statistics,*)
(* coroutines or callbacks.                                                *)
(*                                                                         *)
(* A request looks at the cache once.  If a row is there, the request is   *)
(* answered from that row.  If not, it joins a flight for its key, one call*)
(* to the LLM whose verdict all who joined share; a key never has two      *)
(* flights in the air.  A flight that lands with an answer may put it in   *)
(* the cache, only where nothing is stored; a failed one stores nothing.   *)
(***************************************************************************)
EXTENDS Naturals

CONSTANTS Queries, Keys, Answers, Failures, Imported, None

VARIABLES
  table,    \* what the cache holds for each key
  phase,    \* "idle", "asked", "joined", "answered" or "gone"
  qkey,     \* the key of each request
  seen,     \* what each request found in the cache
  joined,   \* the flight a request takes part in, named after who launched it
  verdict,  \* the outcome of each flight that has landed
  answer    \* what each request was told

vars == <<table, phase, qkey, seen, joined, verdict, answer>>

Init ==
  /\ table = [k \in Keys |-> None]
  /\ phase = [q \in Queries |-> "idle"]
  /\ qkey = [q \in Queries |-> None]
  /\ seen = [q \in Queries |-> None]
  /\ joined = [q \in Queries |-> None]
  /\ verdict = [q \in Queries |-> None]
  /\ answer = [q \in Queries |-> None]

\* Flights for key k that have been launched, and those still in the air.
Flights(k)  == {f \in Queries : joined[f] = f /\ qkey[f] = k}
InTheAir(k) == {f \in Flights(k) : verdict[f] = None}

Ask(q, k) ==
  /\ phase[q] = "idle"
  /\ phase' = [phase EXCEPT ![q] = "asked"]
  /\ qkey' = [qkey EXCEPT ![q] = k]
  /\ seen' = [seen EXCEPT ![q] = table[k]]
  /\ UNCHANGED <<table, joined, verdict, answer>>

\* The cache cannot be read.
AskFails(q, k) ==
  /\ phase[q] = "idle"
  /\ phase' = [phase EXCEPT ![q] = "answered"]
  /\ qkey' = [qkey EXCEPT ![q] = k]
  /\ \E failure \in Failures : answer' = [answer EXCEPT ![q] = failure]
  /\ UNCHANGED <<table, seen, joined, verdict>>

AnswerFromCache(q) ==
  /\ phase[q] = "asked"
  /\ seen[q] # None
  /\ phase' = [phase EXCEPT ![q] = "answered"]
  /\ answer' = [answer EXCEPT ![q] = seen[q]]
  /\ UNCHANGED <<table, qkey, seen, joined, verdict>>

JoinFlight(q, f) ==
  /\ phase[q] = "asked"
  /\ seen[q] = None
  /\ f \in Flights(qkey[q])
  /\ InTheAir(qkey[q]) \subseteq {f}
  /\ phase' = [phase EXCEPT ![q] = "joined"]
  /\ joined' = [joined EXCEPT ![q] = f]
  /\ UNCHANGED <<table, qkey, seen, verdict, answer>>

LaunchFlight(q) ==
  /\ phase[q] = "asked"
  /\ seen[q] = None
  /\ InTheAir(qkey[q]) = {}
  /\ phase' = [phase EXCEPT ![q] = "joined"]
  /\ joined' = [joined EXCEPT ![q] = q]
  /\ UNCHANGED <<table, qkey, seen, verdict, answer>>

Land(f, v) ==
  /\ joined[f] = f
  /\ verdict[f] = None
  /\ verdict' = [verdict EXCEPT ![f] = v]
  /\ \/ UNCHANGED table
     \/ /\ v \in Answers
        /\ table[qkey[f]] = None
        /\ table' = [table EXCEPT ![qkey[f]] = v]
  /\ UNCHANGED <<phase, qkey, seen, joined, answer>>

AnswerFromFlight(q) ==
  /\ phase[q] = "joined"
  /\ verdict[joined[q]] # None
  /\ phase' = [phase EXCEPT ![q] = "answered"]
  /\ answer' = [answer EXCEPT ![q] = verdict[joined[q]]]
  /\ UNCHANGED <<table, qkey, seen, joined, verdict>>

GiveUp(q) ==
  /\ phase[q] \in {"asked", "joined"}
  /\ phase' = [phase EXCEPT ![q] = "gone"]
  /\ UNCHANGED <<table, qkey, seen, joined, verdict, answer>>

\* The answers that flights for key k have landed with.
Landed(k) == {verdict[f] : f \in Flights(k)} \cap Answers

\* The panel or the TTL cleanup deletes rows, an import stores answers, or all is put back
\* that has been stored or deleted since it began.
Maintain ==
  /\ table' \in [Keys -> Answers \cup {None}]
  /\ \A k \in Keys : table'[k] \in {table[k], None} \cup Imported \cup Landed(k)
  /\ UNCHANGED <<phase, qkey, seen, joined, verdict, answer>>

Serve(q) ==
  \/ AnswerFromCache(q) \/ LaunchFlight(q) \/ AnswerFromFlight(q)
  \/ \E f \in Queries : JoinFlight(q, f)

Resolve(f) == \E v \in Answers \cup Failures : Land(f, v)

Next ==
  \/ \E q \in Queries :
       \/ \E k \in Keys : Ask(q, k) \/ AskFails(q, k)
       \/ Serve(q) \/ Resolve(q) \/ GiveUp(q)
  \/ Maintain

\* Every request is answered or given up, every flight lands.
Spec ==
  /\ Init /\ [][Next]_vars
  /\ \A q \in Queries : WF_vars(Serve(q)) /\ WF_vars(Resolve(q))
=============================================================================
