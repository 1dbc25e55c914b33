--------------------------- MODULE StatisticsProof ---------------------------
(***************************************************************************)
(* Safety of Statistics for any calls, providers and URLs, any number of   *)
(* attempts, edits, days and failures.                                     *)
(***************************************************************************)
EXTENDS Statistics, TLAPS

\* What an attempt is recorded as.
Records == [id : Providers, url : Urls, ok : BOOLEAN, day : Days]

\* Every step is one of these.
LEMMA Steps ==
  ASSUME Next
  PROVE  \/ \E c \in Calls : Ask(c)
         \/ \E c \in Calls : AskWithoutRouter(c)
         \/ \E c \in Calls, p \in Providers, base \in Urls : Test(c, p, base)
         \/ \E c \in Calls : \E target \in held[c], ok \in BOOLEAN : Attempt(c, target, ok)
         \/ \E a \in Attempts : Deliver(a)
         \/ \E a \in Attempts : Ignore(a)
         \/ \E a \in Attempts : Bump(a)
         \/ \E a \in Attempts : BumpFails(a)
         \/ \E p \in Providers, base \in Urls \cup {None} : Change(p, base)
         \/ Rebuild
         \/ RebuildFails
         \/ Midnight
         \/ StatusBegins
         \/ StatusReplies
BY DEF Next

LEMMA DaysAreNumbers == Days \subseteq Nat /\ None \notin Days /\ 0 \in Days
BY NoneAssumption, BoundsAssumption DEF Days

LEMMA Bounds == {MaxTries, MaxAttempts, MaxDay, MaxEdits, MaxFaults} \subseteq Nat
BY BoundsAssumption, TriesAssumption

\* A counter that has not reached its bound may go on.
LEMMA NextWithinBound ==
  ASSUME NEW n, NEW max \in Nat, n \in 0..max, n < max
  PROVE  n + 1 \in 0..max
OBVIOUS

LEMMA OwedIsNotNone == None \notin [id : Providers, day : Days]
BY NoneAssumption, DaysAreNumbers

\* TriesLeft: a call that may still make an attempt has one left, and before its first it has made none.
TriesLeft ==
  \A c \in Calls :
    /\ pc[c] = "asking" => Len(tried[c]) < MaxTries
    /\ pc[c] \in {"idle", "testing"} => tried[c] = <<>>

\* An event there is for the attempts that were made.
EventsOfMade == \A a \in Attempts : event[a] # "none" <=> a \in Made(a[1])

\* What a router, a tracker and a call of the router hold a provider has had.
Holds(p, base) == base \in had[p]

Known ==
  /\ \A p \in Providers : Holds(p, url[p])
  /\ \A p \in Providers, base \in Urls :
       /\ <<p, base>> \in router => Holds(p, base)
       /\ <<base, p>> \in tracked => Holds(p, base)
       /\ \A c \in Calls : pc[c] = "asking" /\ <<p, base>> \in held[c] => Holds(p, base)

\* The made attempts are attempts.
LEMMA MadeAreAttempts ==
  ASSUME TypeOK, NEW c \in Calls
  PROVE  /\ Made(c) \subseteq Attempts
         /\ \A a \in Attempts : a[1] \in Calls /\ a[2] \in 1..MaxTries /\ a = <<a[1], a[2]>>
         /\ \A a \in Attempts : a \in Made(c) <=> a[1] = c /\ a[2] <= Len(tried[c])
         /\ Len(tried[c]) \in Nat
BY TriesAssumption DEF TypeOK, Made, Attempts

\* What has been attempted is a record of the attempt, and its day, its provider and URL are known.
LEMMA MadeIsRecord ==
  ASSUME TypeOK, NEW c \in Calls, NEW a \in Made(c)
  PROVE  OfAttempt(a) \in Records /\ a \in Attempts /\ a[1] = c
<1>1. a \in Attempts /\ a[1] = c /\ a[2] \in 1..Len(tried[c])
  BY MadeAreAttempts DEF Made
<1>2. tried[c] \in Seq(Records)
  BY DEF TypeOK, Records
<1>3. QED
  BY <1>1, <1>2 DEF OfAttempt

\* How an attempt changes what is recorded: it adds one, and leaves the others alone.
LEMMA AttemptAdds ==
  ASSUME TypeOK, TriesLeft, EventsOfMade,
         NEW c \in Calls, NEW target \in held[c], NEW ok \in BOOLEAN, Attempt(c, target, ok)
  PROVE  \E new \in Attempts :
           /\ new[1] = c /\ event[new] = "none"
           /\ event' = [event EXCEPT ![new] = "logged"]
           /\ tried' \in [Calls -> Seq(Records)]
           /\ Len(tried'[c]) = Len(tried[c]) + 1 /\ Len(tried'[c]) <= MaxTries
           /\ \A d \in Calls \ {c} : tried'[d] = tried[d] /\ pc'[d] = pc[d] /\ Made(d)' = Made(d)
           /\ Made(c)' = Made(c) \cup {new}
           /\ OfAttempt(new)' = [id |-> target[1], url |-> target[2], ok |-> ok, day |-> day]
           /\ \A d \in Calls : \A a \in Made(d) :
                a # new /\ OfAttempt(a)' = OfAttempt(a) /\ (IsTest(a)' <=> IsTest(a))
<1> DEFINE record == [id |-> target[1], url |-> target[2], ok |-> ok, day |-> day]
<1>1. tried \in [Calls -> Seq(Records)] /\ record \in Records /\ Len(tried[c]) \in Nat
      /\ pc \in [Calls -> {"idle", "asking", "testing", "tested", "answered", "failed"}]
  <2>1. tried \in [Calls -> Seq(Records)] /\ held \in [Calls -> SUBSET (Providers \X Urls)]
        /\ day \in Days
    BY DEF TypeOK, Records
  <2>2. target \in Providers \X Urls
    BY <2>1
  <2>3. record \in Records
    BY <2>1, <2>2 DEF Records
  <2>4. QED
    BY <2>1, <2>3 DEF TypeOK
<1>2. tried' = [tried EXCEPT ![c] = Append(tried[c], record)]
  BY DEF Attempt
<1>n. PICK n \in Nat : n = Len(tried[c]) + 1
  BY <1>1
<1> DEFINE new == <<c, n>>
<1> HIDE DEF record
<1>3. /\ tried'[c] = Append(tried[c], record)
      /\ \A d \in Calls \ {c} : tried'[d] = tried[d]
      /\ tried'[c] \in Seq(Records) /\ Len(tried'[c]) = n
      /\ tried'[c][n] = record /\ \A m \in 1..Len(tried[c]) : tried'[c][m] = tried[c][m]
  BY <1>1, <1>2, <1>n
<1>4. tried' \in [Calls -> Seq(Records)]
  BY <1>1, <1>2, <1>3
<1>5. n \in 1..MaxTries /\ new \in Attempts
  BY <1>1, <1>n, TriesAssumption DEF Attempt, TriesLeft, Attempts
<1>6. event[new] = "none" /\ event' = [event EXCEPT ![new] = "logged"]
  <2>1. new \notin Made(c)
    BY <1>1, <1>n DEF Made
  <2>2. QED
    BY <1>1, <1>3, <1>5, <2>1 DEF EventsOfMade, Attempt
<1>7. \A d \in Calls \ {c} : pc'[d] = pc[d]
  BY <1>1 DEF Attempt
<1>8. Made(c)' = Made(c) \cup {new} /\ \A d \in Calls \ {c} : Made(d)' = Made(d)
  BY <1>1, <1>3, <1>n DEF Made
<1>9. ASSUME NEW d \in Calls, NEW a \in Made(d)
      PROVE  a # new /\ OfAttempt(a)' = OfAttempt(a) /\ (IsTest(a)' <=> IsTest(a))
  <2>1. a[1] = d /\ a[2] \in 1..Len(tried[d])
    BY DEF Made
  <2>2. tried[c] = <<>> => d # c
    BY <2>1
  <2>3. pc[c] = "testing" => d # c
    BY <2>2 DEF TriesLeft
  <2>4. d = c => pc[c] = "asking" /\ pc'[c] # "tested" /\ pc[c] # "tested"
    BY <1>1, <2>3 DEF Attempt
  <2>5. IsTest(a)' <=> IsTest(a)
    BY <1>7, <2>1, <2>4 DEF IsTest
  <2>6. OfAttempt(a)' = OfAttempt(a)
    BY <1>3, <2>1 DEF OfAttempt
  <2>7. a # new
    BY <1>1, <1>n, <2>1
  <2>8. QED
    BY <2>5, <2>6, <2>7
<1>10. OfAttempt(new)' = record
  BY <1>3 DEF OfAttempt
<1>11. QED
  <2>1. new[1] = c /\ n <= MaxTries
    BY <1>5, TriesAssumption
  <2> USE <1>5
  <2>2. OfAttempt(new)' = [id |-> target[1], url |-> target[2], ok |-> ok, day |-> day]
    BY <1>10 DEF record
  <2> HIDE DEF new
  <2> WITNESS new \in Attempts
  <2>3. QED
    BY <1>n, <1>3, <1>4, <1>6, <1>7, <1>8, <1>9, <2>1, <2>2

-----------------------------------------------------------------------------
(* Types                                                                    *)

LEMMA NewMapsAreTyped ==
  ASSUME TypeOK, NEW bases \in ApiBaseMaps
  PROVE  bases \subseteq Urls \X Providers /\ Deployments \subseteq Providers \X Urls
<1>1. \A p \in Enabled : p \in Providers /\ url[p] \in Urls
  BY DEF Enabled, TypeOK
<1>2. QED
  BY <1>1 DEF ApiBaseMaps, Deployments

LEMMA TypeStep ==
  ASSUME TypeOK, TriesLeft, EventsOfMade, [Next]_vars
  PROVE  TypeOK'
<1> USE DaysAreNumbers, OwedIsNotNone
<1> USE DEF TypeOK, admin, serving, calling, logging
<1>1. ASSUME NEW c \in Calls, Ask(c)
      PROVE  TypeOK'
  BY <1>1 DEF Ask
<1>2. ASSUME NEW c \in Calls, AskWithoutRouter(c)
      PROVE  TypeOK'
  BY <1>2 DEF AskWithoutRouter
<1>3. ASSUME NEW c \in Calls, NEW p \in Providers, NEW base \in Urls, Test(c, p, base)
      PROVE  TypeOK'
  <2>1. pc' \in [Calls -> {"idle", "asking", "testing", "tested", "answered", "failed"}]
    BY <1>3 DEF Test
  <2>2. held' \in [Calls -> SUBSET (Providers \X Urls)]
    BY <1>3 DEF Test
  <2>3. QED
    BY <1>3, <2>1, <2>2 DEF Test
<1>4. ASSUME NEW c \in Calls, NEW target \in held[c], NEW ok \in BOOLEAN, Attempt(c, target, ok)
      PROVE  TypeOK'
  <2>1. PICK new \in Attempts :
          /\ event[new] = "none" /\ event' = [event EXCEPT ![new] = "logged"]
          /\ tried' \in [Calls -> Seq(Records)] /\ Len(tried'[c]) <= MaxTries
          /\ \A d \in Calls \ {c} : tried'[d] = tried[d]
    <3> HIDE DEF TypeOK
    <3>1. QED
      BY <1>4, AttemptAdds
  <2>2. tried' \in [Calls -> Seq([id : Providers, url : Urls, ok : BOOLEAN, day : Days])]
    BY <2>1 DEF Records
  <2>3. \A d \in Calls : Len(tried'[d]) <= MaxTries
    BY <2>1
  <2>4. /\ event' \in [Attempts -> {"none", "logged", "queued", "ignored", "lost", "counted"}]
        /\ owed' = owed /\ \A a \in Attempts : event'[a] = "queued" <=> owed'[a] # None
    BY <1>4, <2>1 DEF Attempt
  <2>5. /\ pc' \in [Calls -> {"idle", "asking", "testing", "tested", "answered", "failed"}]
        /\ held' \in [Calls -> SUBSET (Providers \X Urls)]
    <3> HIDE DEF TypeOK
    <3>1. /\ pc \in [Calls -> {"idle", "asking", "testing", "tested", "answered", "failed"}]
          /\ held \in [Calls -> SUBSET (Providers \X Urls)]
      BY DEF TypeOK
    <3>2. QED
      BY <1>4, <3>1 DEF Attempt
  <2>6. UNCHANGED <<url, router, tracked, day, counters, status, had, edits, faults>>
    BY <1>4 DEF Attempt
  <2>7. QED
    BY <2>2, <2>3, <2>4, <2>5, <2>6
<1>5. ASSUME NEW a \in Attempts, Deliver(a)
      PROVE  TypeOK'
  <2>1. PICK p \in Owners(a) :
          /\ event' = [event EXCEPT ![a] = "queued"]
          /\ owed' = [owed EXCEPT ![a] = [id |-> p, day |-> day]]
    BY <1>5 DEF Deliver
  <2>2. p \in Providers
    BY DEF Owners
  <2>3. [id |-> p, day |-> day] \in [id : Providers, day : Days]
    BY <2>2
  <2>4. /\ event' \in [Attempts -> {"none", "logged", "queued", "ignored", "lost", "counted"}]
        /\ owed' \in [Attempts -> [id : Providers, day : Days] \cup {None}]
        /\ \A b \in Attempts : event'[b] = "queued" <=> owed'[b] # None
    BY <2>1, <2>3
  <2>5. QED
    BY <1>5, <2>4 DEF Deliver
<1>6. ASSUME NEW a \in Attempts, Ignore(a)
      PROVE  TypeOK'
  BY <1>6 DEF Ignore
<1>7. ASSUME NEW a \in Attempts, Bump(a)
      PROVE  TypeOK'
  <2>1. OfAttempt(a).ok \in BOOLEAN
    <3>1. a \in Made(a[1]) /\ a[1] \in Calls
      BY <1>7, MadeAreAttempts DEF Bump, EventsOfMade, Attempts
    <3>2. QED
      BY <3>1, MadeIsRecord DEF Records
  <2>2. owed[a] \in [id : Providers, day : Days]
    BY <1>7 DEF Bump
  <2>3. counters' \subseteq [day : Days, id : Providers, of : Attempts, ok : BOOLEAN]
    BY <1>7, <2>1, <2>2 DEF Bump
  <2>4. QED
    BY <1>7, <2>3 DEF Bump
<1>8. ASSUME NEW a \in Attempts, BumpFails(a)
      PROVE  TypeOK'
  <2>1. faults' \in 0..MaxFaults
    BY <1>8, Bounds, NextWithinBound DEF BumpFails
  <2>2. QED
    BY <1>8, <2>1 DEF BumpFails
<1>9. ASSUME NEW p \in Providers, NEW base \in Urls \cup {None}, Change(p, base)
      PROVE  TypeOK'
  <2>1. edits' \in 0..MaxEdits
    BY <1>9, Bounds, NextWithinBound DEF Change
  <2>2. QED
    BY <1>9, <2>1 DEF Change
<1>10. CASE Rebuild
  BY <1>10, NewMapsAreTyped DEF Rebuild
<1>11. CASE RebuildFails
  <2>1. faults' \in 0..MaxFaults
    BY <1>11, Bounds, NextWithinBound DEF RebuildFails
  <2>2. QED
    BY <1>11, <2>1, NewMapsAreTyped DEF RebuildFails
<1>12. CASE Midnight
  <2>1. day' \in Days /\ Days' = Days
    BY <1>12, Bounds, NextWithinBound DEF Midnight, Days
  <2>2. QED
    BY <1>12, <2>1 DEF Midnight
<1>13. CASE StatusBegins
  <2>1. Since(day) \in Days
    BY Bounds DEF Since, Days
  <2>2. QED
    BY <1>13, <2>1 DEF StatusBegins
<1>14. CASE StatusReplies
  BY <1>14 DEF StatusReplies
<1>15. CASE UNCHANGED vars
  BY <1>15 DEF vars
<1> HIDE DEF TypeOK, admin, serving, calling, logging
<1>16. QED
  BY Steps, <1>1, <1>2, <1>3, <1>4, <1>5, <1>6, <1>7, <1>8, <1>9, <1>10, <1>11, <1>12, <1>13,
     <1>14, <1>15

LEMMA TriesStep ==
  ASSUME TypeOK, TriesLeft, EventsOfMade, [Next]_vars
  PROVE  TriesLeft' /\ EventsOfMade'
<1>a. /\ pc \in [Calls -> {"idle", "asking", "testing", "tested", "answered", "failed"}]
      /\ event \in [Attempts -> {"none", "logged", "queued", "ignored", "lost", "counted"}]
  BY DEF TypeOK
<1>b. Len(<<>>) = 0 /\ MaxTries > 0
  BY TriesAssumption
<1>1. ASSUME NEW c \in Calls, Ask(c) \/ AskWithoutRouter(c) \/ \E p \in Providers, base \in Urls : Test(c, p, base)
      PROVE  TriesLeft' /\ EventsOfMade'
  <2>1. tried' = tried /\ event' = event
    BY <1>1 DEF Ask, AskWithoutRouter, Test, calling, logging
  <2>2. pc[c] = "idle" /\ \A d \in Calls \ {c} : pc'[d] = pc[d]
    BY <1>1, <1>a DEF Ask, AskWithoutRouter, Test
  <2>3. QED
    BY <1>b, <2>1, <2>2 DEF TriesLeft, EventsOfMade, Made
<1>2. ASSUME NEW c \in Calls, NEW target \in held[c], NEW ok \in BOOLEAN, Attempt(c, target, ok)
      PROVE  TriesLeft' /\ EventsOfMade'
  <2>1. PICK new \in Attempts :
          /\ new[1] = c /\ event' = [event EXCEPT ![new] = "logged"]
          /\ \A d \in Calls \ {c} : tried'[d] = tried[d] /\ pc'[d] = pc[d] /\ Made(d)' = Made(d)
          /\ Made(c)' = Made(c) \cup {new}
          /\ Len(tried'[c]) <= MaxTries
    BY <1>2, AttemptAdds
  <2>2. pc[c] \in {"asking", "testing"}
        /\ (pc'[c] = "asking" => Len(tried'[c]) < MaxTries)
        /\ pc'[c] \in {"asking", "answered", "failed", "tested"}
    <3>1. CASE pc[c] = "asking" /\ pc' = pc /\ Len(tried'[c]) < MaxTries
      BY <1>2, <3>1 DEF Attempt
    <3>2. CASE \E end \in {"answered", "failed", "tested"} : pc' = [pc EXCEPT ![c] = end]
      BY <1>2, <1>a, <3>2 DEF Attempt
    <3>3. QED
      BY <1>2, <3>1, <3>2 DEF Attempt
  <2>3. TriesLeft'
    BY <2>1, <2>2 DEF TriesLeft
  <2>4. ASSUME NEW a \in Attempts
        PROVE  event'[a] # "none" <=> a \in Made(a[1])'
    <3>1. a[1] \in Calls
      BY DEF Attempts
    <3>2. a \in Made(a[1])' <=> a \in Made(a[1]) \/ a = new
      BY <2>1, <3>1
    <3>3. QED
      BY <1>a, <2>1, <3>2 DEF EventsOfMade
  <2>5. QED
    BY <2>3, <2>4 DEF EventsOfMade
<1>3. ASSUME NEW a \in Attempts, Deliver(a) \/ Ignore(a) \/ Bump(a) \/ BumpFails(a)
      PROVE  TriesLeft' /\ EventsOfMade'
  <2>1. tried' = tried /\ pc' = pc
    BY <1>3 DEF Deliver, Ignore, Bump, BumpFails, calling
  <2>2. event[a] # "none" /\ event'[a] # "none" /\ \A b \in Attempts \ {a} : event'[b] = event[b]
    BY <1>3, <1>a DEF Deliver, Ignore, Bump, BumpFails
  <2>3. QED
    BY <2>1, <2>2 DEF TriesLeft, EventsOfMade, Made
<1>4. CASE \/ \E p \in Providers, base \in Urls \cup {None} : Change(p, base)
           \/ Rebuild \/ RebuildFails \/ Midnight \/ StatusBegins \/ StatusReplies \/ UNCHANGED vars
  <2>1. UNCHANGED <<tried, pc, event>>
    BY <1>4 DEF Change, Rebuild, RebuildFails, Midnight, StatusBegins, StatusReplies, vars, calling, logging
  <2>2. QED
    BY <2>1 DEF TriesLeft, EventsOfMade, Made
<1>5. QED
  BY Steps, <1>1, <1>2, <1>3, <1>4

\* What was attempted stays as it is recorded, and whether it was a test.
LEMMA MadeStays ==
  ASSUME TypeOK, TriesLeft, EventsOfMade, [Next]_vars, NEW c \in Calls, NEW a \in Made(c)
  PROVE  a \in Made(c)' /\ OfAttempt(a)' = OfAttempt(a) /\ (IsTest(a)' <=> IsTest(a))
<1>a. /\ pc \in [Calls -> {"idle", "asking", "testing", "tested", "answered", "failed"}]
      /\ a[1] = c /\ tried[c] # <<>>
  <2>1. a[1] = c /\ a[2] \in 1..Len(tried[c])
    BY DEF Made
  <2>2. tried[c] # <<>>
    BY <2>1
  <2>3. QED
    BY <2>1, <2>2 DEF TypeOK
<1>1. ASSUME NEW d \in Calls, Ask(d) \/ AskWithoutRouter(d) \/ \E p \in Providers, base \in Urls : Test(d, p, base)
      PROVE  a \in Made(c)' /\ OfAttempt(a)' = OfAttempt(a) /\ (IsTest(a)' <=> IsTest(a))
  <2>1. tried' = tried
    BY <1>1 DEF Ask, AskWithoutRouter, Test
  <2>2. pc[d] = "idle" /\ \A e \in Calls \ {d} : pc'[e] = pc[e]
    BY <1>1, <1>a DEF Ask, AskWithoutRouter, Test
  <2>3. d # c
    BY <1>a, <2>2 DEF TriesLeft
  <2>4. QED
    BY <1>a, <2>1, <2>2, <2>3 DEF Made, OfAttempt, IsTest
<1>2. ASSUME NEW d \in Calls, NEW target \in held[d], NEW ok \in BOOLEAN, Attempt(d, target, ok)
      PROVE  a \in Made(c)' /\ OfAttempt(a)' = OfAttempt(a) /\ (IsTest(a)' <=> IsTest(a))
  BY <1>2, AttemptAdds
<1>3. CASE \/ \E b \in Attempts : Deliver(b) \/ Ignore(b) \/ Bump(b) \/ BumpFails(b)
           \/ \E p \in Providers, base \in Urls \cup {None} : Change(p, base)
           \/ Rebuild \/ RebuildFails \/ Midnight \/ StatusBegins \/ StatusReplies \/ UNCHANGED vars
  <2>1. tried' = tried /\ pc' = pc
    BY <1>3 DEF Deliver, Ignore, Bump, BumpFails, Change, Rebuild, RebuildFails, Midnight,
               StatusBegins, StatusReplies, vars, calling
  <2>2. QED
    BY <2>1 DEF Made, OfAttempt, IsTest
<1>4. QED
  BY Steps, <1>1, <1>2, <1>3

\* A provider has had what it has had.
LEMMA HadGrows ==
  ASSUME TypeOK, [Next]_vars, NEW p \in Providers, NEW base
  PROVE  /\ Holds(p, base) => Holds(p, base)'
         /\ url'[p] # url[p] => Holds(p, url[p])'
<1>a. had \in [Providers -> SUBSET (Urls \cup {None})] /\ url \in [Providers -> Urls \cup {None}]
  BY DEF TypeOK
<1>1. ASSUME NEW q \in Providers, NEW new \in Urls \cup {None}, Change(q, new)
      PROVE  /\ Holds(p, base) => Holds(p, base)'
             /\ url'[p] # url[p] => Holds(p, url[p])'
  BY <1>a, <1>1 DEF Change, Holds
<1>2. CASE UNCHANGED admin
  BY <1>2 DEF admin, Holds
<1>3. QED
  <2>1. UNCHANGED vars => UNCHANGED admin
    BY DEF vars, admin
  <2>2. QED
    BY Steps, <1>1, <1>2, <2>1
       DEF Ask, AskWithoutRouter, Test, Attempt, Deliver, Ignore, Bump, BumpFails, Rebuild,
           RebuildFails, Midnight, StatusBegins, StatusReplies

-----------------------------------------------------------------------------
(* Who is counted                                                           *)

LEMMA NewMapsAreKnown ==
  ASSUME TypeOK, Known, NEW bases \in ApiBaseMaps, NEW p \in Providers, NEW base \in Urls
  PROVE  /\ <<p, base>> \in Deployments => Holds(p, base)
         /\ <<base, p>> \in bases => Holds(p, base)
BY DEF ApiBaseMaps, Deployments, Enabled, Known

LEMMA KnownStep ==
  ASSUME TypeOK, TriesLeft, EventsOfMade, Known, [Next]_vars
  PROVE  Known'
<1>a. /\ pc \in [Calls -> {"idle", "asking", "testing", "tested", "answered", "failed"}]
      /\ held \in [Calls -> SUBSET (Providers \X Urls)]
  BY DEF TypeOK
<1>1. \A p \in Providers : Holds(p, url[p])'
  <2>1. ASSUME NEW p \in Providers
        PROVE  Holds(p, url[p])'
    <3>1. CASE url'[p] = url[p]
      BY <3>1, HadGrows DEF Known, Holds
    <3>2. CASE url'[p] # url[p]
      BY <3>2, HadGrows
    <3>3. QED
      BY <3>1, <3>2
  <2>2. QED
    BY <2>1
<1>2. ASSUME NEW p \in Providers, NEW base \in Urls
      PROVE  /\ <<p, base>> \in router' => Holds(p, base)
             /\ <<base, p>> \in tracked' => Holds(p, base)
  <2>1. CASE Rebuild \/ RebuildFails
    BY <2>1, NewMapsAreKnown DEF Rebuild, RebuildFails, Known
  <2>2. CASE UNCHANGED serving
    BY <2>2 DEF serving, Known
  <2>3. QED
    <3>1. UNCHANGED vars => UNCHANGED serving
      BY DEF vars, serving
    <3>2. QED
      BY Steps, <2>1, <2>2, <3>1
         DEF Ask, AskWithoutRouter, Test, Attempt, Deliver, Ignore, Bump, BumpFails, Change,
             Midnight, StatusBegins, StatusReplies
<1>3. ASSUME NEW p \in Providers, NEW base \in Urls, NEW c \in Calls,
             pc'[c] = "asking", <<p, base>> \in held'[c]
      PROVE  Holds(p, base)
  <2>1. CASE pc[c] = "asking" /\ held'[c] = held[c]
    BY <1>3, <2>1 DEF Known
  <2>2. CASE Ask(c)
    BY <1>3, <1>a, <2>2 DEF Ask, Known
  <2>3. ASSUME NEW d \in Calls, Ask(d) \/ AskWithoutRouter(d) \/ \E q \in Providers, b \in Urls : Test(d, q, b)
        PROVE  Ask(c) \/ (pc[c] = "asking" /\ held'[c] = held[c])
    BY <1>3, <1>a, <2>3 DEF Ask, AskWithoutRouter, Test
  <2>4. ASSUME NEW d \in Calls, NEW target \in held[d], NEW ok \in BOOLEAN, Attempt(d, target, ok)
        PROVE  pc[c] = "asking" /\ held'[c] = held[c]
    <3>1. CASE d = c
      BY <1>3, <1>a, <2>4, <3>1 DEF Attempt
    <3>2. CASE d # c
      BY <1>3, <1>a, <2>4, <3>2 DEF Attempt
    <3>3. QED
      BY <3>1, <3>2
  <2>5. UNCHANGED <<pc, held>> => pc[c] = "asking" /\ held'[c] = held[c]
    BY <1>3
  <2>6. UNCHANGED vars => UNCHANGED <<pc, held>>
    BY DEF vars
  <2>7. QED
    BY Steps, <2>1, <2>2, <2>3, <2>4, <2>5, <2>6
       DEF Deliver, Ignore, Bump, BumpFails, Change, Rebuild, RebuildFails, Midnight, StatusBegins,
           StatusReplies, calling
<1>4. \A p \in Providers, base \in Urls : Holds(p, base) => Holds(p, base)'
  BY HadGrows
<1>5. QED
  BY <1>1, <1>2, <1>3, <1>4 DEF Known

\* An attempt that is no test was made, by today, at a provider that has had the URL.
MadeAtKnown ==
  \A c \in Calls : \A a \in Made(c) :
    /\ OfAttempt(a).day <= day
    /\ IsTest(a) \/ Holds(OfAttempt(a).id, OfAttempt(a).url)

LEMMA MadeStep ==
  ASSUME TypeOK, TriesLeft, EventsOfMade, Known, MadeAtKnown, [Next]_vars
  PROVE  MadeAtKnown'
<1>a. day \in Nat /\ day' \in Nat /\ day <= day'
  <2>1. day \in Nat
    BY DaysAreNumbers DEF TypeOK
  <2>2. day' = day \/ day' = day + 1
    BY Steps DEF vars, Ask, AskWithoutRouter, Test, Attempt, Deliver, Ignore, Bump, BumpFails, Change,
                 Rebuild, RebuildFails, Midnight, StatusBegins, StatusReplies
  <2>3. QED
    BY <2>1, <2>2
<1>1. ASSUME NEW c \in Calls, NEW a \in Made(c)
      PROVE  OfAttempt(a)'.day <= day' /\ (IsTest(a)' \/ Holds(OfAttempt(a).id, OfAttempt(a).url)')
  <2>1. OfAttempt(a) \in Records /\ OfAttempt(a)' = OfAttempt(a) /\ (IsTest(a)' <=> IsTest(a))
    BY MadeIsRecord, MadeStays
  <2>2. OfAttempt(a).day \in Nat /\ OfAttempt(a).id \in Providers
    BY <2>1, DaysAreNumbers DEF Records
  <2>3. OfAttempt(a)'.day <= day'
    BY <1>a, <2>1, <2>2 DEF MadeAtKnown
  <2>4. Holds(OfAttempt(a).id, OfAttempt(a).url) => Holds(OfAttempt(a).id, OfAttempt(a).url)'
    BY <2>1, <2>2, HadGrows DEF Holds
  <2>5. QED
    BY <2>1, <2>3, <2>4 DEF MadeAtKnown
<1>2. ASSUME NEW c \in Calls, NEW target \in held[c], NEW ok \in BOOLEAN, Attempt(c, target, ok)
      PROVE  MadeAtKnown'
  <2>1. PICK new \in Attempts :
          /\ new[1] = c
          /\ \A d \in Calls \ {c} : Made(d)' = Made(d)
          /\ Made(c)' = Made(c) \cup {new}
          /\ OfAttempt(new)' = [id |-> target[1], url |-> target[2], ok |-> ok, day |-> day]
    BY <1>2, AttemptAdds
  <2>2. /\ pc \in [Calls -> {"idle", "asking", "testing", "tested", "answered", "failed"}]
        /\ target \in Providers \X Urls
    BY DEF TypeOK
  <2>3. pc[c] = "asking" \/ pc'[c] = "tested"
    BY <1>2, <2>2 DEF Attempt
  <2>4. pc[c] = "asking" => Holds(target[1], target[2])
    <3>1. target[1] \in Providers /\ target[2] \in Urls /\ <<target[1], target[2]>> \in held[c]
      BY <2>2
    <3>2. QED
      BY <3>1 DEF Known
  <2>5. Holds(target[1], target[2]) => Holds(target[1], target[2])'
    BY <2>2, HadGrows
  <2>6. OfAttempt(new)'.day <= day' /\ (IsTest(new)' \/ Holds(OfAttempt(new).id, OfAttempt(new).url)')
    BY <1>a, <2>1, <2>3, <2>4, <2>5 DEF IsTest, Holds
  <2>7. QED
    BY <1>1, <2>1, <2>6 DEF MadeAtKnown
<1>3. CASE tried' = tried
  <2>1. \A c \in Calls : Made(c)' = Made(c)
    BY <1>3 DEF Made
  <2>2. QED
    BY <1>1, <2>1 DEF MadeAtKnown
<1>4. QED
  <2>1. UNCHANGED vars => tried' = tried
    BY DEF vars
  <2>2. QED
    BY Steps, <1>2, <1>3, <2>1
       DEF Ask, AskWithoutRouter, Test, Deliver, Ignore, Bump, BumpFails, Change, Rebuild,
           RebuildFails, Midnight, StatusBegins, StatusReplies, calling

\* A statement is queued for an attempt that is no test, for a provider that has had its URL.
OwedRightly ==
  \A a \in Attempts : event[a] = "queued" =>
    /\ ~IsTest(a)
    /\ Holds(owed[a].id, OfAttempt(a).url)
    /\ owed[a].day >= OfAttempt(a).day

\* An increment there is for each attempt counted, and only one.
CountedRightly ==
  /\ \A i \in counters :
       /\ event[i.of] = "counted" /\ ~IsTest(i.of)
       /\ i.ok = OfAttempt(i.of).ok
       /\ i.day >= OfAttempt(i.of).day
       /\ Holds(i.id, OfAttempt(i.of).url)
  /\ \A i, j \in counters : i.of = j.of => i = j
  /\ \A a \in Attempts : event[a] = "counted" => \E i \in counters : i.of = a

\* An attempt that has an event stays as it is.
LEMMA LoggedStays ==
  ASSUME TypeOK, TriesLeft, EventsOfMade, [Next]_vars, NEW a \in Attempts, event[a] # "none"
  PROVE  /\ OfAttempt(a) \in Records
         /\ OfAttempt(a)' = OfAttempt(a) /\ (IsTest(a)' <=> IsTest(a))
         /\ a[1] \in Calls /\ a \in Made(a[1])
<1>1. a[1] \in Calls /\ a \in Made(a[1])
  BY DEF Attempts, EventsOfMade
<1>2. QED
  BY <1>1, MadeIsRecord, MadeStays

\* Where the events of a step come from: only a callback queues, only its statement counts.
LEMMA EventSteps ==
  ASSUME TypeOK, TriesLeft, EventsOfMade, [Next]_vars, NEW a \in Attempts, event'[a] # event[a]
  PROVE  \/ event'[a] = "logged" /\ event[a] = "none"
         \/ Deliver(a) /\ event'[a] = "queued"
         \/ Ignore(a) /\ event'[a] = "ignored"
         \/ Bump(a) /\ event'[a] = "counted"
         \/ BumpFails(a) /\ event'[a] = "lost"
<1>a. event \in [Attempts -> {"none", "logged", "queued", "ignored", "lost", "counted"}]
  BY DEF TypeOK
<1>1. ASSUME NEW c \in Calls, NEW target \in held[c], NEW ok \in BOOLEAN, Attempt(c, target, ok)
      PROVE  event'[a] = "logged" /\ event[a] = "none"
  <2>1. PICK new \in Attempts : event[new] = "none" /\ event' = [event EXCEPT ![new] = "logged"]
    BY <1>1, AttemptAdds
  <2>2. QED
    BY <1>a, <2>1
<1>2. ASSUME NEW b \in Attempts, Deliver(b) \/ Ignore(b) \/ Bump(b) \/ BumpFails(b)
      PROVE  \/ Deliver(a) /\ event'[a] = "queued"
             \/ Ignore(a) /\ event'[a] = "ignored"
             \/ Bump(a) /\ event'[a] = "counted"
             \/ BumpFails(a) /\ event'[a] = "lost"
  <2>1. b = a
    BY <1>a, <1>2 DEF Deliver, Ignore, Bump, BumpFails
  <2>2. QED
    BY <1>a, <1>2, <2>1 DEF Deliver, Ignore, Bump, BumpFails
<1>3. UNCHANGED vars => event' = event
  BY DEF vars
<1>4. QED
  BY Steps, <1>1, <1>2, <1>3
     DEF Ask, AskWithoutRouter, Test, Change, Rebuild, RebuildFails, Midnight, StatusBegins,
         StatusReplies, logging

LEMMA OwedStep ==
  ASSUME TypeOK, TriesLeft, EventsOfMade, Known, MadeAtKnown, OwedRightly, [Next]_vars
  PROVE  OwedRightly'
<1>1. SUFFICES ASSUME NEW a \in Attempts, event'[a] = "queued"
               PROVE  /\ ~IsTest(a)' /\ Holds(owed[a].id, OfAttempt(a).url)'
                      /\ owed'[a].day >= OfAttempt(a)'.day
  BY DEF OwedRightly
<1>a. /\ owed \in [Attempts -> [id : Providers, day : Days] \cup {None}]
      /\ event \in [Attempts -> {"none", "logged", "queued", "ignored", "lost", "counted"}]
      /\ event[a] = "queued" => owed[a] # None
  BY DEF TypeOK
<1>2. CASE event[a] = "queued"
  <2>1. owed'[a] = owed[a]
    <3>1. ASSUME NEW b \in Attempts, Deliver(b) \/ Bump(b) \/ BumpFails(b)
          PROVE  owed'[a] = owed[a]
      <4>1. b # a
        BY <1>1, <1>2, <1>a, <3>1 DEF Deliver, Bump, BumpFails
      <4>2. QED
        BY <1>a, <3>1, <4>1 DEF Deliver, Bump, BumpFails
    <3>2. UNCHANGED vars => owed' = owed
      BY DEF vars
    <3>3. QED
      BY Steps, <3>1, <3>2
         DEF Ask, AskWithoutRouter, Test, Attempt, Ignore, Change, Rebuild, RebuildFails, Midnight,
             StatusBegins, StatusReplies, logging
  <2>2. OfAttempt(a)' = OfAttempt(a) /\ (IsTest(a)' <=> IsTest(a))
    BY <1>2, LoggedStays
  <2>3. owed[a].id \in Providers
    BY <1>2, <1>a
  <2>4. Holds(owed[a].id, OfAttempt(a).url)'
    BY <1>2, <2>1, <2>2, <2>3, HadGrows DEF OwedRightly, Holds
  <2>5. QED
    BY <1>2, <2>1, <2>2, <2>4 DEF OwedRightly
<1>3. CASE event[a] # "queued"
  <2>1. Deliver(a)
    BY <1>1, <1>3, EventSteps
  <2>2. PICK p \in Owners(a) : ~IsTest(a) /\ owed' = [owed EXCEPT ![a] = [id |-> p, day |-> day]]
    BY <2>1 DEF Deliver
  <2>3. OfAttempt(a)' = OfAttempt(a) /\ (IsTest(a)' <=> IsTest(a)) /\ OfAttempt(a) \in Records
        /\ a[1] \in Calls /\ a \in Made(a[1])
    BY <2>1, LoggedStays DEF Deliver
  <2>4. p \in Providers /\ Holds(p, OfAttempt(a).url)
    <3>1. PICK b \in tracked : b[2] = p /\ b[1] = OfAttempt(a).url
      BY DEF Owners
    <3>2. b \in Urls \X Providers
      BY DEF TypeOK
    <3>3. b[1] \in Urls /\ p \in Providers /\ <<b[1], p>> \in tracked
      BY <3>1, <3>2
    <3>4. QED
      BY <3>1, <3>3 DEF Known
  <2>5. owed'[a].id = p /\ owed'[a].day = day
    BY <1>a, <2>2
  <2>6. Holds(owed[a].id, OfAttempt(a).url)'
    BY <2>3, <2>4, <2>5, HadGrows DEF Holds
  <2>7. owed'[a].day >= OfAttempt(a)'.day
    <3>1. day \in Nat /\ OfAttempt(a).day \in Nat /\ OfAttempt(a).day <= day
      BY <2>3, DaysAreNumbers DEF TypeOK, MadeAtKnown, Records
    <3>2. QED
      BY <2>3, <2>5, <3>1
  <2>8. QED
    BY <2>2, <2>3, <2>6, <2>7
<1>4. QED
  BY <1>2, <1>3

LEMMA CountedStep ==
  ASSUME TypeOK, TriesLeft, EventsOfMade, OwedRightly, CountedRightly, [Next]_vars
  PROVE  CountedRightly'
<1>a. /\ counters \subseteq [day : Days, id : Providers, of : Attempts, ok : BOOLEAN]
      /\ event \in [Attempts -> {"none", "logged", "queued", "ignored", "lost", "counted"}]
  BY DEF TypeOK
<1>b. \A a \in Attempts : event[a] = "counted" => event'[a] = "counted"
  BY EventSteps DEF Deliver, Ignore, Bump, BumpFails
<1>1. ASSUME NEW i \in counters
      PROVE  /\ event'[i.of] = "counted" /\ ~IsTest(i.of)'
             /\ i.ok = OfAttempt(i.of)'.ok
             /\ i.day >= OfAttempt(i.of)'.day
             /\ Holds(i.id, OfAttempt(i.of).url)'
  <2>1. i.of \in Attempts /\ i.id \in Providers /\ event[i.of] = "counted"
    BY <1>a DEF CountedRightly
  <2>2. OfAttempt(i.of)' = OfAttempt(i.of) /\ (IsTest(i.of)' <=> IsTest(i.of))
    BY <2>1, LoggedStays
  <2>3. Holds(i.id, OfAttempt(i.of).url)'
    BY <2>1, <2>2, HadGrows DEF CountedRightly, Holds
  <2>4. QED
    BY <1>b, <2>1, <2>2, <2>3 DEF CountedRightly
<1>2. CASE counters' = counters
  <2>1. \A a \in Attempts : event'[a] = "counted" => event[a] = "counted"
    <3>1. ASSUME NEW a \in Attempts, event'[a] = "counted", event[a] # "counted"
          PROVE  FALSE
      <4>1. Bump(a)
        BY <3>1, EventSteps
      <4> DEFINE new == [day |-> owed[a].day, id |-> owed[a].id, of |-> a, ok |-> OfAttempt(a).ok]
      <4>2. new \in counters'
        BY <4>1 DEF Bump
      <4>3. new.of = a
        OBVIOUS
      <4>4. QED
        <5> HIDE DEF new
        <5>1. QED
          BY <1>2, <3>1, <4>2, <4>3 DEF CountedRightly
    <3>2. QED
      BY <3>1
  <2>2. QED
    BY <1>1, <1>2, <2>1 DEF CountedRightly
<1>3. ASSUME NEW a \in Attempts, Bump(a)
      PROVE  CountedRightly'
  <2> DEFINE new == [day |-> owed[a].day, id |-> owed[a].id, of |-> a, ok |-> OfAttempt(a).ok]
  <2>1. /\ counters' = counters \cup {new}
        /\ event[a] = "queued" /\ event' = [event EXCEPT ![a] = "counted"]
    BY <1>3 DEF Bump
  <2>2. OfAttempt(a)' = OfAttempt(a) /\ (IsTest(a)' <=> IsTest(a))
    BY <2>1, LoggedStays
  <2>3. owed[a].id \in Providers
    BY <2>1 DEF TypeOK
  <2>4. /\ new.of = a /\ new.id = owed[a].id /\ new.day = owed[a].day /\ new.ok = OfAttempt(a).ok
    OBVIOUS
  <2> HIDE DEF new
  <2>5. PICK i : i = new
    OBVIOUS
  <2>6. /\ event'[i.of] = "counted" /\ ~IsTest(i.of)'
        /\ i.ok = OfAttempt(i.of)'.ok
        /\ i.day >= OfAttempt(i.of)'.day
        /\ Holds(i.id, OfAttempt(i.of).url)'
    <3>1. i.of = a /\ i.id = owed[a].id /\ i.day = owed[a].day /\ i.ok = OfAttempt(a).ok
      BY <2>4, <2>5
    <3>2. Holds(i.id, OfAttempt(a).url)'
      BY <2>1, <2>2, <2>3, <3>1, HadGrows DEF OwedRightly, Holds
    <3>3. QED
      BY <1>a, <2>1, <2>2, <3>1, <3>2 DEF OwedRightly
  <2>7. \A j \in counters : j.of # i.of
    BY <2>1, <2>4, <2>5 DEF CountedRightly
  <2>8. \A b \in Attempts : event'[b] = "counted" => b = i.of \/ event[b] = "counted"
    BY <1>a, <2>1, <2>4, <2>5
  <2>9. counters' = counters \cup {i}
    BY <2>1, <2>5
  <2>10. QED
    BY <1>1, <2>6, <2>7, <2>8, <2>9 DEF CountedRightly
<1>4. QED
  <2>1. UNCHANGED vars => counters' = counters
    BY DEF vars
  <2>2. QED
    BY Steps, <1>2, <1>3, <2>1
       DEF Ask, AskWithoutRouter, Test, Attempt, Deliver, Ignore, BumpFails, Change, Rebuild,
           RebuildFails, Midnight, StatusBegins, StatusReplies, logging

-----------------------------------------------------------------------------
(* Nobody is forgotten                                                      *)

\* The tracker has a provider that has had its one URL all the time and to itself.
SteadyTracked ==
  \A p \in Providers, base \in Urls : Steady(p, base) => url[p] = base /\ <<base, p>> \in tracked

\* Such a provider is in every map that a rebuild may build.
LEMMA SteadyIsMapped ==
  ASSUME TypeOK, Known, NEW p \in Providers, NEW base \in Urls, Steady(p, base),
         NEW bases \in ApiBaseMaps
  PROVE  url[p] = base /\ <<base, p>> \in bases
<1>1. url[p] = base /\ p \in Enabled
  <2>1. Holds(p, url[p])
    BY DEF Known
  <2>2. QED
    BY <2>1, NoneAssumption DEF Holds, Steady, Enabled
<1>2. PICK q \in Enabled : {b \in bases : b[1] = base} = {<<base, q>>}
  BY <1>1 DEF ApiBaseMaps
<1>3. <<base, q>> \in bases /\ q \in Providers
  BY <1>2 DEF Enabled
<1>4. url[q] = base
  BY <1>3 DEF ApiBaseMaps
<1>5. Holds(q, base)
  BY <1>3, <1>4 DEF Known
<1>6. q = p
  BY <1>3, <1>5 DEF Steady, Alone, Holds
<1>7. QED
  BY <1>1, <1>3, <1>6

\* Who is steady has been so all the time.
LEMMA SteadyWas ==
  ASSUME TypeOK, Known, [Next]_vars, NEW p \in Providers, NEW base \in Urls, Steady(p, base)'
  PROVE  Steady(p, base) /\ url'[p] = url[p]
<1>1. \A q \in Providers : \A u : Holds(q, u) => Holds(q, u)'
  BY HadGrows
<1>2. Holds(p, url[p]) /\ had[p] \subseteq {base}
  BY <1>1 DEF Known, Holds, Steady
<1>3. Steady(p, base) /\ url[p] = base
  BY <1>1, <1>2 DEF Holds, Steady, Alone
<1>4. url'[p] # url[p] => url'[p] = base
  BY HadGrows DEF Holds, Steady
<1>5. QED
  BY <1>3, <1>4

LEMMA SteadyStep ==
  ASSUME TypeOK, Known, SteadyTracked, [Next]_vars
  PROVE  SteadyTracked'
<1>1. SUFFICES ASSUME NEW p \in Providers, NEW base \in Urls, Steady(p, base)'
               PROVE  url'[p] = base /\ <<base, p>> \in tracked'
  BY DEF SteadyTracked
<1>2. Steady(p, base) /\ url'[p] = base /\ <<base, p>> \in tracked
  BY <1>1, SteadyWas DEF SteadyTracked
<1>3. CASE Rebuild \/ RebuildFails
  BY <1>2, <1>3, SteadyIsMapped DEF Rebuild, RebuildFails
<1>4. CASE tracked' = tracked
  BY <1>2, <1>4
<1>5. QED
  <2>1. UNCHANGED vars => tracked' = tracked
    BY DEF vars
  <2>2. QED
    BY Steps, <1>3, <1>4, <2>1
       DEF Ask, AskWithoutRouter, Test, Attempt, Deliver, Ignore, Bump, BumpFails, Change, Midnight,
           StatusBegins, StatusReplies, serving

\* No event of such a provider is ignored.
NeverIgnored ==
  \A c \in Calls : \A a \in Made(c) :
    Steady(OfAttempt(a).id, OfAttempt(a).url) /\ ~IsTest(a) => event[a] # "ignored"

LEMMA IgnoredStep ==
  ASSUME TypeOK, TriesLeft, EventsOfMade, Known, SteadyTracked, NeverIgnored, [Next]_vars
  PROVE  NeverIgnored'
<1>1. SUFFICES ASSUME NEW c \in Calls, NEW a \in Made(c)',
                      Steady(OfAttempt(a).id, OfAttempt(a).url)', ~IsTest(a)',
                      event'[a] = "ignored"
               PROVE  FALSE
  BY DEF NeverIgnored
<1>2. a \in Attempts /\ a[1] = c
  <2>1. TypeOK'
    BY TypeStep
  <2>2. Made(c)' \subseteq Attempts
    BY <2>1, TriesAssumption DEF TypeOK, Made, Attempts
  <2>3. QED
    BY <2>2 DEF Made
<1>3. event[a] # "none"
  BY <1>1, <1>2, EventSteps DEF Ignore, Deliver, Bump, BumpFails
<1>4. /\ OfAttempt(a) \in Records /\ OfAttempt(a)' = OfAttempt(a) /\ ~IsTest(a) /\ a \in Made(c)
  BY <1>1, <1>2, <1>3, LoggedStays
<1>5. Steady(OfAttempt(a).id, OfAttempt(a).url)
  <2>1. OfAttempt(a).id \in Providers /\ OfAttempt(a).url \in Urls
    BY <1>4 DEF Records
  <2>2. \A p \in Providers, base \in Urls : Steady(p, base)' => Steady(p, base)
    BY SteadyWas
  <2>3. PICK p \in Providers, base \in Urls : p = OfAttempt(a).id /\ base = OfAttempt(a).url
    BY <2>1
  <2>4. Steady(p, base)'
    BY <1>1, <1>4, <2>3 DEF Steady, Alone
  <2>5. QED
    BY <2>2, <2>3, <2>4
<1>6. CASE event[a] = "ignored"
  BY <1>4, <1>5, <1>6 DEF NeverIgnored
<1>7. CASE event[a] # "ignored"
  <2>1. Ignore(a)
    BY <1>1, <1>2, <1>7, EventSteps
  <2>2. <<OfAttempt(a).url, OfAttempt(a).id>> \in tracked
    BY <1>4, <1>5 DEF SteadyTracked, Records
  <2>3. OfAttempt(a).id \in Owners(a)
    BY <2>2 DEF Owners
  <2>4. QED
    BY <1>4, <2>1, <2>3 DEF Ignore
<1>8. QED
  BY <1>6, <1>7

-----------------------------------------------------------------------------
(* The status page                                                          *)

StatusSince == status # None => status <= Since(day)

LEMMA StatusStep ==
  ASSUME TypeOK, StatusSince, [Next]_vars
  PROVE  StatusSince'
<1>a. day \in Nat /\ (status # None => status \in Nat)
  BY DaysAreNumbers DEF TypeOK
<1>1. CASE Midnight
  BY <1>1, <1>a DEF Midnight, StatusSince, Since
<1>2. CASE StatusBegins
  BY <1>2, <1>a DEF StatusBegins, StatusSince, Since
<1>3. CASE StatusReplies
  BY <1>3 DEF StatusReplies, StatusSince
<1>4. CASE UNCHANGED <<day, status>>
  BY <1>4 DEF StatusSince, Since
<1>5. QED
  <2>1. UNCHANGED vars => UNCHANGED <<day, status>>
    BY DEF vars
  <2>2. QED
    BY Steps, <1>1, <1>2, <1>3, <1>4, <2>1
       DEF Ask, AskWithoutRouter, Test, Attempt, Deliver, Ignore, Bump, BumpFails, Change, Rebuild,
           RebuildFails

-----------------------------------------------------------------------------
(* The theorems                                                             *)

\* The inductive invariant.
Inv ==
  /\ TypeOK /\ TriesLeft /\ EventsOfMade /\ Known /\ MadeAtKnown
  /\ OwedRightly /\ CountedRightly /\ SteadyTracked /\ NeverIgnored /\ StatusSince

LEMMA InitInv ==
  ASSUME Init
  PROVE  Inv
<1>a. \A c \in Calls : Made(c) = {}
  BY DEF Init, Made
<1>1. TypeOK
  <2>1. /\ url \in [Providers -> Urls \cup {None}] /\ router = Deployments
        /\ tracked \in ApiBaseMaps
    BY DEF Init
  <2>2. \A p \in Enabled : p \in Providers /\ url[p] \in Urls
    BY <2>1 DEF Enabled
  <2>3. router \subseteq Providers \X Urls /\ tracked \subseteq Urls \X Providers
    BY <2>1, <2>2 DEF ApiBaseMaps, Deployments
  <2>4. tried \in [Calls -> Seq([id : Providers, url : Urls, ok : BOOLEAN, day : Days])]
        /\ \A c \in Calls : Len(tried[c]) <= MaxTries
    BY TriesAssumption DEF Init
  <2>5. edits \in 0..MaxEdits /\ faults \in 0..MaxFaults
    BY Bounds DEF Init
  <2>6. had \in [Providers -> SUBSET (Urls \cup {None})]
    BY <2>1 DEF Init
  <2>7. QED
    BY <2>1, <2>3, <2>4, <2>5, <2>6, DaysAreNumbers DEF Init, TypeOK
<1>2. TriesLeft /\ StatusSince
  BY DEF Init, TriesLeft, StatusSince
<1>3. EventsOfMade /\ MadeAtKnown /\ OwedRightly /\ CountedRightly /\ NeverIgnored
  BY <1>a DEF Init, EventsOfMade, MadeAtKnown, OwedRightly, CountedRightly, NeverIgnored, Attempts
<1>4. Known
  <2>1. \A p \in Providers : Holds(p, url[p])
    BY DEF Init, Holds
  <2>2. QED
    BY <2>1 DEF Init, Known, Deployments, ApiBaseMaps, Enabled
<1>5. SteadyTracked
  BY <1>1, <1>4, SteadyIsMapped DEF Init, SteadyTracked
<1>6. QED
  BY <1>1, <1>2, <1>3, <1>4, <1>5 DEF Inv

\* The inductive invariant holds: calls, callbacks, edits, rebuilds and midnight keep it.
THEOREM InvHolds == Spec => []Inv
<1>1. ASSUME Inv, [Next]_vars
      PROVE  Inv'
  BY <1>1, TypeStep, TriesStep, KnownStep, MadeStep, OwedStep, CountedStep, SteadyStep, IgnoredStep,
     StatusStep DEF Inv
<1>2. QED
  BY InitInv, <1>1, PTL DEF Spec

\* Every variable keeps its type; no call makes more attempts than the router allows.
THEOREM TypeCorrect == Spec => []TypeOK
BY InvHolds, PTL DEF Inv

\* Each increment of provider_stats_daily is of one attempt, made on no later day with the same
\* result, and goes to the provider that was called unless two have shared its URL
\* (UsageTracker, RouterManager.rebuild).
THEOREM CountsAreRight == Spec => []CountedForItsOwn
<1>1. Inv => CountedForItsOwn
  <2>1. SUFFICES ASSUME Inv PROVE CountedForItsOwn
    OBVIOUS
  <2>2. ASSUME NEW i \in counters
        PROVE  /\ i.of \in Made(i.of[1]) /\ ~IsTest(i.of)
               /\ i.ok = OfAttempt(i.of).ok /\ i.day >= OfAttempt(i.of).day
               /\ OfAttempt(i.of).url \in had[i.id]
               /\ Alone(OfAttempt(i.of).id, OfAttempt(i.of).url) => i.id = OfAttempt(i.of).id
    <3>1. i.of \in Attempts /\ i.id \in Providers
      BY <2>1 DEF Inv, TypeOK
    <3>2. event[i.of] = "counted"
      BY <2>1 DEF Inv, CountedRightly
    <3>3. i.of \in Made(i.of[1])
      BY <2>1, <3>1, <3>2 DEF Inv, EventsOfMade
    <3>4. OfAttempt(i.of).url \in had[i.id]
      BY <2>1 DEF Inv, CountedRightly, Holds
    <3>5. Alone(OfAttempt(i.of).id, OfAttempt(i.of).url) => i.id = OfAttempt(i.of).id
      BY <3>1, <3>4 DEF Alone
    <3>6. QED
      BY <2>1, <3>3, <3>4, <3>5 DEF Inv, CountedRightly
  <2>3. \A i, j \in counters : j.of = i.of => j = i
    BY <2>1 DEF Inv, CountedRightly
  <2>4. QED
    BY <2>2, <2>3 DEF CountedForItsOwn
<1>2. QED
  BY InvHolds, <1>1, PTL

\* An attempt at a provider nobody changes, with a URL of its own, is never ignored, and once
\* counted stays counted for it, through every rebuild and the failing ones
\* (router_manager.py:64-81, usage_tracker.py:22-39).
THEOREM AttemptsAreRemembered == Spec => []NoAttemptForgotten
<1>1. Inv => NoAttemptForgotten
  <2>1. SUFFICES ASSUME Inv, NEW c \in Calls, NEW a \in Made(c),
                        Steady(OfAttempt(a).id, OfAttempt(a).url), pc[c] # "tested"
                 PROVE  /\ event[a] # "ignored"
                        /\ event[a] = "counted" => \E i \in counters : i.of = a /\ i.id = OfAttempt(a).id
    BY DEF NoAttemptForgotten
  <2>2. OfAttempt(a) \in Records /\ a \in Attempts /\ a[1] = c
    BY <2>1, MadeIsRecord DEF Inv
  <2>3. event[a] # "ignored"
    BY <2>1, <2>2 DEF Inv, NeverIgnored, IsTest
  <2>4. ASSUME event[a] = "counted"
        PROVE  \E i \in counters : i.of = a /\ i.id = OfAttempt(a).id
    <3>1. PICK i \in counters : i.of = a
      BY <2>1, <2>2, <2>4 DEF Inv, CountedRightly
    <3>2. i.id \in Providers /\ OfAttempt(a).url \in had[i.id]
      BY <2>1, <3>1 DEF Inv, TypeOK, CountedRightly, Holds
    <3>3. QED
      BY <2>1, <3>1, <3>2 DEF Steady, Alone
  <2>5. QED
    BY <2>3, <2>4
<1>2. QED
  BY InvHolds, <1>1, PTL

\* A status shows every attempt counted of the day before the reply, wherever midnight falls
\* (admin_providers.py:71-85).
THEOREM StatusIsComplete == Spec => []StatusCoversWindow
<1>1. Inv => StatusCoversWindow
  <2>1. SUFFICES ASSUME Inv, status # None, NEW i \in counters, OfAttempt(i.of).day + 1 >= day
                 PROVE  i \in Shown(i.id)
    BY DEF StatusCoversWindow
  <2>2. day \in Nat /\ i.day \in Nat /\ status \in Nat /\ i.of \in Attempts
    BY <2>1, DaysAreNumbers DEF Inv, TypeOK
  <2>3. i.day >= OfAttempt(i.of).day /\ event[i.of] = "counted"
    BY <2>1 DEF Inv, CountedRightly
  <2>4. OfAttempt(i.of).day \in Nat
    <3>1. i.of[1] \in Calls /\ i.of \in Made(i.of[1])
      BY <2>1, <2>2, <2>3 DEF Inv, EventsOfMade, Attempts
    <3>2. QED
      BY <2>1, <3>1, MadeIsRecord, DaysAreNumbers DEF Inv, Records
  <2>5. status <= i.day
    BY <2>1, <2>2, <2>3, <2>4 DEF Inv, StatusSince, Since
  <2>6. QED
    BY <2>2, <2>5 DEF Shown
<1>2. QED
  BY InvHolds, <1>1, PTL
=============================================================================
