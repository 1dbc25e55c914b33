---------------------------- MODULE ProvidersProof ----------------------------
(***************************************************************************)
(* Safety of Providers for any requests, providers and settings, and any   *)
(* number of failing statements and restarts.                              *)
(***************************************************************************)
EXTENDS Providers, FiniteSetTheorems, SequenceTheorems, TLAPS

-----------------------------------------------------------------------------
(* The inductive invariant                                                  *)

\* Who has been given an id has been born, and is never inserted again.
RowsAreBorn == \A p \in Providers : rows[p] # None => born[p] # 0

Deleting(p) == [kind |-> "delete", id |-> p]
Creating(p) == [kind |-> "create", id |-> p]

\* An insert or a delete is all the request writes, and it is what was asked.
TodoIsAsked ==
  \A r \in Requests : \A i \in DOMAIN todo[r] :
    /\ todo[r][i].kind = "insert" =>
         Len(todo[r]) = 1 /\ asked[r] = Creating(todo[r][i].id) /\ born[todo[r][i].id] = 0
    /\ todo[r][i].kind = "delete" => Len(todo[r]) = 1
    /\ \A p \in Providers : asked[r] = Deleting(p) => todo[r][i] = Deleting(p)

\* No two requests create the same provider.
CreatedOnce ==
  \A q, r \in Requests, p \in Providers :
    {pc[q], pc[r]} \cap {"idle", "refused"} = {} /\ asked[q] = Creating(p) /\ asked[r] = Creating(p)
      => q = r

QueuedOnce == \A i, j \in DOMAIN queue : queue[i].by = queue[j].by => i = j

\* Lists: the deployments a rebuild, or the router, has of a provider.
Lists(deployments, p) == \E d \in deployments : d.id = p

\* A provider whose deletion has come this far.
Gone(r, p, stage) == pc[r] = stage /\ asked[r] = Deleting(p)

DeletedIsGone ==
  \A r \in Requests, p \in Providers :
    /\ Gone(r, p, "rebuild") \/ Gone(r, p, "building") \/ Gone(r, p, "done")
         => rows[p] = None /\ born[p] # 0
    /\ Gone(r, p, "building") =>
         \A i, j \in DOMAIN queue : queue[i].by = r /\ i <= j
           => ~Lists(queue[j].listing.deployments, p)
    /\ Gone(r, p, "done") =>
         /\ ~Lists(router.list, p)
         /\ \A j \in DOMAIN queue : ~Lists(queue[j].listing.deployments, p)

\* The request has written, or may have, what no rebuild has read.
Dirty(r) ==
  \/ pc[r] \in {"rebuild", "failed"}
  \/ pc[r] = "write" /\ Head(todo[r]).kind # "delete"

\* If nobody has, the last rebuild at work, or the router if there is none, has read all.
LastIsCurrent ==
  up /\ (\A r \in Requests : ~Dirty(r)) =>
    IF queue = <<>>
      THEN /\ tracked = ApiBaseMap
           /\ router = RouterOf(Deployments, config) \/ Raises(Deployments, config)
      ELSE /\ queue[Len(queue)].listing = Listing
           /\ queue[Len(queue)].conf \in {None, config}

Inv ==
  /\ TypeOK /\ RowsAreBorn /\ TodoIsAsked /\ CreatedOnce /\ QueuedOnce
  /\ DeletedIsGone /\ LastIsCurrent

-----------------------------------------------------------------------------
(* Sequences, sets and statements                                           *)

\* A finite set of numbers has a greatest.
LEMMA MaxExists ==
  ASSUME NEW S \in SUBSET Nat, IsFiniteSet(S), S # {}
  PROVE  \E n \in S : \A m \in S : m <= n
<1> DEFINE Topless == {A \in SUBSET S : A # {} /\ \A n \in A : \E m \in A : ~(m <= n)}
<1> SUFFICES ASSUME Topless # {}
             PROVE  FALSE
  OBVIOUS
<1>1. Topless \subseteq FiniteSubsetsOf(S)
  BY FS_FiniteSubsetsOfFinite
<1>2. PICK A \in Topless : \A B \in Topless : <<B, A>> \notin StrictSubsetOrdering(S)
  <2> HIDE DEF Topless
  <2>1. QED
    BY <1>1, FS_StrictSubsetOrderingWellFounded, WFMin
<1>3. PICK x \in A : TRUE
  OBVIOUS
<1> DEFINE B == A \ {x}
<1>4. B \subseteq S /\ B \subseteq A /\ B # A /\ A \subseteq S
  OBVIOUS
<1>5. B \notin Topless
  BY <1>2, <1>4 DEF StrictSubsetOrdering
<1>6. B # {}
  <2> SUFFICES ASSUME A = {x}
               PROVE  FALSE
    BY <1>3
  <2>1. ~(x <= x) /\ x \in Nat
    BY <1>4
  <2>2. \A n \in Nat : n <= n
    OBVIOUS
  <2>3. QED
    BY <2>1, <2>2
<1>7. PICK n \in B : \A m \in B : m <= n
  BY <1>4, <1>5, <1>6
<1>8. n \in Nat /\ x \in Nat /\ n \in A
  BY <1>4
<1>9. CASE x <= n
  BY <1>7, <1>8, <1>9
<1>10. CASE ~(x <= n)
  <2>1. \A m \in A : m <= x
    <3>1. \A m \in B : m \in Nat /\ m <= x
      BY <1>4, <1>7, <1>8, <1>10
    <3>2. x <= x
      BY <1>8
    <3>3. QED
      BY <3>1, <3>2
  <2>2. QED
    BY <2>1
<1>11. QED
  BY <1>9, <1>10

LEMMA MaxPriorityType ==
  ASSUME TypeOK
  PROVE  MaxPriority \in Nat
<1> DEFINE S == {rows[p].priority : p \in Present}
<1>1. S \in SUBSET Nat
  BY NoneAssumption DEF TypeOK, Present, Rows
<1>2. IsFiniteSet(S)
  <2> DEFINE f == [p \in Present |-> rows[p].priority]
  <2>1. IsFiniteSet(Present)
    BY SetsAssumption, FS_Subset DEF Present
  <2>2. f \in Surjection(Present, S)
    BY DEF Surjection
  <2> HIDE DEF f, S
  <2>3. QED
    BY <2>1, <2>2, FS_Surjection
<1>3. CASE Present = {}
  BY <1>3 DEF MaxPriority
<1>4. CASE Present # {}
  <2>1. S # {}
    BY <1>4
  <2>2. \E n \in S : \A m \in S : m <= n
    <3> HIDE DEF S
    <3>1. QED
      BY <1>1, <1>2, <2>1, MaxExists
  <2>3. MaxPriority = CHOOSE n \in S : \A p \in Present : rows[p].priority <= n
    BY <1>4 DEF MaxPriority
  <2>4. \E n \in S : \A p \in Present : rows[p].priority <= n
    BY <2>2
  <2>5. MaxPriority \in S
    <3> HIDE DEF S
    <3>1. QED
      BY <2>3, <2>4
  <2>6. QED
    BY <1>1, <2>5
<1>5. QED
  BY <1>3, <1>4

LEMMA StatementKinds ==
  ASSUME NEW s \in Statements
  PROVE  /\ s.kind \in {"insert", "update", "delete", "upsert"}
         /\ s.kind = "insert" => s.id \in Providers /\ s.row \in Rows
         /\ s.kind = "update" => s.id \in Providers /\ s.change \in Changes \cup [priority : Nat]
         /\ s.kind = "delete" => s.id \in Providers /\ s = Deleting(s.id)
         /\ s.kind = "upsert" => \/ s.key = "timeout" /\ s.value \in Timeouts
                                 \/ s.key = "strategy" /\ s.value \in Strategies
BY DEF Statements, Deleting

LEMMA DeletingIsStatement ==
  ASSUME NEW p \in Providers
  PROVE  Deleting(p).kind = "delete" /\ Deleting(p).id = p
BY DEF Deleting

\* The first statement, and the others.
LEMMA HeadOfTodo ==
  ASSUME TypeOK, NEW r \in Requests, pc[r] = "write"
  PROVE  /\ todo[r] \in Seq(Statements) /\ todo[r] # <<>> /\ Len(todo[r]) \in Nat \ {0}
         /\ Head(todo[r]) \in Statements /\ Head(todo[r]) = todo[r][1]
         /\ Tail(todo[r]) \in Seq(Statements) /\ Len(Tail(todo[r])) = Len(todo[r]) - 1
         /\ \A i \in DOMAIN Tail(todo[r]) : i + 1 \in DOMAIN todo[r] /\ Tail(todo[r])[i] = todo[r][i + 1]
         /\ Tail(todo[r]) = <<>> <=> Len(todo[r]) = 1
<1>1. todo[r] \in Seq(Statements) /\ todo[r] # <<>>
  BY DEF TypeOK
<1>2. PICK statements \in Seq(Statements) : statements = todo[r]
  BY <1>1
<1>3. Len(statements) \in Nat \ {0} /\ DOMAIN statements = 1..Len(statements)
  BY <1>1, <1>2
<1>4. Head(statements) = statements[1] /\ statements[1] \in Statements
  BY <1>1, <1>2, <1>3
<1>5. /\ Tail(statements) \in Seq(Statements) /\ Len(Tail(statements)) = Len(statements) - 1
      /\ \A i \in 1..(Len(statements) - 1) : Tail(statements)[i] = statements[i + 1]
  BY <1>1, <1>2, <1>3
<1>6. DOMAIN Tail(statements) = 1..(Len(statements) - 1)
  BY <1>3, <1>5
<1>7. Tail(statements) = <<>> <=> Len(statements) = 1
  BY <1>3, <1>5
<1>8. QED
  BY <1>1, <1>2, <1>3, <1>4, <1>5, <1>6, <1>7

\* A sequence without its i-th element, the two parts that are left, and their concatenation.
Without(rest, seq, i) ==
  /\ Len(rest) = Len(seq) - 1
  /\ \A j \in 1..(i - 1) : j \in DOMAIN rest /\ rest[j] = seq[j]
  /\ \A j \in (i + 1)..Len(seq) : j - 1 \in DOMAIN rest /\ rest[j - 1] = seq[j]
  /\ \A j \in DOMAIN rest : IF j < i THEN j \in DOMAIN seq /\ rest[j] = seq[j]
                            ELSE j + 1 \in DOMAIN seq /\ rest[j] = seq[j + 1]

Parts(front, back, seq, i) ==
  /\ Len(front) = i - 1 /\ \A j \in 1..(i - 1) : front[j] = seq[j]
  /\ Len(back) = Len(seq) - i /\ \A j \in 1..(Len(seq) - i) : back[j] = seq[i + j]

Join(rest, front, back) ==
  /\ Len(rest) = Len(front) + Len(back)
  /\ \A j \in 1..(Len(front) + Len(back)) :
       rest[j] = IF j <= Len(front) THEN front[j] ELSE back[j - Len(front)]

LEMMA Joined ==
  ASSUME NEW S, NEW seq \in Seq(S), NEW i \in 1..Len(seq),
         NEW front \in Seq(S), NEW back \in Seq(S), NEW rest \in Seq(S),
         Parts(front, back, seq, i), Join(rest, front, back)
  PROVE  Without(rest, seq, i)
<1> USE DEF Parts, Join
<1>1. Len(seq) \in Nat
  OBVIOUS
<1>5. Len(rest) = Len(seq) - 1
  BY <1>1
<1>6. ASSUME NEW j \in 1..(i - 1)
      PROVE  rest[j] = seq[j]
  <2>1. j \in 1..(Len(front) + Len(back)) /\ j <= Len(front)
    BY <1>1
  <2>2. rest[j] = front[j]
    BY <2>1
  <2>3. QED
    BY <2>2
<1>7. \A j \in i..(Len(seq) - 1) : rest[j] = seq[j + 1]
  <2> SUFFICES ASSUME NEW j \in i..(Len(seq) - 1)
               PROVE  rest[j] = seq[j + 1]
    OBVIOUS
  <2>1. j - (i - 1) \in 1..(Len(seq) - i) /\ i + (j - (i - 1)) = j + 1
    BY <1>1
  <2>2. rest[j] = back[j - (i - 1)]
    BY <1>1
  <2>3. back[j - (i - 1)] = seq[i + (j - (i - 1))]
    BY <2>1
  <2>4. QED
    BY <2>1, <2>2, <2>3
<1>8. DOMAIN rest = 1..(Len(seq) - 1) /\ DOMAIN seq = 1..Len(seq)
  BY <1>1, <1>5
<1>9. ASSUME NEW j \in DOMAIN rest
      PROVE  IF j < i THEN j \in DOMAIN seq /\ rest[j] = seq[j]
             ELSE j + 1 \in DOMAIN seq /\ rest[j] = seq[j + 1]
  <2>1. CASE j < i
    BY <1>1, <1>6, <1>8, <2>1
  <2>2. CASE ~(j < i)
    <3>1. j \in i..(Len(seq) - 1) /\ j + 1 \in DOMAIN seq
      BY <1>1, <1>8, <2>2
    <3>2. QED
      BY <1>7, <2>2, <3>1
  <2>3. QED
    BY <2>1, <2>2
<1>10. \A j \in 1..(i - 1) : j \in DOMAIN rest
  BY <1>1, <1>8
<1>11. ASSUME NEW j \in (i + 1)..Len(seq)
       PROVE  j - 1 \in DOMAIN rest /\ rest[j - 1] = seq[j]
  <2>1. j - 1 \in i..(Len(seq) - 1) /\ (j - 1) + 1 = j
    BY <1>1
  <2>2. j - 1 \in DOMAIN rest
    BY <1>1, <1>8
  <2>3. QED
    BY <1>7, <2>1, <2>2
<1>12. QED
  BY <1>5, <1>6, <1>9, <1>10, <1>11 DEF Without

\* What is left when one element of a sequence is taken out.
LEMMA TakenOut ==
  ASSUME NEW S, NEW seq \in Seq(S), NEW i \in DOMAIN seq,
         NEW rest, rest = SubSeq(seq, 1, i - 1) \o SubSeq(seq, i + 1, Len(seq))
  PROVE  rest \in Seq(S) /\ Without(rest, seq, i)
<1>1. i \in 1..Len(seq) /\ Len(seq) \in Nat
  OBVIOUS
<1> DEFINE front == SubSeq(seq, 1, i - 1)
           back == SubSeq(seq, i + 1, Len(seq))
<1>2. front \in Seq(S) /\ Len(front) = i - 1 /\ \A j \in 1..(i - 1) : front[j] = seq[j]
  BY <1>1
<1>3. back \in Seq(S) /\ Len(back) = Len(seq) - i /\ \A j \in 1..(Len(seq) - i) : back[j] = seq[i + j]
  BY <1>1
<1> HIDE DEF front, back
<1>4. rest = front \o back
  BY DEF front, back
<1>5. rest \in Seq(S) /\ Join(rest, front, back)
  <2>1. front \in Seq(S) /\ back \in Seq(S)
    BY <1>2, <1>3
  <2>2. QED
    BY <1>4, <2>1, ConcatProperties DEF Join
<1>6. front \in Seq(S) /\ back \in Seq(S) /\ i \in 1..Len(seq) /\ Parts(front, back, seq, i)
  BY <1>1, <1>2, <1>3 DEF Parts
<1>7. QED
  BY <1>5, <1>6, Joined

-----------------------------------------------------------------------------
(* What a step changes                                                      *)

\* Every step is one of these.
LEMMA Steps ==
  ASSUME Next
  PROVE  \/ \E r \in Requests : Arrive(r)
         \/ \E r \in Requests : Insert(r)
         \/ \E r \in Requests : Update(r)
         \/ \E r \in Requests : Delete(r)
         \/ \E r \in Requests : DeleteNothing(r)
         \/ \E r \in Requests : Upsert(r)
         \/ \E r \in Requests : WriteFails(r)
         \/ \E r \in Requests : ListEnabled(r)
         \/ \E r \in Requests : ListEnabledFails(r)
         \/ ReadSettings
         \/ ReadSettingsFails
         \/ Build
         \/ Restart
BY DEF Next

LEMMA ListingType ==
  ASSUME rows \in [Providers -> Rows \cup {None}]
  PROVE  /\ Deployments \in SUBSET Deployment /\ ApiBaseMap \in SUBSET (Urls \X Providers)
         /\ Listing \in [deployments : SUBSET Deployment, bases : SUBSET (Urls \X Providers)]
         /\ Listing.deployments = Deployments /\ Listing.bases = ApiBaseMap
<1>1. \A p \in Enabled : p \in Providers /\ rows[p] \in Rows
  BY DEF Enabled, Present
<1>2. Deployments \in SUBSET Deployment
  BY <1>1 DEF Deployments, Deployment, Rows
<1>3. ApiBaseMap \in SUBSET (Urls \X Providers)
  BY <1>1 DEF ApiBaseMap, Rows
<1>4. QED
  BY <1>2, <1>3 DEF Listing

\* No deployment of a provider that has no row.
LEMMA OnlyPresentListed ==
  ASSUME NEW p \in Providers, rows[p] = None
  PROVE  ~Lists(Deployments, p)
BY DEF Lists, Deployments, Enabled, Present

\* A request arrives with statements of its own kind, or is refused.
Fitting(request, statements) ==
  /\ \A i \in DOMAIN statements :
       /\ statements[i].kind = "insert" =>
            Len(statements) = 1 /\ request = Creating(statements[i].id) /\ born[statements[i].id] = 0
       /\ statements[i].kind = "delete" => Len(statements) = 1
       /\ \A p \in Providers : request = Deleting(p) => statements[i] = Deleting(p)
  /\ \A p \in Providers :
       /\ request = Creating(p) => \A q \in Requests : asked[q] # Creating(p)
       /\ request = Deleting(p) => statements # <<>>

LEMMA Arrives ==
  ASSUME TypeOK, NEW r \in Requests, Arrive(r)
  PROVE  \/ Refuse(r)
         \/ \E request \in Asks, statements \in Seq(Statements) :
              Accept(r, request, statements) /\ Fitting(request, statements)
<1> DEFINE Goal == \E request \in Asks, statements \in Seq(Statements) :
                     Accept(r, request, statements) /\ Fitting(request, statements)
<1>1. ASSUME NEW p \in Providers, NEW url \in Urls, Create(r, p, url)
      PROVE  Goal
  <2> DEFINE row == [priority |-> MaxPriority + 1, enabled |-> TRUE, url |-> url]
             s == [kind |-> "insert", id |-> p, row |-> row]
  <2>1. row \in Rows
    BY MaxPriorityType DEF Rows
  <2>2. s \in Statements /\ s.kind = "insert" /\ s.id = p
    <3> HIDE DEF row
    <3>1. QED
      BY <2>1 DEF Statements
  <2>3. Creating(p) \in Asks /\ \A q \in Providers : Creating(p) # Deleting(q)
    BY DEF Creating, Deleting, Asks
  <2>4. \A q \in Providers : Creating(p) = Creating(q) => p = q
    BY DEF Creating
  <2>5. Accept(r, Creating(p), <<s>>) /\ born[p] = 0 /\ \A q \in Requests : asked[q] # Creating(p)
    BY <1>1 DEF Create, Creating
  <2> HIDE DEF s
  <2>6. <<s>> \in Seq(Statements) /\ Len(<<s>>) = 1 /\ \A i \in DOMAIN <<s>> : <<s>>[i] = s
    BY <2>2
  <2>7. Fitting(Creating(p), <<s>>)
    BY <2>2, <2>3, <2>4, <2>5, <2>6 DEF Fitting
  <2>8. QED
    BY <2>3, <2>5, <2>6, <2>7
<1>2. ASSUME NEW p \in Providers, NEW change \in Changes, Edit(r, p, change)
      PROVE  Refuse(r) \/ Goal
  <2> DEFINE s == [kind |-> "update", id |-> p, change |-> change]
             request == [kind |-> "edit", id |-> p]
  <2>1. s \in Statements /\ s.kind = "update"
    BY DEF Statements
  <2>2. request \in Asks /\ \A q \in Providers : request # Deleting(q) /\ request # Creating(q)
    BY DEF Creating, Deleting, Asks
  <2>3. Refuse(r) \/ Accept(r, request, <<s>>)
    BY <1>2 DEF Edit
  <2> HIDE DEF s, request
  <2>4. <<s>> \in Seq(Statements) /\ Len(<<s>>) = 1 /\ \A i \in DOMAIN <<s>> : <<s>>[i] = s
    BY <2>1
  <2>5. Fitting(request, <<s>>)
    BY <2>1, <2>2, <2>4 DEF Fitting
  <2>6. QED
    BY <2>2, <2>3, <2>4, <2>5
<1>3. ASSUME NEW p \in Providers, Remove(r, p)
      PROVE  Goal
  <2> DEFINE s == Deleting(p)
  <2>1. s \in Statements /\ s.kind = "delete"
    BY DEF Statements, Deleting
  <2>2. s \in Asks /\ \A q \in Providers : s # Creating(q)
    BY DEF Creating, Deleting, Asks
  <2>3. \A q \in Providers : s = Deleting(q) => p = q
    BY DEF Deleting
  <2>4. Accept(r, s, <<s>>)
    BY <1>3 DEF Remove, Deleting
  <2> HIDE DEF s
  <2>5. <<s>> \in Seq(Statements) /\ Len(<<s>>) = 1 /\ \A i \in DOMAIN <<s>> : <<s>>[i] = s
    BY <2>1
  <2>6. <<s>> # <<>>
    BY <2>5
  <2>7. Fitting(s, <<s>>)
    BY <2>1, <2>2, <2>3, <2>5, <2>6 DEF Fitting
  <2>8. QED
    BY <2>2, <2>4, <2>5, <2>7
<1>4. ASSUME NEW ids \in Orders, Reorder(r, ids)
      PROVE  Refuse(r) \/ Goal
  <2> DEFINE statement(i) == [kind |-> "update", id |-> ids[i], change |-> [priority |-> i]]
             statements == [i \in DOMAIN ids |-> statement(i)]
             request == [kind |-> "reorder", ids |-> ids]
  <2>1. PICK n \in Nat : ids \in [1..n -> Providers]
    <3>1. Cardinality(Providers) \in Nat
      BY SetsAssumption, FS_CardinalityType
    <3>2. QED
      BY <3>1 DEF Orders, Injection
  <2>2. \A i \in 1..n : statement(i) \in Statements /\ statement(i).kind = "update"
    BY <2>1 DEF Statements
  <2>3. request \in Asks /\ \A q \in Providers : request # Deleting(q) /\ request # Creating(q)
    <3>1. ids \in Seq(Providers)
      BY <2>1
    <3>2. QED
      BY <3>1 DEF Creating, Deleting, Asks
  <2>4. Refuse(r) \/ Accept(r, request, statements)
    BY <1>4 DEF Reorder
  <2> HIDE DEF statement, request
  <2>5. DOMAIN ids = 1..n
    BY <2>1
  <2>6. statements \in Seq(Statements) /\ DOMAIN statements = 1..n
    BY <2>2, <2>5
  <2>7. \A i \in DOMAIN statements : statements[i].kind = "update"
    BY <2>2, <2>5
  <2> HIDE DEF statements
  <2>8. Fitting(request, statements)
    BY <2>3, <2>7 DEF Fitting
  <2>9. QED
    BY <2>3, <2>4, <2>6, <2>8
<1>5. ASSUME NEW conf \in Configs, PutSettings(r, conf)
      PROVE  Goal
  <2> DEFINE s == [kind |-> "upsert", key |-> "timeout", value |-> conf.timeout]
             t == [kind |-> "upsert", key |-> "strategy", value |-> conf.strategy]
             request == [kind |-> "settings"]
  <2>1. s \in Statements /\ s.kind = "upsert" /\ t \in Statements /\ t.kind = "upsert"
    BY DEF Statements, Configs
  <2>2. request \in Asks /\ \A q \in Providers : request # Deleting(q) /\ request # Creating(q)
    BY DEF Creating, Deleting, Asks
  <2>3. Accept(r, request, <<s, t>>)
    BY <1>5 DEF PutSettings
  <2> HIDE DEF s, t, request
  <2>4. <<s, t>> \in Seq(Statements) /\ \A i \in DOMAIN <<s, t>> : <<s, t>>[i] \in {s, t}
    BY <2>1
  <2>5. Fitting(request, <<s, t>>)
    BY <2>1, <2>2, <2>4 DEF Fitting
  <2>6. QED
    BY <2>2, <2>3, <2>4, <2>5
<1>6. QED
  BY <1>1, <1>2, <1>3, <1>4, <1>5 DEF Arrive

\* Only these steps write to the tables, ...
LEMMA TableSteps ==
  ASSUME [Next]_vars
  PROVE  \/ UNCHANGED <<rows, born, config>>
         \/ \E r \in Requests : Insert(r) \/ Update(r) \/ Delete(r) \/ Upsert(r)
<1>1. ASSUME NEW r \in Requests, Arrive(r)
      PROVE  UNCHANGED tables
  BY <1>1 DEF Arrive, Create, Edit, Remove, Reorder, PutSettings, Accept, Refuse
<1>2. QED
  BY <1>1, Steps DEF DeleteNothing, WriteFails, ListEnabled, ListEnabledFails, ReadSettings,
                     ReadSettingsFails, Build, Restart, vars, tables

\* ... and only these touch the queue, what serves and whether it does.
LEMMA QueueSteps ==
  ASSUME [Next]_vars
  PROVE  \/ UNCHANGED <<queue, up, router, tracked>>
         \/ \E r \in Requests : ListEnabled(r)
         \/ ReadSettings \/ ReadSettingsFails \/ Build \/ Restart
<1>1. ASSUME NEW r \in Requests, Arrive(r)
      PROVE  UNCHANGED <<queue, up, router, tracked>>
  BY <1>1 DEF Arrive, Create, Edit, Remove, Reorder, PutSettings, Accept, Refuse, serving
<1>2. ASSUME NEW r \in Requests, Insert(r) \/ Update(r) \/ Delete(r) \/ Upsert(r)
      PROVE  UNCHANGED <<queue, up, router, tracked>>
  BY <1>2 DEF Insert, Update, Delete, Upsert, Run, serving
<1>3. QED
  BY <1>1, <1>2, Steps DEF DeleteNothing, WriteFails, ListEnabledFails, vars, serving

\* A write runs the first of the request's statements.
LEMMA Runs ==
  ASSUME TypeOK, NEW r \in Requests, NEW kind, Run(r, kind)
  PROVE  /\ up /\ pc[r] = "write" /\ todo[r][1] = Head(todo[r]) /\ 1 \in DOMAIN todo[r]
         /\ Head(todo[r]).kind = kind /\ Head(todo[r]) \in Statements
         /\ Len(todo[r]) \in Nat \ {0}
         /\ todo' = [todo EXCEPT ![r] = Tail(todo[r])]
         /\ pc' = [pc EXCEPT ![r] = IF Len(todo[r]) = 1 THEN "rebuild" ELSE "write"]
         /\ UNCHANGED <<up, router, tracked, asked, queue>>
<1>1. pc[r] = "write"
  BY DEF Run
<1>2. 1 \in DOMAIN todo[r]
  BY <1>1, HeadOfTodo
<1>3. QED
  BY <1>1, <1>2, HeadOfTodo DEF Run, serving

\* The next id to be born is within the ids.
LEMMA BornWithin ==
  ASSUME TypeOK, NEW p \in Providers, born[p] = 0
  PROVE  Cardinality({q \in Providers : born[q] # 0}) + 1 \in 0..Cardinality(Providers) \ {0}
<1> DEFINE B == {q \in Providers : born[q] # 0}
<1>1. IsFiniteSet(Providers \ {p})
      /\ Cardinality(Providers \ {p}) = Cardinality(Providers) - 1
  BY SetsAssumption, FS_RemoveElement
<1>2. B \subseteq Providers \ {p}
  OBVIOUS
<1>3. IsFiniteSet(B) /\ Cardinality(B) <= Cardinality(Providers \ {p})
  <2> HIDE DEF B
  <2>1. QED
    BY <1>1, <1>2, FS_Subset
<1>4. Cardinality(B) \in Nat /\ Cardinality(Providers) \in Nat
  <2> HIDE DEF B
  <2>1. QED
    BY <1>3, SetsAssumption, FS_CardinalityType
<1> HIDE DEF B
<1>5. Cardinality(B) + 1 \in 0..Cardinality(Providers) \ {0}
  BY <1>1, <1>3, <1>4
<1>6. QED
  BY <1>5 DEF B

LEMMA ChangedRow ==
  ASSUME NEW row \in Rows, NEW change \in Changes \cup [priority : Nat]
  PROVE  Changed(row, change) \in Rows
<1>1. PICK priority \in Nat, enabled \in BOOLEAN, url \in Urls :
        row = [priority |-> priority, enabled |-> enabled, url |-> url]
  BY DEF Rows
<1>2. DOMAIN row = {"priority", "enabled", "url"}
  BY <1>1
<1>3. CASE change \in [enabled : BOOLEAN]
  <2>1. PICK e \in BOOLEAN : change = [enabled |-> e]
    BY <1>3
  <2>2. Changed(row, change) = [priority |-> priority, enabled |-> e, url |-> url]
    BY <1>1, <1>2, <2>1 DEF Changed
  <2>3. QED
    BY <2>2 DEF Rows
<1>4. CASE change \in [url : Urls]
  <2>1. PICK u \in Urls : change = [url |-> u]
    BY <1>4
  <2>2. Changed(row, change) = [priority |-> priority, enabled |-> enabled, url |-> u]
    BY <1>1, <1>2, <2>1 DEF Changed
  <2>3. QED
    BY <2>2 DEF Rows
<1>5. CASE change \in [priority : Nat]
  <2>1. PICK n \in Nat : change = [priority |-> n]
    BY <1>5
  <2>2. Changed(row, change) = [priority |-> n, enabled |-> enabled, url |-> url]
    BY <1>1, <1>2, <2>1 DEF Changed
  <2>3. QED
    BY <2>2 DEF Rows
<1>6. QED
  BY <1>3, <1>4, <1>5 DEF Changes

\* What each write does to the tables.
LEMMA Inserts ==
  ASSUME TypeOK, TodoIsAsked, NEW r \in Requests, Insert(r)
  PROVE  \E p \in Providers, row \in Rows, rank \in 0..Cardinality(Providers) \ {0} :
           /\ Head(todo[r]).id = p /\ Len(todo[r]) = 1 /\ asked[r] = Creating(p) /\ born[p] = 0
           /\ rows' = [rows EXCEPT ![p] = row] /\ born' = [born EXCEPT ![p] = rank]
           /\ config' = config
<1>1. /\ Head(todo[r]).kind = "insert" /\ Head(todo[r]) \in Statements
      /\ todo[r][1] = Head(todo[r]) /\ 1 \in DOMAIN todo[r]
  BY Runs DEF Insert
<1>2. PICK p \in Providers, row \in Rows : p = Head(todo[r]).id /\ row = Head(todo[r]).row
  BY <1>1, StatementKinds
<1>3. Len(todo[r]) = 1 /\ asked[r] = Creating(p) /\ born[p] = 0
  BY <1>1, <1>2 DEF TodoIsAsked
<1>4. PICK rank \in 0..Cardinality(Providers) \ {0} :
        rank = Cardinality({q \in Providers : born[q] # 0}) + 1
  BY <1>3, BornWithin
<1>5. QED
  BY <1>2, <1>3, <1>4 DEF Insert

LEMMA Updates ==
  ASSUME TypeOK, NEW r \in Requests, Update(r)
  PROVE  \E p \in Providers, row \in Rows \cup {None} :
           /\ rows' = [rows EXCEPT ![p] = row] /\ (rows[p] = None <=> row = None)
           /\ born' = born /\ config' = config
<1>1. Head(todo[r]).kind = "update" /\ Head(todo[r]) \in Statements
  BY Runs DEF Update
<1>2. PICK p \in Providers, change \in Changes \cup [priority : Nat] :
        p = Head(todo[r]).id /\ change = Head(todo[r]).change
  BY <1>1, StatementKinds
<1>3. rows \in [Providers -> Rows \cup {None}]
  BY DEF TypeOK
<1>4. rows' = [rows EXCEPT ![p] = IF rows[p] = None THEN None ELSE Changed(rows[p], change)]
      /\ born' = born /\ config' = config
  BY <1>2, <1>3 DEF Update
<1>5. CASE rows[p] = None
  BY <1>4, <1>5
<1>6. CASE rows[p] # None
  <2>1. Changed(rows[p], change) \in Rows
    BY <1>3, <1>6, ChangedRow
  <2>2. Changed(rows[p], change) # None
    BY <2>1, NoneAssumption
  <2>3. rows' = [rows EXCEPT ![p] = Changed(rows[p], change)]
    BY <1>4, <1>6
  <2>4. QED
    BY <1>4, <1>6, <2>1, <2>2, <2>3
<1>7. QED
  BY <1>5, <1>6

LEMMA Deletes ==
  ASSUME TypeOK, TodoIsAsked, NEW r \in Requests, Delete(r)
  PROVE  \E p \in Providers :
           /\ Head(todo[r]) = Deleting(p) /\ Len(todo[r]) = 1 /\ rows[p] # None
           /\ rows' = [rows EXCEPT ![p] = None] /\ born' = born /\ config' = config
<1>1. /\ Head(todo[r]).kind = "delete" /\ Head(todo[r]) \in Statements
      /\ todo[r][1] = Head(todo[r]) /\ 1 \in DOMAIN todo[r]
  BY Runs DEF Delete
<1>2. PICK p \in Providers : p = Head(todo[r]).id /\ Head(todo[r]) = Deleting(p)
  BY <1>1, StatementKinds
<1>3. Len(todo[r]) = 1
  BY <1>1 DEF TodoIsAsked
<1>4. QED
  BY <1>2, <1>3 DEF Delete, Present

LEMMA Upserts ==
  ASSUME TypeOK, NEW r \in Requests, Upsert(r)
  PROVE  config' \in Configs /\ rows' = rows /\ born' = born
<1>1. Head(todo[r]).kind = "upsert" /\ Head(todo[r]) \in Statements
  BY Runs DEF Upsert
<1>2. PICK key, value : /\ key = Head(todo[r]).key /\ value = Head(todo[r]).value
                        /\ \/ key = "timeout" /\ value \in Timeouts
                           \/ key = "strategy" /\ value \in Strategies
  BY <1>1, StatementKinds
<1>3. PICK strategy \in Strategies, timeout \in Timeouts :
        config = [strategy |-> strategy, timeout |-> timeout]
  BY DEF TypeOK, Configs
<1>4. config' = [config EXCEPT ![key] = value] /\ rows' = rows /\ born' = born
  BY <1>2 DEF Upsert
<1>5. CASE key = "timeout" /\ value \in Timeouts
  <2>1. config' = [strategy |-> strategy, timeout |-> value]
    BY <1>3, <1>4, <1>5
  <2>2. QED
    BY <1>4, <1>5, <2>1 DEF Configs
<1>6. CASE key = "strategy" /\ value \in Strategies
  <2>1. config' = [strategy |-> value, timeout |-> timeout]
    BY <1>3, <1>4, <1>6
  <2>2. QED
    BY <1>4, <1>6, <2>1 DEF Configs
<1>7. QED
  BY <1>2, <1>5, <1>6

LEMMA TablesTyped ==
  ASSUME TypeOK, TodoIsAsked, [Next]_vars
  PROVE  /\ rows' \in [Providers -> Rows \cup {None}]
         /\ born' \in [Providers -> 0..Cardinality(Providers)]
         /\ config' \in Configs
<1>a. /\ rows \in [Providers -> Rows \cup {None}]
      /\ born \in [Providers -> 0..Cardinality(Providers)] /\ config \in Configs
  BY DEF TypeOK
<1>1. ASSUME NEW r \in Requests, Insert(r)
      PROVE  /\ rows' \in [Providers -> Rows \cup {None}] /\ config' \in Configs
             /\ born' \in [Providers -> 0..Cardinality(Providers)]
  BY <1>a, <1>1, Inserts
<1>2. ASSUME NEW r \in Requests, Update(r)
      PROVE  rows' \in [Providers -> Rows \cup {None}] /\ born' = born /\ config' = config
  BY <1>a, <1>2, Updates
<1>3. ASSUME NEW r \in Requests, Delete(r)
      PROVE  rows' \in [Providers -> Rows \cup {None}] /\ born' = born /\ config' = config
  BY <1>a, <1>3, Deletes
<1>4. QED
  BY <1>a, <1>1, <1>2, <1>3, Upserts, TableSteps

\* Who is in the queue is building, and who is building is in the queue.
LEMMA Queued ==
  ASSUME TypeOK
  PROVE  /\ Len(queue) \in Nat /\ DOMAIN queue = 1..Len(queue)
         /\ \A i \in DOMAIN queue :
              queue[i] \in Job /\ queue[i].by \in Requests /\ pc[queue[i].by] = "building"
         /\ \A r \in Requests : pc[r] = "building" => \E i \in DOMAIN queue : queue[i].by = r
<1>1. queue \in Seq(Job) /\ {queue[i].by : i \in DOMAIN queue} = {r \in Requests : pc[r] = "building"}
  BY DEF TypeOK
<1>2. Len(queue) \in Nat /\ DOMAIN queue = 1..Len(queue) /\ \A i \in DOMAIN queue : queue[i] \in Job
  BY <1>1
<1>3. QED
  BY <1>1, <1>2

LEMMA JobType ==
  ASSUME NEW job \in Job
  PROVE  /\ job.by \in Requests /\ job.conf \in Configs \cup {None}
         /\ job.listing.deployments \in SUBSET Deployment
         /\ job.listing.bases \in SUBSET (Urls \X Providers)
BY DEF Job

\* A rebuild begins at the end of the queue.
LEMMA Begins ==
  ASSUME TypeOK, NEW r \in Requests, ListEnabled(r)
  PROVE  /\ up /\ pc[r] = "rebuild" /\ pc' = [pc EXCEPT ![r] = "building"]
         /\ queue' \in Seq(Job) /\ Len(queue') = Len(queue) + 1 /\ DOMAIN queue' = 1..(Len(queue) + 1)
         /\ queue'[Len(queue) + 1].by = r /\ queue'[Len(queue) + 1].listing = Listing
         /\ queue'[Len(queue) + 1].conf = None
         /\ \A i \in DOMAIN queue : queue'[i] = queue[i]
         /\ UNCHANGED <<rows, born, config, up, router, tracked, asked, todo>>
<1> DEFINE job == [by |-> r, listing |-> Listing, conf |-> None]
<1>1. Listing \in [deployments : SUBSET Deployment, bases : SUBSET (Urls \X Providers)]
  BY ListingType DEF TypeOK
<1>2. job \in Job /\ job.by = r /\ job.listing = Listing /\ job.conf = None
  BY <1>1 DEF Job
<1>3. queue' = Append(queue, job)
  BY DEF ListEnabled
<1> HIDE DEF job
<1>4. queue \in Seq(Job) /\ Len(queue) \in Nat /\ DOMAIN queue = 1..Len(queue)
  BY Queued DEF TypeOK
<1>5. /\ queue' \in Seq(Job) /\ Len(queue') = Len(queue) + 1 /\ DOMAIN queue' = 1..(Len(queue) + 1)
      /\ queue'[Len(queue) + 1] = job /\ \A i \in DOMAIN queue : queue'[i] = queue[i]
  BY <1>2, <1>3, <1>4
<1>6. QED
  BY <1>2, <1>5 DEF ListEnabled, tables, serving

\* It goes on where it is.
LEMMA Reads ==
  ASSUME TypeOK, ReadSettings
  PROVE  \E i \in DOMAIN queue :
           /\ queue' \in Seq(Job) /\ Len(queue') = Len(queue) /\ DOMAIN queue' = DOMAIN queue
           /\ queue'[i].conf = config
           /\ \A j \in DOMAIN queue : /\ queue'[j].by = queue[j].by /\ queue'[j].listing = queue[j].listing
                                      /\ j # i => queue'[j] = queue[j]
           /\ UNCHANGED <<rows, born, config, up, router, tracked, pc, asked, todo>>
<1>1. PICK i \in DOMAIN queue :
        /\ queue' = [queue EXCEPT ![i].conf = config]
        /\ UNCHANGED <<rows, born, config, up, router, tracked, pc, asked, todo>>
  BY DEF ReadSettings, tables, serving
<1> DEFINE job == [queue[i] EXCEPT !.conf = config]
<1>2. queue[i] \in Job /\ config \in Configs /\ queue \in Seq(Job)
  BY Queued DEF TypeOK
<1>3. job \in Job /\ job.by = queue[i].by /\ job.listing = queue[i].listing /\ job.conf = config
  BY <1>2 DEF Job
<1>4. queue' = [queue EXCEPT ![i] = job]
  BY <1>1, <1>2
<1> HIDE DEF job
<1>5. /\ queue' \in Seq(Job) /\ Len(queue') = Len(queue) /\ DOMAIN queue' = DOMAIN queue
      /\ queue'[i] = job /\ \A j \in DOMAIN queue : j # i => queue'[j] = queue[j]
  BY <1>2, <1>3, <1>4
<1>6. QED
  BY <1>1, <1>3, <1>5

LEMMA TailWithoutFirst ==
  ASSUME NEW S, NEW seq \in Seq(S), seq # <<>>
  PROVE  /\ Tail(seq) \in Seq(S) /\ Without(Tail(seq), seq, 1)
         /\ Head(seq) = seq[1] /\ 1 \in DOMAIN seq
<1>1. /\ Len(seq) \in Nat \ {0} /\ DOMAIN seq = 1..Len(seq) /\ Head(seq) = seq[1]
  OBVIOUS
<1>2. /\ Tail(seq) \in Seq(S) /\ Len(Tail(seq)) = Len(seq) - 1
      /\ \A i \in 1..(Len(seq) - 1) : Tail(seq)[i] = seq[i + 1]
  OBVIOUS
<1>3. PICK rest \in Seq(S) : rest = Tail(seq)
  BY <1>2
<1>4. DOMAIN rest = 1..(Len(seq) - 1) /\ Len(rest) = Len(seq) - 1
  BY <1>1, <1>2, <1>3
<1>5. \A j \in 2..Len(seq) : j - 1 \in DOMAIN rest /\ rest[j - 1] = seq[j]
  <2> SUFFICES ASSUME NEW j \in 2..Len(seq)
               PROVE  j - 1 \in DOMAIN rest /\ rest[j - 1] = seq[j]
    OBVIOUS
  <2>1. j - 1 \in 1..(Len(seq) - 1) /\ (j - 1) + 1 = j
    BY <1>1
  <2>2. QED
    BY <1>2, <1>3, <1>4, <2>1
<1>6. \A j \in DOMAIN rest : ~(j < 1) /\ j + 1 \in DOMAIN seq /\ rest[j] = seq[j + 1]
  BY <1>1, <1>2, <1>3, <1>4
<1>7. 1..(1 - 1) = {} /\ (1 + 1)..Len(seq) = 2..Len(seq)
  BY <1>1
<1>8. Without(rest, seq, 1)
  BY <1>4, <1>5, <1>6, <1>7 DEF Without
<1>9. QED
  BY <1>1, <1>3, <1>8

\* It ends and leaves the queue, in its turn or, when it cannot read, out of turn.
LEMMA Ends ==
  ASSUME TypeOK, ReadSettingsFails \/ Build
  PROVE  \E i \in DOMAIN queue, stage \in {"failed", "done", "raised"} :
           /\ queue' \in Seq(Job) /\ Without(queue', queue, i)
           /\ pc' = [pc EXCEPT ![queue[i].by] = stage]
           /\ stage = "failed" => UNCHANGED <<router, tracked>>
           /\ stage # "failed" =>
                /\ i = 1 /\ queue[1].conf # None /\ tracked' = queue[1].listing.bases
                /\ IF Raises(queue[1].listing.deployments, queue[1].conf)
                     THEN stage = "raised" /\ router' = router
                     ELSE /\ stage = "done"
                          /\ router' = RouterOf(queue[1].listing.deployments, queue[1].conf)
           /\ UNCHANGED <<rows, born, config, up, asked, todo>>
<1>a. queue \in Seq(Job)
  BY DEF TypeOK
<1>1. CASE ReadSettingsFails
  <2>1. PICK i \in DOMAIN queue :
          /\ queue' = SubSeq(queue, 1, i - 1) \o SubSeq(queue, i + 1, Len(queue))
          /\ pc' = [pc EXCEPT ![queue[i].by] = "failed"]
          /\ UNCHANGED <<rows, born, config, up, router, tracked, asked, todo>>
    BY <1>1 DEF ReadSettingsFails, tables, serving
  <2>2. queue' \in Seq(Job) /\ Without(queue', queue, i)
    BY <1>a, <2>1, TakenOut
  <2>3. QED
    BY <2>1, <2>2
<1>2. CASE Build
  <2>1. queue # <<>> /\ queue' = Tail(queue) /\ UNCHANGED <<rows, born, config, up, asked, todo>>
    BY <1>2 DEF Build, tables
  <2>2. queue' \in Seq(Job) /\ Without(queue', queue, 1) /\ Head(queue) = queue[1] /\ 1 \in DOMAIN queue
    BY <1>a, <2>1, TailWithoutFirst
  <2>3. PICK job : job = queue[1]
    OBVIOUS
  <2>4. /\ job.conf # None /\ tracked' = job.listing.bases
        /\ router' = IF Raises(job.listing.deployments, job.conf) THEN router
                     ELSE RouterOf(job.listing.deployments, job.conf)
        /\ pc' = [pc EXCEPT ![job.by] = IF Raises(job.listing.deployments, job.conf) THEN "raised" ELSE "done"]
    BY <1>2, <2>2, <2>3 DEF Build
  <2>5. CASE Raises(job.listing.deployments, job.conf)
    BY <2>1, <2>2, <2>3, <2>4, <2>5
  <2>6. CASE ~Raises(job.listing.deployments, job.conf)
    BY <2>1, <2>2, <2>3, <2>4, <2>6
  <2>7. QED
    BY <2>5, <2>6
<1>3. QED
  BY <1>1, <1>2

\* The queue stays a queue of rebuilds, one for each request that is building.
LEMMA LeavesQueue ==
  ASSUME TypeOK, QueuedOnce, NEW i \in DOMAIN queue, NEW stage \in {"failed", "done", "raised"},
         queue' \in Seq(Job), Without(queue', queue, i), pc' = [pc EXCEPT ![queue[i].by] = stage]
  PROVE  /\ {queue'[j].by : j \in DOMAIN queue'} = {r \in Requests : pc'[r] = "building"}
         /\ QueuedOnce'
<1>1. /\ Len(queue) \in Nat /\ DOMAIN queue = 1..Len(queue)
      /\ \A j \in DOMAIN queue : queue[j].by \in Requests /\ pc[queue[j].by] = "building"
      /\ \A r \in Requests : pc[r] = "building" => \E j \in DOMAIN queue : queue[j].by = r
      /\ pc \in [Requests -> Stages]
  BY Queued DEF TypeOK
<1>2. /\ \A j \in 1..(i - 1) : j \in DOMAIN queue' /\ queue'[j] = queue[j]
      /\ \A j \in (i + 1)..Len(queue) : j - 1 \in DOMAIN queue' /\ queue'[j - 1] = queue[j]
      /\ \A j \in DOMAIN queue' : IF j < i THEN j \in DOMAIN queue /\ queue'[j] = queue[j]
                                  ELSE j + 1 \in DOMAIN queue /\ queue'[j] = queue[j + 1]
      /\ DOMAIN queue' \subseteq Int
  BY DEF Without
<1>3. \A j \in DOMAIN queue' : \E k \in DOMAIN queue : k # i /\ queue'[j] = queue[k]
                                                     /\ k = IF j < i THEN j ELSE j + 1
  BY <1>1, <1>2
<1>4. \A k \in DOMAIN queue : k # i => \E j \in DOMAIN queue' : queue'[j] = queue[k]
  <2> SUFFICES ASSUME NEW k \in DOMAIN queue, k # i
               PROVE  \E j \in DOMAIN queue' : queue'[j] = queue[k]
    OBVIOUS
  <2>1. k \in 1..(i - 1) \/ k \in (i + 1)..Len(queue)
    BY <1>1
  <2>2. QED
    BY <1>2, <2>1
<1>5. QueuedOnce'
  <2> SUFFICES ASSUME NEW j \in DOMAIN queue', NEW m \in DOMAIN queue', queue'[j].by = queue'[m].by
               PROVE  j = m
    BY DEF QueuedOnce
  <2>1. PICK k \in DOMAIN queue : queue'[j] = queue[k] /\ k = IF j < i THEN j ELSE j + 1
    BY <1>3
  <2>2. PICK n \in DOMAIN queue : queue'[m] = queue[n] /\ n = IF m < i THEN m ELSE m + 1
    BY <1>3
  <2>3. k = n
    BY <2>1, <2>2 DEF QueuedOnce
  <2>4. j \in Int /\ m \in Int /\ i \in Int
    BY <1>1, <1>2
  <2>5. QED
    BY <2>1, <2>2, <2>3, <2>4
<1>6. ASSUME NEW j \in DOMAIN queue'
      PROVE  queue'[j].by \in Requests /\ pc'[queue'[j].by] = "building"
  <2>1. PICK k \in DOMAIN queue : k # i /\ queue'[j] = queue[k]
    BY <1>3
  <2>2. queue[k].by # queue[i].by
    BY <2>1 DEF QueuedOnce
  <2>3. QED
    BY <1>1, <2>1, <2>2
<1>7. ASSUME NEW r \in Requests, pc'[r] = "building"
      PROVE  \E j \in DOMAIN queue' : queue'[j].by = r
  <2>1. r # queue[i].by /\ pc[r] = "building"
    BY <1>1, <1>7
  <2>2. PICK k \in DOMAIN queue : queue[k].by = r
    BY <1>1, <2>1
  <2>3. QED
    BY <1>4, <2>1, <2>2
<1>8. QED
  BY <1>5, <1>6, <1>7

\* Other steps neither begin a rebuild nor end one.
LEMMA OtherSteps ==
  ASSUME TypeOK, [Next]_vars, UNCHANGED queue
  PROVE  \/ \A r \in Requests : pc'[r] = "building" <=> pc[r] = "building"
         \/ ReadSettings \/ ReadSettingsFails \/ Build \/ Restart \/ \E r \in Requests : ListEnabled(r)
<1>a. pc \in [Requests -> Stages]
  BY DEF TypeOK
<1>1. ASSUME NEW r \in Requests, NEW stage \in Stages \ {"building"},
             pc' = [pc EXCEPT ![r] = stage], pc[r] # "building"
      PROVE  \A q \in Requests : pc'[q] = "building" <=> pc[q] = "building"
  BY <1>a, <1>1
<1>2. ASSUME NEW r \in Requests, Arrive(r)
      PROVE  \A q \in Requests : pc'[q] = "building" <=> pc[q] = "building"
  <2>1. /\ pc[r] = "idle"
        /\ \/ pc' = [pc EXCEPT ![r] = "refused"]
           \/ pc' = [pc EXCEPT ![r] = "rebuild"]
           \/ pc' = [pc EXCEPT ![r] = "write"]
    BY <1>2, Arrives DEF Accept, Refuse
  <2>2. QED
    BY <1>1, <2>1 DEF Stages, Ended
<1>3. ASSUME NEW r \in Requests, NEW kind, Run(r, kind)
      PROVE  \A q \in Requests : pc'[q] = "building" <=> pc[q] = "building"
  <2>1. pc[r] = "write" /\ (pc' = [pc EXCEPT ![r] = "rebuild"] \/ pc' = [pc EXCEPT ![r] = "write"])
    BY <1>3, Runs
  <2>2. QED
    BY <1>1, <2>1 DEF Stages
<1>4. ASSUME NEW r \in Requests, DeleteNothing(r) \/ WriteFails(r) \/ ListEnabledFails(r)
      PROVE  \A q \in Requests : pc'[q] = "building" <=> pc[q] = "building"
  <2>1. /\ pc[r] \in {"write", "rebuild"}
        /\ pc' = [pc EXCEPT ![r] = "refused"] \/ pc' = [pc EXCEPT ![r] = "failed"]
    BY <1>4 DEF DeleteNothing, WriteFails, ListEnabledFails
  <2>2. QED
    BY <1>1, <2>1 DEF Stages, Ended
<1>5. QED
  BY <1>2, <1>3, <1>4, Steps DEF Insert, Update, Delete, Upsert, vars

LEMMA QueueTyped ==
  ASSUME TypeOK, QueuedOnce, [Next]_vars
  PROVE  /\ queue' \in Seq(Job) /\ QueuedOnce'
         /\ {queue'[j].by : j \in DOMAIN queue'} = {r \in Requests : pc'[r] = "building"}
<1>a. queue \in Seq(Job) /\ pc \in [Requests -> Stages]
      /\ {queue[i].by : i \in DOMAIN queue} = {r \in Requests : pc[r] = "building"}
  BY DEF TypeOK
<1> DEFINE Goal == /\ queue' \in Seq(Job) /\ QueuedOnce'
                   /\ {queue'[j].by : j \in DOMAIN queue'} = {r \in Requests : pc'[r] = "building"}
<1>1. ASSUME NEW r \in Requests, ListEnabled(r)
      PROVE  Goal
  <2>1. /\ pc[r] = "rebuild" /\ pc' = [pc EXCEPT ![r] = "building"]
        /\ queue' \in Seq(Job) /\ DOMAIN queue' = 1..(Len(queue) + 1)
        /\ queue'[Len(queue) + 1].by = r /\ \A i \in DOMAIN queue : queue'[i] = queue[i]
    BY <1>1, Begins
  <2>2. /\ Len(queue) \in Nat /\ DOMAIN queue = 1..Len(queue)
        /\ \A i \in DOMAIN queue : queue[i].by \in Requests /\ pc[queue[i].by] = "building"
        /\ \A q \in Requests : pc[q] = "building" => \E i \in DOMAIN queue : queue[i].by = q
    BY Queued
  <2>3. \A i \in DOMAIN queue' : i \in DOMAIN queue \/ i = Len(queue) + 1
    BY <2>1, <2>2
  <2>4. Len(queue) + 1 \in DOMAIN queue' /\ DOMAIN queue \subseteq DOMAIN queue'
    BY <2>1, <2>2
  <2>5. QueuedOnce'
    BY <2>1, <2>2, <2>3 DEF QueuedOnce
  <2>6. \A i \in DOMAIN queue' : queue'[i].by \in Requests /\ pc'[queue'[i].by] = "building"
    BY <1>a, <2>1, <2>2, <2>3
  <2>7. \A q \in Requests : pc'[q] = "building" => \E i \in DOMAIN queue' : queue'[i].by = q
    BY <1>a, <2>1, <2>2, <2>4
  <2>8. QED
    BY <2>1, <2>5, <2>6, <2>7
<1>2. CASE ReadSettings
  <2>1. /\ queue' \in Seq(Job) /\ DOMAIN queue' = DOMAIN queue /\ pc' = pc
        /\ \A j \in DOMAIN queue : queue'[j].by = queue[j].by
    BY <1>2, Reads
  <2>2. QED
    BY <1>a, <2>1 DEF QueuedOnce
<1>3. CASE ReadSettingsFails \/ Build
  <2>1. PICK i \in DOMAIN queue, stage \in {"failed", "done", "raised"} :
          /\ queue' \in Seq(Job) /\ Without(queue', queue, i)
          /\ pc' = [pc EXCEPT ![queue[i].by] = stage]
    BY <1>3, Ends
  <2>2. QED
    BY <2>1, LeavesQueue
<1>4. CASE Restart
  <2>1. queue' = <<>> /\ \A r \in Requests : pc'[r] # "building"
    BY <1>4, <1>a DEF Restart
  <2>2. QED
    BY <2>1 DEF QueuedOnce
<1>5. CASE UNCHANGED queue /\ \A r \in Requests : pc'[r] = "building" <=> pc[r] = "building"
  BY <1>a, <1>5 DEF QueuedOnce
<1>6. QED
  BY <1>1, <1>2, <1>3, <1>4, <1>5, QueueSteps, OtherSteps

\* What a step may do to a request.
Arrived(r) ==
  pc[r] = "idle" /\ \E request \in Asks, statements \in Seq(Statements) :
    /\ Fitting(request, statements)
    /\ asked'[r] = request /\ todo'[r] = statements
    /\ pc'[r] = IF statements = <<>> THEN "rebuild" ELSE "write"
    /\ UNCHANGED <<rows, born, config, up, router, tracked, queue>>

Wrote(r) ==
  /\ pc[r] = "write" /\ asked'[r] = asked[r] /\ todo'[r] = Tail(todo[r])
  /\ pc'[r] = IF Len(todo[r]) = 1 THEN "rebuild" ELSE "write"
  /\ Insert(r) \/ Update(r) \/ Delete(r) \/ Upsert(r)

GaveUp(r) ==
  /\ \/ pc[r] = "write"
     \/ pc[r] = "idle" /\ pc'[r] = "refused"
  /\ asked'[r] = asked[r] /\ todo'[r] = <<>>
  /\ pc'[r] \in {"refused", "failed"} /\ (pc'[r] = "refused" => UNCHANGED <<rows, born, config>>)
  /\ pc'[r] = "refused" /\ pc[r] = "write" => Head(todo[r]).kind = "delete"

Rebuilds(r) ==
  /\ asked'[r] = asked[r] /\ todo'[r] = todo[r]
  /\ \/ pc[r] = "rebuild" /\ pc'[r] = "building" /\ ListEnabled(r)
     \/ pc[r] = "rebuild" /\ pc'[r] = "failed"
     \/ pc[r] = "building" /\ pc'[r] \in {"failed", "done", "raised"} /\ (ReadSettingsFails \/ Build)

Restarted(r) ==
  /\ pc'[r] = (IF pc[r] \in {"idle", "done", "refused"} THEN pc[r] ELSE "gone")
  /\ asked'[r] = asked[r] /\ todo'[r] = <<>> /\ Restart

Stays(r) == pc'[r] = pc[r] /\ asked'[r] = asked[r] /\ todo'[r] = todo[r]

LEMMA RequestHistory ==
  ASSUME TypeOK, [Next]_vars
  PROVE  /\ \A r \in Requests : Arrived(r) \/ Wrote(r) \/ GaveUp(r) \/ Rebuilds(r) \/ Restarted(r) \/ Stays(r)
         /\ pc' \in [Requests -> Stages] /\ asked' \in [Requests -> Asks \cup {None}]
         /\ todo' \in [Requests -> Seq(Statements)]
<1>a. /\ pc \in [Requests -> Stages] /\ asked \in [Requests -> Asks \cup {None}]
      /\ todo \in [Requests -> Seq(Statements)] /\ \A r \in Requests : todo[r] # <<>> <=> pc[r] = "write"
  BY DEF TypeOK
<1>b. <<>> \in Seq(Statements)
  OBVIOUS
<1> DEFINE Goal ==
      /\ \A r \in Requests : Arrived(r) \/ Wrote(r) \/ GaveUp(r) \/ Rebuilds(r) \/ Restarted(r) \/ Stays(r)
      /\ pc' \in [Requests -> Stages] /\ asked' \in [Requests -> Asks \cup {None}]
      /\ todo' \in [Requests -> Seq(Statements)]
<1>1. ASSUME NEW r \in Requests, Arrive(r)
      PROVE  Goal
  <2>1. CASE Refuse(r)
    <3>1. /\ pc[r] = "idle" /\ pc' = [pc EXCEPT ![r] = "refused"] /\ asked' = asked /\ todo' = todo
          /\ UNCHANGED <<rows, born, config>>
      BY <2>1 DEF Refuse, tables
    <3>2. todo[r] = <<>> /\ pc'[r] = "refused"
      BY <1>a, <3>1
    <3>3. GaveUp(r)
      BY <3>1, <3>2 DEF GaveUp
    <3>4. \A q \in Requests \ {r} : Stays(q)
      BY <1>a, <3>1 DEF Stays
    <3>5. pc' \in [Requests -> Stages]
      BY <1>a, <3>1 DEF Stages, Ended
    <3>6. QED
      BY <1>a, <3>1, <3>3, <3>4, <3>5
  <2>2. ASSUME NEW request \in Asks, NEW statements \in Seq(Statements),
               Accept(r, request, statements), Fitting(request, statements)
        PROVE  Goal
    <3>1. /\ pc[r] = "idle" /\ UNCHANGED <<rows, born, config, up, router, tracked, queue>>
          /\ pc' = [pc EXCEPT ![r] = IF statements = <<>> THEN "rebuild" ELSE "write"]
          /\ asked' = [asked EXCEPT ![r] = request] /\ todo' = [todo EXCEPT ![r] = statements]
      BY <2>2 DEF Accept, tables, serving
    <3>2. Arrived(r)
      BY <1>a, <2>2, <3>1 DEF Arrived
    <3>3. \A q \in Requests \ {r} : Stays(q)
      BY <1>a, <3>1 DEF Stays
    <3>4. pc' \in [Requests -> Stages]
      BY <1>a, <3>1 DEF Stages
    <3>5. asked' \in [Requests -> Asks \cup {None}] /\ todo' \in [Requests -> Seq(Statements)]
      BY <1>a, <3>1
    <3>6. QED
      BY <3>2, <3>3, <3>4, <3>5
  <2>3. QED
    BY <1>1, <2>1, <2>2, Arrives
<1>2. ASSUME NEW r \in Requests, Insert(r) \/ Update(r) \/ Delete(r) \/ Upsert(r)
      PROVE  Goal
  <2>1. PICK kind : Run(r, kind)
    BY <1>2 DEF Insert, Update, Delete, Upsert
  <2>2. /\ pc[r] = "write" /\ asked' = asked /\ todo' = [todo EXCEPT ![r] = Tail(todo[r])]
        /\ pc' = [pc EXCEPT ![r] = IF Len(todo[r]) = 1 THEN "rebuild" ELSE "write"]
    BY <2>1, Runs
  <2>3. Tail(todo[r]) \in Seq(Statements)
    BY <2>2, HeadOfTodo
  <2>4. Wrote(r)
    BY <1>2, <1>a, <2>2 DEF Wrote
  <2>5. \A q \in Requests \ {r} : Stays(q)
    BY <1>a, <2>2 DEF Stays
  <2>6. pc' \in [Requests -> Stages] /\ asked' \in [Requests -> Asks \cup {None}]
    BY <1>a, <2>2 DEF Stages
  <2>7. todo' \in [Requests -> Seq(Statements)]
    BY <1>a, <2>2, <2>3
  <2>8. QED
    BY <2>4, <2>5, <2>6, <2>7
<1>3. ASSUME NEW r \in Requests, DeleteNothing(r) \/ WriteFails(r)
      PROVE  Goal
  <2>1. PICK stage \in {"refused", "failed"} :
          /\ pc[r] = "write" /\ asked' = asked /\ todo' = [todo EXCEPT ![r] = <<>>]
          /\ pc' = [pc EXCEPT ![r] = stage] /\ UNCHANGED <<rows, born, config>>
          /\ stage = "refused" => Head(todo[r]).kind = "delete"
    BY <1>3 DEF DeleteNothing, WriteFails, tables
  <2>2. GaveUp(r)
    <3>1. pc'[r] = stage /\ todo'[r] = <<>> /\ asked'[r] = asked[r]
      BY <1>a, <2>1
    <3>2. pc'[r] \in {"refused", "failed"} /\ (pc'[r] = "refused" => Head(todo[r]).kind = "delete")
      BY <2>1, <3>1
    <3>3. QED
      BY <2>1, <3>1, <3>2 DEF GaveUp
  <2>3. \A q \in Requests \ {r} : Stays(q)
    BY <1>a, <2>1 DEF Stays
  <2>4. pc' \in [Requests -> Stages] /\ asked' \in [Requests -> Asks \cup {None}]
    BY <1>a, <2>1 DEF Stages, Ended
  <2>5. todo' \in [Requests -> Seq(Statements)]
    BY <1>a, <1>b, <2>1
  <2>6. QED
    BY <2>2, <2>3, <2>4, <2>5
<1>4. ASSUME NEW r \in Requests, NEW stage \in Stages, pc' = [pc EXCEPT ![r] = stage],
             asked' = asked, todo' = todo, Rebuilds(r)
      PROVE  Goal
  <2>1. \A q \in Requests \ {r} : Stays(q)
    BY <1>a, <1>4 DEF Stays
  <2>2. pc' \in [Requests -> Stages]
    BY <1>a, <1>4
  <2>3. QED
    BY <1>a, <1>4, <2>1, <2>2
<1>5. ASSUME NEW r \in Requests, ListEnabled(r)
      PROVE  Goal
  <2>1. pc[r] = "rebuild" /\ pc' = [pc EXCEPT ![r] = "building"] /\ asked' = asked /\ todo' = todo
    BY <1>5 DEF ListEnabled
  <2>2. Rebuilds(r)
    BY <1>a, <1>5, <2>1 DEF Rebuilds
  <2>3. QED
    BY <1>4, <2>1, <2>2 DEF Stages
<1>6. ASSUME NEW r \in Requests, ListEnabledFails(r)
      PROVE  Goal
  <2>1. pc[r] = "rebuild" /\ pc' = [pc EXCEPT ![r] = "failed"] /\ asked' = asked /\ todo' = todo
    BY <1>6 DEF ListEnabledFails
  <2>2. Rebuilds(r)
    BY <1>a, <2>1 DEF Rebuilds
  <2>3. QED
    BY <1>4, <2>1, <2>2 DEF Stages, Ended
<1>7. CASE ReadSettingsFails \/ Build
  <2>1. PICK i \in DOMAIN queue, stage \in {"failed", "done", "raised"} :
          pc' = [pc EXCEPT ![queue[i].by] = stage] /\ asked' = asked /\ todo' = todo
    BY <1>7, Ends
  <2>2. PICK r \in Requests : r = queue[i].by /\ pc[r] = "building"
    BY Queued
  <2>3. Rebuilds(r)
    BY <1>a, <1>7, <2>1, <2>2 DEF Rebuilds
  <2>4. QED
    BY <1>4, <2>1, <2>2, <2>3 DEF Stages, Ended
<1>8. CASE Restart
  <2>1. /\ pc' = [r \in Requests |-> IF pc[r] \in {"idle", "done", "refused"} THEN pc[r] ELSE "gone"]
        /\ todo' = [r \in Requests |-> <<>>] /\ asked' = asked
    BY <1>8 DEF Restart
  <2>2. \A r \in Requests : Restarted(r)
    BY <1>8, <2>1 DEF Restarted
  <2>3. pc' \in [Requests -> Stages]
    BY <1>a, <2>1 DEF Stages, Ended
  <2>4. QED
    BY <1>a, <1>b, <2>1, <2>2, <2>3
<1>9. CASE UNCHANGED <<pc, asked, todo>>
  BY <1>a, <1>9 DEF Stays
<1>10. QED
  BY <1>1, <1>2, <1>3, <1>5, <1>6, <1>7, <1>8, <1>9, Steps DEF ReadSettings, vars

-----------------------------------------------------------------------------
(* The invariant is kept                                                    *)

LEMMA RouterType ==
  ASSUME NEW deployments \in SUBSET Deployment, NEW conf \in Configs \cup {None}
  PROVE  /\ RouterOf(deployments, conf) \in [list : SUBSET Deployment, conf : Configs \cup {None}]
         /\ RouterOf(deployments, conf).list = deployments
BY DEF RouterOf

LEMMA ServingTyped ==
  ASSUME TypeOK, [Next]_vars
  PROVE  /\ up' \in BOOLEAN /\ tracked' \subseteq Urls \X Providers
         /\ router' \in [list : SUBSET Deployment, conf : Configs \cup {None}]
<1>a. /\ up \in BOOLEAN /\ tracked \subseteq Urls \X Providers
      /\ router \in [list : SUBSET Deployment, conf : Configs \cup {None}]
  BY DEF TypeOK
<1>1. ASSUME NEW r \in Requests, ListEnabled(r)
      PROVE  UNCHANGED <<up, router, tracked>>
  BY <1>1, Begins
<1>2. CASE ReadSettings
  BY <1>a, <1>2, Reads
<1>3. CASE ReadSettingsFails \/ Build
  <2>1. PICK i \in DOMAIN queue, stage \in {"failed", "done", "raised"} :
          /\ stage = "failed" => UNCHANGED <<router, tracked>>
          /\ stage # "failed" =>
               /\ i = 1 /\ tracked' = queue[1].listing.bases
               /\ router' = router \/ router' = RouterOf(queue[1].listing.deployments, queue[1].conf)
          /\ up' = up
    BY <1>3, Ends
  <2>2. CASE stage = "failed"
    BY <1>a, <2>1, <2>2
  <2>3. CASE stage # "failed"
    <3>1. PICK job \in Job : job = queue[1]
      BY <2>1, <2>3, Queued
    <3>2. /\ job.listing.bases \in SUBSET (Urls \X Providers)
          /\ RouterOf(job.listing.deployments, job.conf) \in
               [list : SUBSET Deployment, conf : Configs \cup {None}]
      BY JobType, RouterType
    <3>3. QED
      BY <1>a, <2>1, <2>3, <3>1, <3>2
  <2>4. QED
    BY <2>2, <2>3
<1>4. CASE Restart
  <2>1. /\ Deployments \in SUBSET Deployment /\ ApiBaseMap \in SUBSET (Urls \X Providers)
        /\ config \in Configs /\ {} \in SUBSET Deployment
    BY ListingType DEF TypeOK
  <2>2. /\ up' = ~Raises(Deployments, config)
        /\ router' = RouterOf(Deployments, config) \/ router' = RouterOf({}, config)
        /\ tracked' = ApiBaseMap \/ tracked' = {}
    BY <1>4 DEF Restart
  <2>3. up' \in BOOLEAN
    BY <2>2
  <2>4. QED
    BY <2>1, <2>2, <2>3, RouterType
<1>5. QED
  BY <1>a, <1>1, <1>2, <1>3, <1>4, QueueSteps

LEMMA FaultsTyped ==
  ASSUME TypeOK, [Next]_vars
  PROVE  faults' \in 0..MaxFaults
<1>a. faults \in 0..MaxFaults /\ MaxFaults \in Nat
  BY BoundsAssumption DEF TypeOK
<1>1. CASE faults' = faults
  BY <1>a, <1>1
<1>2. CASE faults < MaxFaults /\ faults' = faults + 1
  BY <1>a, <1>2
<1>3. ASSUME NEW r \in Requests, Arrive(r)
      PROVE  faults' = faults
  BY <1>3 DEF Arrive, Create, Edit, Remove, Reorder, PutSettings, Accept, Refuse
<1>4. faults' = faults \/ (faults < MaxFaults /\ faults' = faults + 1)
  BY <1>3, Steps DEF Insert, Update, Delete, Upsert, Run, DeleteNothing, WriteFails, ListEnabled,
                     ListEnabledFails, ReadSettings, ReadSettingsFails, Build, Restart, vars
<1>5. QED
  BY <1>1, <1>2, <1>4

LEMMA TypeStep ==
  ASSUME TypeOK, TodoIsAsked, QueuedOnce, [Next]_vars
  PROVE  TypeOK'
<1>1. \A r \in Requests : todo'[r] # <<>> <=> pc'[r] = "write"
  <2> SUFFICES ASSUME NEW r \in Requests
               PROVE  todo'[r] # <<>> <=> pc'[r] = "write"
    OBVIOUS
  <2>a. todo[r] # <<>> <=> pc[r] = "write"
    BY DEF TypeOK
  <2>1. CASE Wrote(r)
    <3>1. Tail(todo[r]) = <<>> <=> Len(todo[r]) = 1
      BY <2>1, HeadOfTodo DEF Wrote
    <3>2. QED
      BY <2>1, <3>1 DEF Wrote
  <2>2. CASE Arrived(r)
    BY <2>2 DEF Arrived
  <2>3. CASE GaveUp(r) \/ Rebuilds(r) \/ Restarted(r) \/ Stays(r)
    BY <2>a, <2>3 DEF GaveUp, Rebuilds, Restarted, Stays
  <2>4. QED
    BY <2>1, <2>2, <2>3, RequestHistory
<1>2. QED
  BY <1>1, TablesTyped, ServingTyped, FaultsTyped, RequestHistory, QueueTyped DEF TypeOK

LEMMA BornStep ==
  ASSUME TypeOK, TodoIsAsked, RowsAreBorn, [Next]_vars
  PROVE  RowsAreBorn' /\ \A p \in Providers : born[p] # 0 => born'[p] # 0
<1>a. /\ rows \in [Providers -> Rows \cup {None}]
      /\ born \in [Providers -> 0..Cardinality(Providers)]
  BY DEF TypeOK
<1>1. ASSUME NEW r \in Requests, Insert(r)
      PROVE  RowsAreBorn' /\ \A p \in Providers : born[p] # 0 => born'[p] # 0
  <2>1. PICK p \in Providers, row \in Rows, rank \in 0..Cardinality(Providers) \ {0} :
          rows' = [rows EXCEPT ![p] = row] /\ born' = [born EXCEPT ![p] = rank]
    BY <1>1, Inserts
  <2>2. born'[p] = rank /\ rank # 0 /\ \A q \in Providers \ {p} : born'[q] = born[q] /\ rows'[q] = rows[q]
    BY <1>a, <2>1
  <2>3. QED
    BY <2>2 DEF RowsAreBorn
<1>2. ASSUME NEW r \in Requests, Update(r) \/ Delete(r) \/ Upsert(r)
      PROVE  born' = born /\ \A p \in Providers : rows'[p] # None => rows[p] # None
  <2>1. CASE Update(r)
    BY <1>a, <2>1, Updates
  <2>2. CASE Delete(r)
    BY <1>a, <2>2, Deletes
  <2>3. CASE Upsert(r)
    BY <2>3, Upserts
  <2>4. QED
    BY <1>2, <2>1, <2>2, <2>3
<1>3. QED
  BY <1>1, <1>2, TableSteps DEF RowsAreBorn

\* Insert of somebody else's provider: only one request creates it.
LEMMA OthersBirth ==
  ASSUME TypeOK, TodoIsAsked, CreatedOnce, [Next]_vars,
         NEW r \in Requests, NEW p \in Providers, pc[r] = "write", asked[r] = Creating(p),
         born[p] = 0, ~Insert(r)
  PROVE  born'[p] = 0
<1>a. born \in [Providers -> 0..Cardinality(Providers)]
  BY DEF TypeOK
<1>1. ASSUME NEW q \in Requests, Insert(q)
      PROVE  born'[p] = 0
  <2>1. PICK o \in Providers, rank \in Nat :
          /\ asked[q] = Creating(o) /\ born' = [born EXCEPT ![o] = rank]
    BY <1>1, Inserts
  <2>2. pc[q] = "write"
    BY <1>1, Runs DEF Insert
  <2>3. o # p
    BY <1>1, <2>1, <2>2 DEF CreatedOnce
  <2>4. QED
    BY <1>a, <2>1, <2>3
<1>2. ASSUME NEW q \in Requests, Update(q) \/ Delete(q) \/ Upsert(q)
      PROVE  born' = born
  BY <1>2, Updates, Deletes, Upserts
<1>3. QED
  BY <1>1, <1>2, TableSteps

LEMMA TodoStep ==
  ASSUME TypeOK, TodoIsAsked, CreatedOnce, [Next]_vars
  PROVE  TodoIsAsked'
<1> SUFFICES ASSUME NEW r \in Requests, NEW i \in DOMAIN todo'[r]
             PROVE  /\ todo'[r][i].kind = "insert" =>
                         /\ Len(todo'[r]) = 1 /\ asked'[r] = Creating(todo'[r][i].id)
                         /\ born'[todo'[r][i].id] = 0
                    /\ todo'[r][i].kind = "delete" => Len(todo'[r]) = 1
                    /\ \A p \in Providers : asked'[r] = Deleting(p) => todo'[r][i] = Deleting(p)
  BY DEF TodoIsAsked, Creating, Deleting
<1>a. todo[r] \in Seq(Statements) /\ (todo[r] # <<>> <=> pc[r] = "write")
  BY DEF TypeOK
<1>1. CASE Arrived(r)
  BY <1>1 DEF Arrived, Fitting
<1>2. CASE Wrote(r)
  <2>1. /\ pc[r] = "write" /\ asked'[r] = asked[r] /\ todo'[r] = Tail(todo[r])
    BY <1>2 DEF Wrote
  <2>2. /\ 1 \in DOMAIN todo[r] /\ Len(todo[r]) \in Nat \ {0} /\ Len(Tail(todo[r])) = Len(todo[r]) - 1
        /\ i + 1 \in DOMAIN todo[r] /\ Tail(todo[r])[i] = todo[r][i + 1]
        /\ Tail(todo[r]) = <<>> <=> Len(todo[r]) = 1
    BY <2>1, HeadOfTodo
  <2>3. Tail(todo[r]) # <<>>
    BY <2>1
  <2>4. Len(todo[r]) # 1
    BY <2>2, <2>3
  <2>5. /\ todo[r][i + 1].kind # "insert" /\ todo[r][i + 1].kind # "delete"
        /\ \A p \in Providers : asked[r] # Deleting(p)
    <3>1. todo[r][i + 1].kind # "insert" /\ todo[r][i + 1].kind # "delete"
      BY <2>2, <2>4 DEF TodoIsAsked
    <3>2. QED
      BY <2>2, <3>1, DeletingIsStatement DEF TodoIsAsked
  <2>6. QED
    BY <2>1, <2>2, <2>5
<1>3. CASE GaveUp(r) \/ Restarted(r)
  BY <1>3 DEF GaveUp, Restarted
<1>4. CASE Rebuilds(r) \/ Stays(r)
  <2>1. asked'[r] = asked[r] /\ todo'[r] = todo[r]
    BY <1>4 DEF Rebuilds, Stays
  <2>2. pc[r] = "write" /\ ~Insert(r)
    <3>1. pc[r] = "write"
      BY <1>a, <2>1
    <3>2. ~Insert(r)
      <4>1. ASSUME Insert(r)
            PROVE  FALSE
        <5>1. todo'[r] = Tail(todo[r]) /\ Len(Tail(todo[r])) = Len(todo[r]) - 1 /\ Len(todo[r]) \in Nat
          BY <3>1, <4>1, Runs, HeadOfTodo DEF Insert, TypeOK
        <5>2. PICK n \in Nat : n = Len(todo[r])
          BY <5>1
        <5>3. n = n - 1
          BY <2>1, <5>1, <5>2
        <5>4. QED
          BY <5>3
      <4>2. QED
        BY <4>1
    <3>3. QED
      BY <3>1, <3>2
  <2>3. todo[r][i].kind = "insert" => born'[todo[r][i].id] = 0
    <3>1. ASSUME todo[r][i].kind = "insert"
          PROVE  born'[todo[r][i].id] = 0
      <4>1. todo[r][i] \in Statements
        BY <1>a, <2>1
      <4>2. PICK p \in Providers : p = todo[r][i].id
        BY <3>1, <4>1, StatementKinds
      <4>3. asked[r] = Creating(p) /\ born[p] = 0
        BY <2>1, <3>1, <4>2 DEF TodoIsAsked
      <4>4. QED
        BY <2>2, <4>2, <4>3, OthersBirth
    <3>2. QED
      BY <3>1
  <2>4. QED
    BY <2>1, <2>3 DEF TodoIsAsked
<1>5. QED
  BY <1>1, <1>2, <1>3, <1>4, RequestHistory

LEMMA CreatedStep ==
  ASSUME TypeOK, CreatedOnce, [Next]_vars
  PROVE  CreatedOnce'
<1>a. asked \in [Requests -> Asks \cup {None}] /\ pc \in [Requests -> Stages]
  BY DEF TypeOK
<1>1. ASSUME NEW r \in Requests, NEW request \in Asks, NEW statements \in Seq(Statements),
             Accept(r, request, statements), Fitting(request, statements)
      PROVE  CreatedOnce'
  <2>1. /\ asked'[r] = request /\ \A q \in Requests \ {r} : asked'[q] = asked[q] /\ pc'[q] = pc[q]
    BY <1>a, <1>1 DEF Accept
  <2>2. \A p \in Providers : request = Creating(p) => \A q \in Requests : asked[q] # Creating(p)
    BY <1>1 DEF Fitting
  <2>3. QED
    BY <2>1, <2>2 DEF CreatedOnce, Creating
<1>2. ASSUME asked' = asked
      PROVE  CreatedOnce'
  <2>1. ASSUME NEW r \in Requests, NEW p \in Providers, asked[r] = Creating(p),
               pc'[r] \notin {"idle", "refused"}
        PROVE  pc[r] \notin {"idle", "refused"}
    <3>1. ~Arrived(r)
      BY <1>2, <2>1 DEF Arrived, Fitting
    <3>2. QED
      BY <2>1, <3>1, RequestHistory DEF Wrote, GaveUp, Rebuilds, Restarted, Stays
  <2>2. QED
    BY <1>2, <2>1 DEF CreatedOnce, Creating
<1>3. ASSUME NEW r \in Requests, Arrive(r)
      PROVE  CreatedOnce'
  <2>1. CASE Refuse(r)
    BY <1>2, <2>1 DEF Refuse
  <2>2. QED
    BY <1>1, <1>3, <2>1, Arrives
<1>4. asked' = asked \/ \E r \in Requests : Arrive(r)
  BY Steps DEF Insert, Update, Delete, Upsert, Run, DeleteNothing, WriteFails, ListEnabled,
               ListEnabledFails, ReadSettings, ReadSettingsFails, Build, Restart, vars
<1>5. QED
  BY <1>2, <1>3, <1>4

\* Where there was a provider and is none, there will be none.
LEMMA StaysGone ==
  ASSUME TypeOK, TodoIsAsked, [Next]_vars, NEW p \in Providers, rows[p] = None, born[p] # 0
  PROVE  rows'[p] = None /\ born'[p] # 0
<1>a. /\ rows \in [Providers -> Rows \cup {None}]
      /\ born \in [Providers -> 0..Cardinality(Providers)]
  BY DEF TypeOK
<1>1. ASSUME NEW r \in Requests, Insert(r)
      PROVE  rows'[p] = None /\ born'[p] # 0
  BY <1>a, <1>1, Inserts
<1>2. ASSUME NEW r \in Requests, Update(r)
      PROVE  rows'[p] = None /\ born'[p] # 0
  BY <1>a, <1>2, Updates
<1>3. ASSUME NEW r \in Requests, Delete(r)
      PROVE  rows'[p] = None /\ born'[p] # 0
  BY <1>a, <1>3, Deletes
<1>4. QED
  BY <1>1, <1>2, <1>3, Upserts, TableSteps

\* A deletion gets on by these steps alone.
LEMMA GoneHistory ==
  ASSUME TypeOK, TodoIsAsked, [Next]_vars, NEW r \in Requests, NEW p \in Providers
  PROVE  /\ Gone(r, p, "rebuild")' =>
              Gone(r, p, "rebuild") \/ (Delete(r) /\ Head(todo[r]) = Deleting(p))
         /\ Gone(r, p, "building")' =>
              Gone(r, p, "building") \/ (Gone(r, p, "rebuild") /\ ListEnabled(r))
         /\ Gone(r, p, "done")' =>
              Gone(r, p, "done") \/ (Gone(r, p, "building") /\ (ReadSettingsFails \/ Build))
<1>1. CASE Arrived(r)
  BY <1>1 DEF Arrived, Fitting, Gone, Deleting
<1>2. CASE Wrote(r)
  <2>1. pc'[r] \in {"write", "rebuild"} /\ asked'[r] = asked[r] /\ pc[r] = "write"
    BY <1>2 DEF Wrote
  <2>2. ASSUME asked[r] = Deleting(p)
        PROVE  Delete(r) /\ Head(todo[r]) = Deleting(p)
    <3>1. Head(todo[r]) = todo[r][1] /\ 1 \in DOMAIN todo[r]
      BY <2>1, HeadOfTodo
    <3>2. Head(todo[r]) = Deleting(p) /\ Head(todo[r]).kind = "delete"
      BY <2>2, <3>1, DeletingIsStatement DEF TodoIsAsked
    <3>3. ~Insert(r) /\ ~Update(r) /\ ~Upsert(r)
      BY <3>2 DEF Insert, Update, Upsert, Run
    <3>4. QED
      BY <1>2, <3>2, <3>3 DEF Wrote
  <2>3. QED
    BY <2>1, <2>2 DEF Gone, Deleting
<1>3. CASE GaveUp(r)
  BY <1>3 DEF GaveUp, Gone
<1>4. CASE Rebuilds(r)
  BY <1>4 DEF Rebuilds, Gone, Deleting
<1>5. CASE Restarted(r)
  <2>1. pc'[r] \in {"idle", "done", "refused", "gone"} /\ (pc'[r] = "done" => pc[r] = "done")
        /\ asked'[r] = asked[r]
    BY <1>5 DEF Restarted
  <2>2. QED
    BY <2>1 DEF Gone, Deleting
<1>6. CASE Stays(r)
  BY <1>6 DEF Stays, Gone, Deleting
<1>7. QED
  BY <1>1, <1>2, <1>3, <1>4, <1>5, <1>6, RequestHistory

LEMMA DeletedRowStep ==
  ASSUME TypeOK, TodoIsAsked, RowsAreBorn, DeletedIsGone, [Next]_vars,
         NEW r \in Requests, NEW p \in Providers,
         Gone(r, p, "rebuild")' \/ Gone(r, p, "building")' \/ Gone(r, p, "done")'
  PROVE  rows'[p] = None /\ born'[p] # 0
<1>a. rows \in [Providers -> Rows \cup {None}]
  BY DEF TypeOK
<1>1. CASE Delete(r) /\ Head(todo[r]) = Deleting(p)
  <2>1. PICK q \in Providers :
          /\ Head(todo[r]) = Deleting(q) /\ rows[q] # None
          /\ rows' = [rows EXCEPT ![q] = None] /\ born' = born
    BY <1>1, Deletes
  <2>2. q = p
    BY <1>1, <2>1 DEF Deleting
  <2>3. QED
    BY <1>a, <2>1, <2>2 DEF RowsAreBorn
<1>2. CASE Gone(r, p, "rebuild") \/ Gone(r, p, "building") \/ Gone(r, p, "done")
  BY <1>2, StaysGone DEF DeletedIsGone
<1>3. QED
  BY <1>1, <1>2, GoneHistory

\* No rebuild behind that of a deletion lists the provider, ...
LEMMA DeletedQueueStep ==
  ASSUME TypeOK, TodoIsAsked, DeletedIsGone, [Next]_vars,
         NEW r \in Requests, NEW p \in Providers, Gone(r, p, "building")',
         NEW i \in DOMAIN queue', NEW j \in DOMAIN queue', queue'[i].by = r, i <= j
  PROVE  ~Lists(queue'[j].listing.deployments, p)
<1>a. /\ Len(queue) \in Nat /\ DOMAIN queue = 1..Len(queue)
      /\ \A k \in DOMAIN queue : pc[queue[k].by] = "building"
  BY Queued
<1>b. Gone(r, p, "building") \/ (Gone(r, p, "rebuild") /\ ListEnabled(r))
  BY GoneHistory
<1>1. rows[p] = None
  BY <1>b DEF DeletedIsGone
<1>2. ASSUME NEW k \in DOMAIN queue, NEW m \in DOMAIN queue, queue[k].by = r, k <= m
      PROVE  ~Lists(queue[m].listing.deployments, p)
  <2>1. Gone(r, p, "building")
    BY <1>a, <1>b, <1>2 DEF Gone
  <2>2. QED
    BY <1>2, <2>1 DEF DeletedIsGone
<1>3. ASSUME NEW q \in Requests, ListEnabled(q)
      PROVE  ~Lists(queue'[j].listing.deployments, p)
  <2>1. /\ DOMAIN queue' = 1..(Len(queue) + 1) /\ queue'[Len(queue) + 1].listing = Listing
        /\ \A k \in DOMAIN queue : queue'[k] = queue[k]
    BY <1>3, Begins
  <2>2. CASE j = Len(queue) + 1
    BY <1>1, <2>1, <2>2, OnlyPresentListed DEF Listing
  <2>3. CASE j # Len(queue) + 1
    <3>1. i \in DOMAIN queue /\ j \in DOMAIN queue
      BY <1>a, <2>1, <2>3
    <3>2. QED
      BY <1>2, <2>1, <3>1
  <2>4. QED
    BY <2>2, <2>3
<1>4. CASE ReadSettings
  <2>1. /\ DOMAIN queue' = DOMAIN queue
        /\ \A k \in DOMAIN queue : queue'[k].by = queue[k].by /\ queue'[k].listing = queue[k].listing
    BY <1>4, Reads
  <2>2. QED
    BY <1>2, <2>1
<1>5. CASE ReadSettingsFails \/ Build
  <2>1. PICK out \in DOMAIN queue : Without(queue', queue, out)
    BY <1>5, Ends
  <2>2. DOMAIN queue' \subseteq Int /\ out \in Int
    BY <1>5, Ends, <1>a
  <2>3. PICK k \in DOMAIN queue : queue'[i] = queue[k] /\ k = IF i < out THEN i ELSE i + 1
    BY <2>1 DEF Without
  <2>4. PICK m \in DOMAIN queue : queue'[j] = queue[m] /\ m = IF j < out THEN j ELSE j + 1
    BY <2>1 DEF Without
  <2>5. k <= m
    BY <2>2, <2>3, <2>4
  <2>6. QED
    BY <1>2, <2>3, <2>4, <2>5
<1>6. CASE Restart
  BY <1>6 DEF Restart
<1>7. QED
  BY <1>2, <1>3, <1>4, <1>5, <1>6, QueueSteps

\* ... and none at all, nor the router, once it is done.
LEMMA DeletedServedStep ==
  ASSUME TypeOK, TodoIsAsked, DeletedIsGone, [Next]_vars,
         NEW r \in Requests, NEW p \in Providers, Gone(r, p, "done")'
  PROVE  /\ ~Lists(router'.list, p)
         /\ \A j \in DOMAIN queue' : ~Lists(queue'[j].listing.deployments, p)
<1> DEFINE Goal == /\ ~Lists(router'.list, p)
                   /\ \A j \in DOMAIN queue' : ~Lists(queue'[j].listing.deployments, p)
<1>a. /\ Len(queue) \in Nat /\ DOMAIN queue = 1..Len(queue) /\ \A k \in DOMAIN queue : queue[k] \in Job
      /\ pc \in [Requests -> Stages]
  BY Queued DEF TypeOK
<1>b. Gone(r, p, "done") \/ (Gone(r, p, "building") /\ (ReadSettingsFails \/ Build))
  BY GoneHistory
<1>1. rows[p] = None
  BY <1>b DEF DeletedIsGone
<1>2. Gone(r, p, "done") =>
        ~Lists(router.list, p) /\ \A k \in DOMAIN queue : ~Lists(queue[k].listing.deployments, p)
  BY DEF DeletedIsGone
<1>3. CASE ReadSettingsFails \/ Build
  <2>1. PICK i \in DOMAIN queue, stage \in {"failed", "done", "raised"} :
          /\ queue' \in Seq(Job) /\ Without(queue', queue, i)
          /\ pc' = [pc EXCEPT ![queue[i].by] = stage]
          /\ stage = "failed" => router' = router
          /\ stage = "raised" => i = 1 /\ router' = router
          /\ stage = "done" =>
               i = 1 /\ router' = RouterOf(queue[1].listing.deployments, queue[1].conf)
    BY <1>3, Ends
  <2>2. Gone(r, p, "building") => stage = "done" /\ queue[i].by = r
    <3>1. Gone(r, p, "building") => pc[r] = "building" /\ pc'[r] = "done"
      BY DEF Gone
    <3>2. QED
      BY <1>a, <2>1, <3>1
  <2>3. \A k \in DOMAIN queue : ~Lists(queue[k].listing.deployments, p)
    <3>1. CASE Gone(r, p, "done")
      BY <1>2, <3>1
    <3>2. CASE Gone(r, p, "building")
      <4>1. 1 \in DOMAIN queue /\ queue[1].by = r
        BY <2>1, <2>2, <3>2
      <4>2. \A k \in DOMAIN queue : 1 <= k
        BY <1>a
      <4>3. QED
        BY <3>2, <4>1, <4>2 DEF DeletedIsGone
    <3>3. QED
      BY <1>b, <3>1, <3>2
  <2>4. \A j \in DOMAIN queue' : \E k \in DOMAIN queue : queue'[j] = queue[k]
    BY <2>1 DEF Without
  <2>5. ~Lists(router'.list, p)
    <3>1. CASE stage = "done"
      <4>1. PICK job \in Job : job = queue[1] /\ ~Lists(job.listing.deployments, p)
        BY <1>a, <2>1, <2>3, <3>1
      <4>2. RouterOf(job.listing.deployments, job.conf).list = job.listing.deployments
        BY DEF RouterOf
      <4>3. QED
        BY <2>1, <3>1, <4>1, <4>2
    <3>2. CASE stage # "done"
      BY <1>b, <1>2, <2>1, <2>2, <3>2
    <3>3. QED
      BY <3>1, <3>2
  <2>6. QED
    BY <2>3, <2>4, <2>5
<1>4. ASSUME Gone(r, p, "done"), NEW q \in Requests, ListEnabled(q)
      PROVE  Goal
  <2>1. /\ DOMAIN queue' = 1..(Len(queue) + 1) /\ queue'[Len(queue) + 1].listing = Listing
        /\ \A k \in DOMAIN queue : queue'[k] = queue[k]
        /\ router' = router
    BY <1>4, Begins
  <2>2. ~Lists(Listing.deployments, p)
    BY <1>1, OnlyPresentListed DEF Listing
  <2>3. \A k \in DOMAIN queue' : k \in DOMAIN queue \/ k = Len(queue) + 1
    BY <1>a, <2>1
  <2>4. QED
    BY <1>2, <1>4, <2>1, <2>2, <2>3
<1>5. CASE Gone(r, p, "done") /\ ReadSettings
  <2>1. /\ DOMAIN queue' = DOMAIN queue /\ router' = router
        /\ \A k \in DOMAIN queue : queue'[k].listing = queue[k].listing
    BY <1>5, Reads
  <2>2. QED
    BY <1>2, <1>5, <2>1
<1>6. CASE Restart
  <2>1. router'.list = Deployments \/ router'.list = {}
    BY <1>6 DEF Restart, RouterOf
  <2>2. ~Lists({}, p) /\ ~Lists(Deployments, p)
    BY <1>1, OnlyPresentListed DEF Lists
  <2>3. DOMAIN queue' = {}
    BY <1>6 DEF Restart
  <2>4. QED
    BY <2>1, <2>2, <2>3
<1>7. CASE Gone(r, p, "done") /\ UNCHANGED <<queue, router>>
  BY <1>2, <1>7
<1>8. QED
  BY <1>b, <1>3, <1>4, <1>5, <1>6, <1>7, QueueSteps

LEMMA DeletedStep ==
  ASSUME TypeOK, TodoIsAsked, RowsAreBorn, DeletedIsGone, [Next]_vars
  PROVE  DeletedIsGone'
<1> SUFFICES ASSUME NEW r \in Requests, NEW p \in Providers
             PROVE  /\ Gone(r, p, "rebuild")' \/ Gone(r, p, "building")' \/ Gone(r, p, "done")'
                         => rows'[p] = None /\ born'[p] # 0
                    /\ Gone(r, p, "building")' =>
                         \A i, j \in DOMAIN queue' : queue'[i].by = r /\ i <= j
                           => ~Lists(queue'[j].listing.deployments, p)
                    /\ Gone(r, p, "done")' =>
                         /\ ~Lists(router'.list, p)
                         /\ \A j \in DOMAIN queue' : ~Lists(queue'[j].listing.deployments, p)
  BY DEF DeletedIsGone, Lists, Gone
<1>1. Gone(r, p, "rebuild")' \/ Gone(r, p, "building")' \/ Gone(r, p, "done")'
        => rows'[p] = None /\ born'[p] # 0
  BY DeletedRowStep
<1>2. Gone(r, p, "building")' => \A i, j \in DOMAIN queue' : queue'[i].by = r /\ i <= j
                                   => ~Lists(queue'[j].listing.deployments, p)
  BY DeletedQueueStep
<1>3. QED
  BY <1>1, <1>2, DeletedServedStep

\* Who writes has not read what it wrote.
LEMMA WritesAreDirty ==
  ASSUME TypeOK, TodoIsAsked, NEW r \in Requests, Insert(r) \/ Update(r) \/ Delete(r) \/ Upsert(r)
  PROVE  Dirty(r)'
<1>a. pc \in [Requests -> Stages] /\ todo \in [Requests -> Seq(Statements)]
  BY DEF TypeOK
<1>1. PICK kind : Run(r, kind)
  BY DEF Insert, Update, Delete, Upsert
<1>2. /\ pc[r] = "write" /\ todo'[r] = Tail(todo[r])
      /\ pc'[r] = IF Len(todo[r]) = 1 THEN "rebuild" ELSE "write"
  BY <1>1, <1>a, Runs
<1>3. CASE Len(todo[r]) = 1
  BY <1>2, <1>3 DEF Dirty
<1>4. CASE Len(todo[r]) # 1
  <2>1. Tail(todo[r]) # <<>> /\ Tail(todo[r]) \in Seq(Statements)
        /\ \A i \in DOMAIN Tail(todo[r]) : i + 1 \in DOMAIN todo[r] /\ Tail(todo[r])[i] = todo[r][i + 1]
    BY <1>2, <1>4, HeadOfTodo
  <2>2. PICK rest \in Seq(Statements) : rest = Tail(todo[r])
    BY <2>1
  <2>3. Head(rest) = rest[1] /\ 1 \in DOMAIN rest
    BY <2>1, <2>2
  <2>4. 1 + 1 \in DOMAIN todo[r] /\ Head(rest) = todo[r][1 + 1]
    BY <2>1, <2>2, <2>3
  <2>5. Head(rest).kind # "delete"
    BY <1>4, <2>4 DEF TodoIsAsked
  <2>6. QED
    BY <1>2, <1>4, <2>2, <2>5 DEF Dirty
<1>5. QED
  BY <1>3, <1>4

\* Who has nothing unread after another step had nothing unread before it.
LEMMA WasClean ==
  ASSUME TypeOK, [Next]_vars, NEW r \in Requests, ~Dirty(r)', ~Restart, ~ListEnabled(r),
         ~(Insert(r) \/ Update(r) \/ Delete(r) \/ Upsert(r))
  PROVE  ~Dirty(r)
<1>a. pc'[r] \notin {"rebuild", "failed"} /\ (pc'[r] = "write" => Head(todo'[r]).kind = "delete")
  BY DEF Dirty
<1>1. CASE Arrived(r)
  BY <1>1 DEF Arrived, Dirty
<1>2. ~Wrote(r) /\ ~Restarted(r)
  BY DEF Wrote, Restarted
<1>3. CASE GaveUp(r)
  BY <1>a, <1>3 DEF GaveUp, Dirty
<1>4. CASE Rebuilds(r)
  BY <1>a, <1>4 DEF Rebuilds, Dirty
<1>5. CASE Stays(r)
  BY <1>a, <1>5 DEF Stays, Dirty
<1>6. QED
  BY <1>1, <1>2, <1>3, <1>4, <1>5, RequestHistory

\* What a rebuild reads is a matter of the tables alone.
LEMMA SameListing ==
  ASSUME UNCHANGED <<rows, born, config>>
  PROVE  /\ Deployments' = Deployments /\ ApiBaseMap' = ApiBaseMap /\ Listing' = Listing
         /\ RouterOf(Deployments, config)' = RouterOf(Deployments, config)
         /\ Raises(Deployments, config)' = Raises(Deployments, config)
<1>1. Enabled' = Enabled /\ \A p, q : Before(p, q)' = Before(p, q)
  BY DEF Enabled, Present, Before
<1>2. Deployments' = Deployments /\ ApiBaseMap' = ApiBaseMap
  BY <1>1 DEF Deployments, ApiBaseMap
<1>3. QED
  BY <1>2 DEF Listing, RouterOf, Raises

LEMMA CurrentStep ==
  ASSUME TypeOK, TodoIsAsked, LastIsCurrent, [Next]_vars
  PROVE  LastIsCurrent'
<1> SUFFICES ASSUME up', \A r \in Requests : ~Dirty(r)'
             PROVE  IF queue' = <<>>
                      THEN /\ tracked' = ApiBaseMap'
                           /\ \/ router' = RouterOf(Deployments, config)'
                              \/ Raises(Deployments, config)'
                      ELSE /\ queue'[Len(queue')].listing = Listing'
                           /\ queue'[Len(queue')].conf \in {None, config'}
  BY DEF LastIsCurrent, Dirty
<1>a. /\ Len(queue) \in Nat /\ DOMAIN queue = 1..Len(queue) /\ pc \in [Requests -> Stages]
      /\ \A i \in DOMAIN queue : queue[i] \in Job /\ queue[i].by \in Requests
      /\ queue \in Seq(Job)
  BY Queued DEF TypeOK
<1>b. \A r \in Requests : ~(Insert(r) \/ Update(r) \/ Delete(r) \/ Upsert(r))
  BY WritesAreDirty
<1>c. UNCHANGED <<rows, born, config>>
  BY <1>b, TableSteps
<1>d. /\ ApiBaseMap' = ApiBaseMap /\ Listing' = Listing /\ config' = config
      /\ RouterOf(Deployments, config)' = RouterOf(Deployments, config)
      /\ Raises(Deployments, config)' = Raises(Deployments, config)
  BY <1>c, SameListing
<1> DEFINE Goal == IF queue' = <<>>
                     THEN /\ tracked' = ApiBaseMap
                          /\ router' = RouterOf(Deployments, config) \/ Raises(Deployments, config)
                     ELSE /\ queue'[Len(queue')].listing = Listing
                          /\ queue'[Len(queue')].conf \in {None, config}
<1>1. CASE Restart
  <2>1. /\ queue' = <<>> /\ tracked' = (IF up' THEN ApiBaseMap ELSE {})
        /\ router' = IF up' THEN RouterOf(Deployments, config) ELSE RouterOf({}, config)
    BY <1>1 DEF Restart
  <2>2. Goal
    BY <2>1
  <2>3. QED
    BY <1>d, <2>2
<1>2. ASSUME NEW r \in Requests, ListEnabled(r)
      PROVE  Goal
  <2>1. /\ queue' \in Seq(Job) /\ Len(queue') = Len(queue) + 1
        /\ queue'[Len(queue) + 1].listing = Listing /\ queue'[Len(queue) + 1].conf = None
    BY <1>2, Begins
  <2>2. queue' # <<>>
    BY <1>a, <2>1
  <2>3. QED
    BY <2>1, <2>2
<1>3. ASSUME ~Restart, \A r \in Requests : ~ListEnabled(r)
      PROVE  Goal
  <2>1. up' = up
    <3>1. CASE ReadSettings
      BY <3>1, Reads
    <3>2. CASE ReadSettingsFails \/ Build
      BY <3>2, Ends
    <3>3. QED
      BY <1>3, <3>1, <3>2, QueueSteps
  <2>2. \A r \in Requests : ~Dirty(r)
    BY <1>3, <1>b, WasClean
  <2>3. IF queue = <<>>
          THEN /\ tracked = ApiBaseMap
               /\ router = RouterOf(Deployments, config) \/ Raises(Deployments, config)
          ELSE /\ queue[Len(queue)].listing = Listing
               /\ queue[Len(queue)].conf \in {None, config}
    BY <2>1, <2>2 DEF LastIsCurrent
  <2>4. CASE ReadSettings
    <3>1. PICK i \in DOMAIN queue :
            /\ queue' \in Seq(Job) /\ Len(queue') = Len(queue)
            /\ queue'[i].conf = config
            /\ \A j \in DOMAIN queue : /\ queue'[j].listing = queue[j].listing
                                       /\ j # i => queue'[j] = queue[j]
      BY <2>4, Reads
    <3>2. queue # <<>> /\ queue' # <<>> /\ Len(queue) \in DOMAIN queue
      BY <1>a, <3>1
    <3>3. QED
      BY <2>3, <3>1, <3>2
  <2>5. CASE ReadSettingsFails \/ Build
    <3>1. PICK i \in DOMAIN queue, stage \in {"failed", "done", "raised"} :
            /\ queue' \in Seq(Job) /\ Without(queue', queue, i)
            /\ pc' = [pc EXCEPT ![queue[i].by] = stage]
            /\ stage # "failed" =>
                 /\ i = 1 /\ queue[1].conf # None /\ tracked' = queue[1].listing.bases
                 /\ \/ Raises(queue[1].listing.deployments, queue[1].conf)
                    \/ router' = RouterOf(queue[1].listing.deployments, queue[1].conf)
      BY <2>5, Ends
    <3>2. stage # "failed"
      <4>1. pc'[queue[i].by] = stage /\ queue[i].by \in Requests
        BY <1>a, <3>1
      <4>2. pc'[queue[i].by] # "failed"
        BY <4>1 DEF Dirty
      <4>3. QED
        BY <4>1, <4>2
    <3>3. /\ i = 1 /\ Len(queue') = Len(queue) - 1
          /\ \A j \in 2..Len(queue) : queue'[j - 1] = queue[j]
      BY <3>1, <3>2 DEF Without
    <3>4. queue # <<>> /\ Len(queue) >= 1
      BY <1>a, <3>1
    <3>5. CASE Len(queue) = 1
      <4>1. queue' = <<>>
        BY <3>1, <3>3, <3>5
      <4>2. queue[1].listing = Listing /\ queue[1].conf = config
        BY <2>3, <3>1, <3>2, <3>4, <3>5
      <4>3. QED
        BY <3>1, <3>2, <4>1, <4>2 DEF Listing
    <3>6. CASE Len(queue) # 1
      <4>1. queue' # <<>> /\ Len(queue) \in 2..Len(queue) /\ Len(queue') = Len(queue) - 1
        BY <1>a, <3>1, <3>3, <3>4, <3>6
      <4>2. queue'[Len(queue')] = queue[Len(queue)]
        BY <3>3, <4>1
      <4>3. QED
        BY <2>3, <3>4, <4>1, <4>2
    <3>7. QED
      BY <3>5, <3>6
  <2>6. CASE UNCHANGED <<queue, up, router, tracked>>
    BY <2>3, <2>6
  <2>7. QED
    BY <1>3, <2>4, <2>5, <2>6, QueueSteps
<1>4. Goal
  BY <1>1, <1>2, <1>3, <1>d
<1>5. QED
  BY <1>4, <1>d

-----------------------------------------------------------------------------
(* Theorems                                                                 *)

LEMMA InitInv ==
  ASSUME Init
  PROVE  Inv
<1>a. /\ pc = [r \in Requests |-> "idle"] /\ asked = [r \in Requests |-> None]
      /\ todo = [r \in Requests |-> <<>>] /\ queue = <<>> /\ faults = 0 /\ up = TRUE
      /\ router = RouterOf(Deployments, config) /\ tracked = ApiBaseMap
      /\ config \in Configs
  BY DEF Init, Configs
<1>1. /\ Cardinality(Existing) \in Nat /\ Cardinality(Providers) \in Nat
      /\ Cardinality(Existing) <= Cardinality(Providers)
  BY SetsAssumption, FS_Subset, FS_CardinalityType
<1>2. /\ born \in [Providers -> 0..Cardinality(Providers)]
      /\ \A p \in Existing : born[p] # 0
  <2>1. /\ born \in [Providers -> 0..Cardinality(Existing)]
        /\ {p \in Providers : born[p] # 0} = Existing
    BY DEF Init
  <2>2. 0..Cardinality(Existing) \subseteq 0..Cardinality(Providers)
    BY <1>1
  <2>3. QED
    BY <2>1, <2>2
<1>3. /\ rows \in [Providers -> Rows \cup {None}]
      /\ \A p \in Providers : rows[p] # None => p \in Existing
  <2> DEFINE Small == [priority : 0..Cardinality(Existing), enabled : BOOLEAN, url : Urls]
  <2>1. /\ rows \in [Providers -> Small \cup {None}]
        /\ \A p \in Providers : rows[p] # None => p \in Existing
    BY DEF Init
  <2>2. Small \subseteq Rows
    BY <1>1 DEF Rows
  <2> HIDE DEF Small
  <2>3. QED
    BY <2>1, <2>2
<1>4. router \in [list : SUBSET Deployment, conf : Configs \cup {None}] /\ tracked \subseteq Urls \X Providers
  BY <1>a, <1>3, ListingType, RouterType
<1>5. TypeOK
  <2>1. queue \in Seq(Job) /\ DOMAIN queue = {} /\ <<>> \in Seq(Statements)
    BY <1>a
  <2>2. /\ todo \in [Requests -> Seq(Statements)]
        /\ \A r \in Requests : todo[r] # <<>> <=> pc[r] = "write"
        /\ pc \in [Requests -> Stages] /\ asked \in [Requests -> Asks \cup {None}]
    BY <1>a, <2>1 DEF Stages
  <2>3. {queue[i].by : i \in DOMAIN queue} = {r \in Requests : pc[r] = "building"}
    BY <1>a, <2>1
  <2>4. faults \in 0..MaxFaults
    BY <1>a, BoundsAssumption
  <2>5. QED
    BY <1>a, <1>2, <1>3, <1>4, <2>1, <2>2, <2>3, <2>4 DEF TypeOK
<1>6. RowsAreBorn
  BY <1>2, <1>3 DEF RowsAreBorn
<1>7. TodoIsAsked /\ QueuedOnce
  <2>1. DOMAIN queue = {} /\ \A r \in Requests : DOMAIN todo[r] = {}
    BY <1>a
  <2>2. QED
    BY <1>a, <2>1 DEF TodoIsAsked, QueuedOnce
<1>8. CreatedOnce /\ DeletedIsGone
  BY <1>a DEF CreatedOnce, DeletedIsGone, Gone
<1>9. LastIsCurrent
  BY <1>a DEF LastIsCurrent
<1>10. QED
  BY <1>5, <1>6, <1>7, <1>8, <1>9 DEF Inv

\* The invariant holds in every state the program reaches.
THEOREM InvHolds == Spec => []Inv
<1>1. Init => Inv
  BY InitInv
<1>2. Inv /\ [Next]_vars => Inv'
  <2> SUFFICES ASSUME Inv, [Next]_vars
               PROVE  Inv'
    OBVIOUS
  <2>1. TypeOK' /\ RowsAreBorn' /\ TodoIsAsked'
    BY TypeStep, BornStep, TodoStep DEF Inv
  <2>2. CreatedOnce' /\ QueuedOnce'
    BY CreatedStep, QueueTyped DEF Inv
  <2>3. DeletedIsGone' /\ LastIsCurrent'
    BY DeletedStep, CurrentStep DEF Inv
  <2>4. QED
    BY <2>1, <2>2, <2>3 DEF Inv
<1>3. QED
  BY <1>1, <1>2, PTL DEF Spec

\* Every variable keeps its type, a request has statements left exactly while it writes,
\* and it has a rebuild in the queue exactly while it builds.
THEOREM TypeCorrect == Spec => []TypeOK
<1>1. Inv => TypeOK
  BY DEF Inv
<1>2. QED
  BY <1>1, InvHolds, PTL

\* When all requests have ended and no statement has failed since the start, the tracker
\* and the Router are what the tables call for, in whatever order the handlers wrote and
\* rebuilt (router_manager.py:54-81).
THEOREM RouterIsCurrent == Spec => []RouterFollowsDatabase
<1>1. Inv => RouterFollowsDatabase
  <2> SUFFICES ASSUME Inv, up, \A r \in Requests : pc[r] \in {"idle", "done", "refused", "raised", "gone"}
               PROVE  /\ tracked = ApiBaseMap
                      /\ router = RouterOf(Deployments, config) \/ Raises(Deployments, config)
    BY DEF RouterFollowsDatabase
  <2>1. \A r \in Requests : ~Dirty(r) /\ pc[r] # "building"
    BY DEF Dirty
  <2>2. queue = <<>>
    <3>1. /\ \A i \in DOMAIN queue : queue[i].by \in Requests /\ pc[queue[i].by] = "building"
          /\ queue \in Seq(Job)
      BY Queued DEF Inv, TypeOK
    <3>2. DOMAIN queue = {}
      BY <2>1, <3>1
    <3>3. QED
      BY <3>1, <3>2
  <2>3. QED
    BY <2>1, <2>2 DEF Inv, LastIsCurrent
<1>2. QED
  BY <1>1, InvHolds, PTL

\* A provider whose DELETE was answered is in no Router from then on, whatever else is at
\* work, fails or restarts (admin_providers.py:115-122).
THEOREM DeletedStaysAway == Spec => []DeletedNeverServed
<1>1. Inv => DeletedNeverServed
  <2> SUFFICES ASSUME Inv, NEW r \in Requests, NEW d \in router.list, pc[r] = "done",
                      asked[r] = [kind |-> "delete", id |-> d.id]
               PROVE  FALSE
    BY DEF DeletedNeverServed
  <2>1. d.id \in Providers
    BY DEF Inv, TypeOK, Deployment
  <2>2. Gone(r, d.id, "done")
    BY DEF Gone, Deleting
  <2>3. QED
    BY <2>1, <2>2 DEF Inv, DeletedIsGone, Lists
<1>2. QED
  BY <1>1, InvHolds, PTL
=============================================================================
