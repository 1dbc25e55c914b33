-------------------------- MODULE AnswerMappingProof --------------------------
(***************************************************************************)
(* What AnswerMapping keeps for any questions, words and manners of        *)
(* writing: the key of a question does not depend on how its options come, *)
(* and what a row is mapped to is what its source meant.                   *)
(*                                                                         *)
(* Pieces, contents and letters are built with FlattenSeq.  What it returns *)
(* is shown by the least place where it would be wrong, since the library's *)
(* theorems on induction take operators.                                   *)
(***************************************************************************)
EXTENDS AnswerMapping, FiniteSetTheorems, FunctionTheorems, WellFoundedInduction, TLAPS

LEMMA LeastNumber ==
  ASSUME NEW T, T \subseteq Nat, T # {}
  PROVE  \E n \in T : \A m \in T : n <= m
<1>1. \E R : IsWellFoundedOn(R, Nat) /\ \A m, n \in Nat : m < n => <<m, n>> \in R
  <2>1. \A m, n \in Nat : m < n => <<m, n>> \in OpToRel(<, Nat)
    BY DEF OpToRel
  <2>2. QED
    BY <2>1, NatLessThanWellFounded
<1>2. PICK R : IsWellFoundedOn(R, Nat) /\ \A m, n \in Nat : m < n => <<m, n>> \in R
  BY <1>1
<1>3. IsWellFoundedOn(R, Nat)
  BY <1>2
<1>4. \E n \in T : \A m \in T : ~(<<m, n>> \in R)
  BY <1>3, WFMin, Zenon
<1>5. PICK n \in T : \A m \in T : ~(<<m, n>> \in R)
  BY <1>4
<1>6. \A m \in T : ~(m < n)
  BY <1>2, <1>5
<1>7. QED
  BY <1>6

\* What FlattenSeq builds, up to the m-th of its sequences.
Grow(seqs, f, m) == f = [i \in 1..m |-> IF i = 1 THEN seqs[i] ELSE f[i - 1] \o seqs[i]]

LEMMA GrowExists ==
  ASSUME NEW seqs, NEW m \in Nat
  PROVE  \E f : Grow(seqs, f, m)
<1> DEFINE T == {n \in Nat : ~ \E f : Grow(seqs, f, n)}
<1> SUFFICES ASSUME T # {}
             PROVE  FALSE
  OBVIOUS
<1>1. PICK n \in T : \A k \in T : n <= k
  <2>1. T \subseteq Nat
    OBVIOUS
  <2> HIDE DEF T
  <2>2. QED
    BY <2>1, LeastNumber
<1>2. n \in Nat /\ ~ \E f : Grow(seqs, f, n)
  OBVIOUS
<1>3. CASE n = 0
  <2> DEFINE f == [i \in 1..0 |-> seqs]
  <2>1. Grow(seqs, f, 0)
    BY DEF Grow
  <2>2. QED
    BY <1>2, <1>3, <2>1
<1>4. CASE n # 0
  <2>1. n - 1 \in Nat /\ ~(n <= n - 1)
    BY <1>2, <1>4
  <2>2. n - 1 \notin T
    BY <1>1, <2>1
  <2>3. PICK f : Grow(seqs, f, n - 1)
    BY <2>1, <2>2
  <2> DEFINE g == [i \in 1..n |-> IF i = n THEN IF n = 1 THEN seqs[1] ELSE f[n - 1] \o seqs[n]
                                  ELSE f[i]]
  <2>4. \A i \in 1..n : g[i] = IF i = 1 THEN seqs[i] ELSE g[i - 1] \o seqs[i]
    <3> SUFFICES ASSUME NEW i \in 1..n
                 PROVE  g[i] = IF i = 1 THEN seqs[i] ELSE g[i - 1] \o seqs[i]
      OBVIOUS
    <3>1. CASE i = n
      BY <1>2, <3>1
    <3>2. CASE i # n
      <4>1. i \in 1..(n - 1) /\ g[i] = f[i]
        BY <1>2, <3>2
      <4>2. f[i] = IF i = 1 THEN seqs[i] ELSE f[i - 1] \o seqs[i]
        BY <2>3, <4>1 DEF Grow
      <4>3. i # 1 => g[i - 1] = f[i - 1]
        BY <1>2, <4>1
      <4>4. QED
        BY <4>1, <4>2, <4>3
    <3>3. QED
      BY <3>1, <3>2
  <2>5. g = [i \in 1..n |-> g[i]]
    OBVIOUS
  <2> HIDE DEF g
  <2>6. Grow(seqs, g, n)
    BY <2>4, <2>5 DEF Grow
  <2>7. QED
    BY <1>2, <2>6
<1>5. QED
  BY <1>3, <1>4

LEMMA ConcatRange ==
  ASSUME NEW S, NEW a \in Seq(S), NEW b \in Seq(S)
  PROVE  a \o b \in Seq(S) /\ Range(a \o b) = Range(a) \cup Range(b)
<1>1. a \o b \in Seq(S)
  OBVIOUS
<1>2. Len(a) \in Nat /\ Len(b) \in Nat
      /\ DOMAIN a = 1..Len(a) /\ DOMAIN b = 1..Len(b) /\ DOMAIN (a \o b) = 1..(Len(a) + Len(b))
  OBVIOUS
<1>3. ASSUME NEW x \in Range(a)
      PROVE  x \in Range(a \o b)
  <2>1. PICK n \in 1..Len(a) : x = a[n]
    BY <1>2, <1>3 DEF Range
  <2>2. n \in 1..(Len(a) + Len(b)) /\ (a \o b)[n] = a[n]
    BY <1>2
  <2>3. QED
    BY <1>2, <2>1, <2>2 DEF Range
<1>4. ASSUME NEW x \in Range(b)
      PROVE  x \in Range(a \o b)
  <2>1. PICK n \in 1..Len(b) : x = b[n]
    BY <1>2, <1>4 DEF Range
  <2>2. Len(a) + n \in 1..(Len(a) + Len(b)) /\ (a \o b)[Len(a) + n] = b[n]
    BY <1>2
  <2>3. QED
    BY <1>2, <2>1, <2>2 DEF Range
<1>5. ASSUME NEW x \in Range(a \o b)
      PROVE  x \in Range(a) \cup Range(b)
  <2>1. PICK n \in 1..(Len(a) + Len(b)) : x = (a \o b)[n]
    BY <1>2, <1>5 DEF Range
  <2>2. CASE n \in 1..Len(a)
    BY <1>2, <2>1, <2>2 DEF Range
  <2>3. CASE n \notin 1..Len(a)
    <3>1. n - Len(a) \in 1..Len(b) /\ (a \o b)[n] = b[n - Len(a)]
      BY <1>2, <2>3
    <3>2. QED
      BY <1>2, <2>1, <3>1 DEF Range
  <2>4. QED
    BY <2>2, <2>3
<1>6. QED
  BY <1>1, <1>3, <1>4, <1>5

\* FlattenSeq gives a sequence of the elements of all sequences.
Gathers(S, seqs, f, m) == f[m] \in Seq(S) /\ Range(f[m]) = UNION {Range(seqs[k]) : k \in 1..m}

LEMMA FlattenRange ==
  ASSUME NEW S, NEW seqs \in Seq(Seq(S))
  PROVE  /\ FlattenSeq(seqs) \in Seq(S)
         /\ Range(FlattenSeq(seqs)) = UNION {Range(seqs[n]) : n \in DOMAIN seqs}
<1>1. CASE Len(seqs) = 0
  <2>1. seqs = <<>> /\ FlattenSeq(seqs) = seqs
    BY <1>1 DEF FlattenSeq
  <2>2. <<>> \in Seq(S) /\ DOMAIN seqs = {} /\ DOMAIN <<>> = {}
    BY <2>1
  <2>3. FlattenSeq(seqs) \in Seq(S)
    BY <2>1, <2>2
  <2>4. Range(FlattenSeq(seqs)) = {}
    BY <2>1, <2>2 DEF Range
  <2>5. QED
    BY <2>2, <2>3, <2>4
<1>2. CASE Len(seqs) # 0
  <2> DEFINE N == Len(seqs)
             f == CHOOSE f : Grow(seqs, f, N)
  <2>1. N \in Nat \ {0} /\ DOMAIN seqs = 1..N /\ \A n \in 1..N : seqs[n] \in Seq(S)
    BY <1>2
  <2>2. Grow(seqs, f, N)
    BY <2>1, GrowExists
  <2>3. FlattenSeq(seqs) = f[N]
    BY <1>2 DEF FlattenSeq, Grow
  <2> HIDE DEF f, N
  <2>4. \A n \in 1..N : f[n] = IF n = 1 THEN seqs[n] ELSE f[n - 1] \o seqs[n]
    BY <2>2 DEF Grow
  <2> DEFINE T == {n \in 1..N : ~Gathers(S, seqs, f, n)}
  <2>5. ASSUME T # {}
        PROVE  FALSE
    <3>1. PICK n \in T : \A k \in T : n <= k
      <4>1. T \subseteq Nat
        BY <2>1
      <4> HIDE DEF T
      <4>2. QED
        BY <2>5, <4>1, LeastNumber
    <3>2. n \in 1..N /\ ~Gathers(S, seqs, f, n) /\ n \in Nat
      BY <2>1
    <3>3. CASE n = 1
      <4>1. f[n] = seqs[n] /\ 1..n = {n}
        BY <2>4, <3>2, <3>3
      <4>2. QED
        BY <2>1, <3>2, <4>1 DEF Gathers
    <3>4. CASE n # 1
      <4>1. n - 1 \in 1..N /\ ~(n <= n - 1)
        BY <2>1, <3>2, <3>4
      <4>2. Gathers(S, seqs, f, n - 1)
        BY <3>1, <4>1
      <4>3. f[n] = f[n - 1] \o seqs[n] /\ f[n - 1] \in Seq(S) /\ seqs[n] \in Seq(S)
        BY <2>1, <2>4, <3>2, <3>4, <4>2 DEF Gathers
      <4>4. f[n] \in Seq(S) /\ Range(f[n]) = Range(f[n - 1]) \cup Range(seqs[n])
        BY <4>3, ConcatRange
      <4>5. 1..n = (1..(n - 1)) \cup {n}
        BY <3>2
      <4>6. QED
        BY <3>2, <4>2, <4>4, <4>5 DEF Gathers
    <3>5. QED
      BY <3>3, <3>4
  <2>6. Gathers(S, seqs, f, N)
    <3>1. N \in 1..N
      BY <2>1
    <3>2. QED
      BY <2>5, <3>1
  <2>7. QED
    BY <2>1, <2>3, <2>6 DEF Gathers
<1>3. QED
  BY <1>1, <1>2

\* An order of a finite set puts every element in one place.
LEMMA OrderIsOnto ==
  ASSUME NEW B, IsFiniteSet(B), NEW order \in SetToSeqs(B)
  PROVE  /\ order \in [1..Cardinality(B) -> B]
         /\ \A i, j \in 1..Cardinality(B) : order[i] = order[j] => i = j
         /\ \A b \in B : \E i \in 1..Cardinality(B) : order[i] = b
<1> DEFINE D == 1..Cardinality(B)
<1>1. order \in [D -> B] /\ \A i, j \in D : order[i] = order[j] => i = j
  BY DEF SetToSeqs
<1>2. Cardinality(B) \in Nat
  BY FS_CardinalityType
<1>3. IsFiniteSet(D) /\ Cardinality(D) = Cardinality(B)
  BY <1>2, FS_Interval
<1> HIDE DEF D
<1>4. order \in Injection(D, B)
  BY <1>1, Fun_IsInj
<1>5. order \in Surjection(D, B)
  BY <1>3, <1>4, FS_Injection
<1>6. \A b \in B : \E i \in D : order[i] = b
  BY <1>5, Fun_SurjectionProperties
<1>7. QED
  BY <1>1, <1>6 DEF D

LEMMA ArrangementShape ==
  ASSUME NEW q \in Quizzes, NEW options \in ArrangementsOf[q]
  PROVE  \/ options = <<>> /\ q.qtype \in NoOptionQtypes
         \/ \E order \in SetToSeqs(q.bodies), labelled \in BOOLEAN :
              options = Arranged(order, labelled)
BY DEF ArrangementsOf

\* What every arrangement of the options is cached under.
OnlyKey(q) ==
  IF q.qtype \in NoOptionQtypes THEN [k \in {} |-> 0]
  ELSE [k \in {Text(b, 0, FALSE) : b \in q.bodies} |-> 1]

LEMMA QuizParts ==
  ASSUME NEW q \in Quizzes
  PROVE  /\ q.qtype \in OptionQtypes \cup NoOptionQtypes
         /\ q.bodies \subseteq Bodies /\ IsFiniteSet(q.bodies)
BY SetsAssumption, FiniteAssumption

LEMMA TextOfBody ==
  ASSUME NEW b \in Bodies, NEW label, NEW bullet
  PROVE  /\ OptionKey(Text(b, label, FALSE)) = Text(b, 0, FALSE)
         /\ Body(Text(b, label, bullet)) = b
BY DEF OptionKey, Text, Body, Bodies

LEMMA OneKey ==
  ASSUME NEW q \in Quizzes, NEW options \in ArrangementsOf[q]
  PROVE  CacheKey(options, q.qtype) = OnlyKey(q)
<1>1. CASE q.qtype \in NoOptionQtypes
  <2>1. Range(<<>>) = {}
    BY DEF Range
  <2>2. QED
    BY <1>1, <2>1 DEF CacheKey, OnlyKey
<1>2. CASE q.qtype \notin NoOptionQtypes
  <2>1. PICK order \in SetToSeqs(q.bodies), labelled \in BOOLEAN : options = Arranged(order, labelled)
    BY <1>2, ArrangementShape
  <2> DEFINE D == 1..Cardinality(q.bodies)
             keys == [i \in DOMAIN options |-> OptionKey(options[i])]
             places(k) == {i \in DOMAIN keys : keys[i] = k}
  <2>b. \A b \in q.bodies : \A label : /\ OptionKey(Text(b, label, FALSE)) = Text(b, 0, FALSE)
                                         /\ Body(Text(b, label, FALSE)) = b
    BY QuizParts, TextOfBody
  <2>2. /\ order \in [D -> q.bodies] /\ \A i, j \in D : order[i] = order[j] => i = j
        /\ \A b \in q.bodies : \E i \in D : order[i] = b
    BY QuizParts, OrderIsOnto
  <2>3. DOMAIN options = D /\ \A i \in D : options[i] = Text(order[i], IF labelled THEN i ELSE 0, FALSE)
    BY <2>1, <2>2 DEF Arranged
  <2>4. DOMAIN keys = D /\ \A i \in D : keys[i] = Text(order[i], 0, FALSE)
    <3>1. DOMAIN keys = D /\ \A i \in D : keys[i] = OptionKey(options[i])
      BY <2>3
    <3>2. \A i \in D : \E label : options[i] = Text(order[i], label, FALSE)
      BY <2>3
    <3> HIDE DEF D, keys
    <3>3. ASSUME NEW i \in D
          PROVE  keys[i] = Text(order[i], 0, FALSE)
      <4>1. PICK label : options[i] = Text(order[i], label, FALSE)
        BY <3>2
      <4>2. order[i] \in q.bodies
        BY <2>2
      <4>3. OptionKey(Text(order[i], label, FALSE)) = Text(order[i], 0, FALSE)
        BY <2>b, <4>2
      <4>4. QED
        BY <3>1, <4>1, <4>3
    <3>4. QED
      BY <3>1, <3>3
  <2>5. \A b, c \in q.bodies : Text(b, 0, FALSE) = Text(c, 0, FALSE) => b = c
    <3> SUFFICES ASSUME NEW b \in q.bodies, NEW c \in q.bodies, Text(b, 0, FALSE) = Text(c, 0, FALSE)
                 PROVE  b = c
      OBVIOUS
    <3>1. Body(Text(b, 0, FALSE)) = b /\ Body(Text(c, 0, FALSE)) = c
      BY <2>b
    <3>2. QED
      BY <3>1
  <2>6. CacheKey(options, q.qtype) = [k \in Range(keys) |-> Cardinality(places(k))]
    BY <1>2 DEF CacheKey
  <2> HIDE DEF D, keys
  <2>7. Range(keys) = {Text(b, 0, FALSE) : b \in q.bodies}
    <3>1. Range(keys) = {keys[i] : i \in D}
      BY <2>4 DEF Range
    <3>2. \A i \in D : keys[i] = Text(order[i], 0, FALSE) /\ order[i] \in q.bodies
      BY <2>2, <2>4
    <3>3. ASSUME NEW b \in q.bodies
          PROVE  \E i \in D : Text(b, 0, FALSE) = keys[i]
      <4>1. PICK i \in D : order[i] = b
        BY <2>2
      <4>2. QED
        BY <2>4, <4>1
    <3>4. QED
      BY <3>1, <3>2, <3>3
  <2>8. ASSUME NEW k \in Range(keys)
        PROVE  Cardinality(places(k)) = 1
    <3>1. PICK i \in D : k = keys[i]
      BY <2>4 DEF Range
    <3>2. \A j \in D : keys[j] = k => j = i
      <4> SUFFICES ASSUME NEW j \in D, keys[j] = k
                   PROVE  j = i
        OBVIOUS
      <4>1. order[i] \in q.bodies /\ order[j] \in q.bodies
        BY <2>2
      <4>2. Text(order[j], 0, FALSE) = Text(order[i], 0, FALSE)
        BY <2>4, <3>1
      <4>3. order[j] = order[i]
        BY <2>5, <4>1, <4>2
      <4>4. QED
        BY <2>2, <4>3
    <3>3. places(k) = {i}
      BY <2>4, <3>1, <3>2
    <3>4. QED
      BY <3>3, FS_Singleton
  <2> HIDE DEF places
  <2>9. QED
    BY <1>2, <2>6, <2>7, <2>8 DEF OnlyKey
<1>3. QED
  BY <1>1, <1>2

\* A row or a reply says what it meant in terms of the options of the question.
LEMMA MeantOfAnswers ==
  ASSUME NEW q \in Quizzes, NEW options \in ArrangementsOf[q], NEW styles,
         NEW answer \in Answers(q, styles, options)
  PROVE  answer.meant \subseteq q.bodies
<1>1. CASE q.qtype \in NoOptionQtypes
  <2> DEFINE texts(b, w, label, style) ==
               <<Text([sign |-> b.sign, word |-> w], label, style = "bulleted")>>
             said(b, style) ==
               {[texts |-> texts(b, w, label, style), meant |-> {b}] :
                  w \in Sayings(q, b), label \in IF style = "listed" THEN {0, 1} ELSE {0}}
  <2>1. Answers(q, styles, options) =
          UNION {said(b, style) : b \in q.bodies, style \in styles \cap {"plain", "listed", "bulleted"}}
    BY <1>1 DEF Answers
  <2>2. ASSUME NEW b, NEW style, NEW a \in said(b, style)
        PROVE  a.meant = {b}
    <3> HIDE DEF texts
    <3>1. \E w, label : a = [texts |-> texts(b, w, label, style), meant |-> {b}]
      OBVIOUS
    <3>2. QED
      BY <3>1
  <2> HIDE DEF said
  <2>3. QED
    BY <2>1, <2>2
<1>2. CASE q.qtype \notin NoOptionQtypes
  <2>1. PICK positions \in Selections(q, options) : answer.meant = {Body(options[i]) : i \in positions}
    BY <1>2 DEF Answers
  <2>2. positions \subseteq DOMAIN options
    BY <2>1 DEF Selections
  <2>3. PICK order \in SetToSeqs(q.bodies), labelled \in BOOLEAN : options = Arranged(order, labelled)
    BY <1>2, ArrangementShape
  <2>4. order \in [1..Cardinality(q.bodies) -> q.bodies]
    BY QuizParts, OrderIsOnto
  <2>5. \A i \in DOMAIN options : Body(options[i]) \in q.bodies
    <3> SUFFICES ASSUME NEW i \in DOMAIN options
                 PROVE  Body(options[i]) \in q.bodies
      OBVIOUS
    <3>1. i \in DOMAIN order /\ \E label : options[i] = Text(order[i], label, FALSE)
      BY <2>3 DEF Arranged
    <3>2. PICK label : options[i] = Text(order[i], label, FALSE)
      BY <3>1
    <3>3. order[i] \in q.bodies /\ order[i] \in Bodies
      BY <2>4, <3>1, QuizParts
    <3>4. Body(Text(order[i], label, FALSE)) = order[i]
      BY <3>3, TextOfBody
    <3>5. QED
      BY <3>2, <3>3, <3>4
  <2>6. QED
    BY <2>1, <2>2, <2>5
<1>3. QED
  BY <1>1, <1>2

\* A reply is an answer out of its wrappers, and cut if the fences in it made a difference.
LEMMA ReplyParts ==
  ASSUME NEW q, NEW options, NEW reply \in Replies(q, options)
  PROVE  \E answer \in Answers(q, Styles, options), wrapping \in Wrappings :
           \E bite \in Bites(answer.texts[1]) :
             /\ reply.texts = Unwrap(answer.texts, wrapping, bite) /\ reply.meant = answer.meant
             /\ reply.cut <=> reply.texts # Unwrap(answer.texts, InLines(wrapping), bite)
<1> DEFINE texts(answer, wrapping, bite) == Unwrap(answer.texts, wrapping, bite)
           of(answer, wrapping, bite) ==
             [texts |-> texts(answer, wrapping, bite), meant |-> answer.meant,
              cut |-> texts(answer, wrapping, bite) # texts(answer, InLines(wrapping), bite)]
<1>1. PICK answer \in Answers(q, Styles, options) :
        reply \in {of(answer, wrapping, bite) : wrapping \in Wrappings, bite \in Bites(answer.texts[1])}
  BY DEF Replies
<1>2. PICK wrapping \in Wrappings :
        \E bite \in Bites(answer.texts[1]) : reply = of(answer, wrapping, bite)
  <2> HIDE DEF of
  <2>1. QED
    BY <1>1
<1>3. PICK bite \in Bites(answer.texts[1]) : reply = of(answer, wrapping, bite)
  BY <1>2
<1> HIDE DEF texts
<1>4. /\ reply.texts = texts(answer, wrapping, bite) /\ reply.meant = answer.meant
      /\ reply.cut <=> texts(answer, wrapping, bite) # texts(answer, InLines(wrapping), bite)
  BY <1>3
<1>5. QED
  BY <1>4 DEF texts

LEMMA MeantOfRows ==
  ASSUME NEW q \in Quizzes, NEW options \in ArrangementsOf[q],
         NEW row \in LearntOf[q][options] \cup ImportedOf[q][options]
  PROVE  row.meant \subseteq q.bodies
<1>1. CASE row \in LearntOf[q][options]
  <2>1. PICK reply \in Replies(q, options) : row.meant = reply.meant
    BY <1>1 DEF LearntOf
  <2>2. PICK answer \in Answers(q, Styles, options) : reply.meant = answer.meant
    BY ReplyParts
  <2>3. QED
    BY <2>1, <2>2, MeantOfAnswers
<1>2. CASE row \in ImportedOf[q][options]
  <2>1. PICK answer \in Answers(q, ImportStyles, options) : row.meant = answer.meant
    BY <1>2 DEF ImportedOf
  <2>2. QED
    BY <2>1, MeantOfAnswers
<1>3. QED
  BY <1>1, <1>2

-----------------------------------------------------------------------------
(* Texts, options and pieces                                                *)

Texts == [wrapped : BOOLEAN, bullet : BOOLEAN, label : Nat, sign : Signs, word : Words]

LEMMA TextParts ==
  ASSUME NEW b \in Bodies, NEW label \in Nat, NEW bullet \in BOOLEAN
  PROVE  /\ Text(b, label, bullet) \in Texts
         /\ Text(b, label, bullet).wrapped = FALSE /\ Text(b, label, bullet).bullet = bullet
         /\ Text(b, label, bullet).label = label
         /\ Text(b, label, bullet).sign = b.sign /\ Text(b, label, bullet).word = b.word
BY DEF Text, Texts, Bodies

LEMMA AsIsParts ==
  ASSUME NEW w \in Words
  PROVE  /\ AsIs(w) \in Texts /\ AsIs(w).wrapped = FALSE /\ AsIs(w).bullet = FALSE
         /\ AsIs(w).label = 0 /\ AsIs(w).sign = "none" /\ AsIs(w).word = w
BY DEF AsIs, Text, Texts, Signs

LEMMA KeyParts ==
  ASSUME NEW t \in Texts
  PROVE  LET target == OptionKey(StripNoise(t)) IN
         /\ target \in Texts /\ target.word = t.word /\ target.wrapped = t.wrapped
         /\ target.bullet = FALSE /\ target.label = 0
         /\ target.sign = IF t.sign = "item" /\ t.label = 0 THEN "none" ELSE t.sign
BY DEF OptionKey, StripNoise, Texts, Signs

LEMMA PartsParts ==
  ASSUME NEW w \in Words
  PROVE  /\ Parts[w] \in Seq(Words) /\ Parts[w] # <<>> /\ Spelling[w] \in Seq(Nat \ {0})
         /\ 1 \in DOMAIN Parts[w]
<1>1. Parts[w] \in Seq(Words) \ {<<>>} /\ Spelling[w] \in Seq(Nat \ {0})
  BY SetsAssumption
<1>2. QED
  BY <1>1

\* What may come of a word are words, and their parts come of it too.
LEMMA WordsParts ==
  ASSUME NEW w \in Words
  PROVE  /\ Remains(w) \subseteq Words /\ w \in Remains(w)
         /\ Remains(w) \subseteq WordsOf(w) /\ WordsOf(w) \subseteq Words
         /\ \A v \in WordsOf(w) : Range(Parts[v]) \subseteq WordsOf(w)
<1>1. Remains(w) \subseteq Words /\ w \in Remains(w)
  BY BittenAssumption DEF Remains
<1>2. ASSUME NEW v \in Words
      PROVE  Range(Parts[v]) \subseteq Words
  <2>1. Parts[v] \in Seq(Words)
    BY PartsParts
  <2>2. QED
    BY <2>1 DEF Range
<1>3. ASSUME NEW v \in Remains(w)
      PROVE  Range(Parts[v]) \subseteq WordsOf(w) /\ Range(Parts[v]) \subseteq Words
  BY <1>1, <1>2 DEF WordsOf
<1>4. ASSUME NEW v \in Remains(w), NEW p \in Range(Parts[v])
      PROVE  Range(Parts[p]) \subseteq WordsOf(w)
  <2>1. Parts[p] = <<p>>
    BY <1>1, PartsAssumption
  <2>2. DOMAIN <<p>> = {1} /\ <<p>>[1] = p
    OBVIOUS
  <2>3. Range(Parts[p]) = {p}
    BY <2>1, <2>2 DEF Range
  <2>4. QED
    BY <1>3, <2>3
<1>5. Remains(w) \subseteq WordsOf(w) /\ WordsOf(w) \subseteq Words
  BY <1>1, <1>3 DEF WordsOf
<1>6. ASSUME NEW v \in WordsOf(w)
      PROVE  Range(Parts[v]) \subseteq WordsOf(w)
  <2>1. v \in Remains(w) \/ \E u \in Remains(w) : v \in Range(Parts[u])
    BY DEF WordsOf
  <2>2. QED
    BY <1>3, <1>4, <2>1
<1>7. QED
  BY <1>1, <1>5, <1>6

LEMMA SplitParts ==
  ASSUME NEW t \in Texts
  PROVE  /\ Split(t) \in Seq(Texts)
         /\ \A p \in Range(Split(t)) : p.word \in Range(Parts[t.word])
         /\ Parts[t.word] = <<t.word>> => Range(Split(t)) = {t}
<1> DEFINE w == t.word
<1>1. w \in Words
  BY DEF Texts
<1>2. /\ Parts[w] \in Seq(Words) /\ DOMAIN Parts[w] = 1..Len(Parts[w]) /\ Len(Parts[w]) \in Nat
      /\ \A i \in DOMAIN Parts[w] : Parts[w][i] \in Words
  BY <1>1, PartsParts
<1>3. DOMAIN Split(t) = DOMAIN Parts[w]
  BY DEF Split
<1>4. ASSUME NEW i \in DOMAIN Parts[w]
      PROVE  Split(t)[i] \in Texts /\ Split(t)[i].word = Parts[w][i]
  <2>1. CASE i = 1
    <3>1. Split(t)[i] = [t EXCEPT !.word = Parts[w][1]]
      BY <2>1, <1>4 DEF Split
    <3>2. QED
      BY <1>2, <1>4, <2>1, <3>1 DEF Texts
  <2>2. CASE i # 1
    <3>1. Split(t)[i] = AsIs(Parts[w][i])
      BY <2>2, <1>4 DEF Split
    <3>2. QED
      BY <1>2, <1>4, <3>1, AsIsParts
  <2>3. QED
    BY <2>1, <2>2
<1>5. Split(t) \in Seq(Texts)
  <2>1. Split(t) \in [1..Len(Parts[w]) -> Texts]
    BY <1>2, <1>3, <1>4 DEF Split
  <2>2. QED
    BY <1>2, <2>1
<1>6. \A p \in Range(Split(t)) : p.word \in Range(Parts[w])
  BY <1>3, <1>4 DEF Range
<1>7. ASSUME Parts[w] = <<w>>
      PROVE  Range(Split(t)) = {t}
  <2>1. DOMAIN Parts[w] = {1} /\ Parts[w][1] = w
    BY <1>7
  <2>2. Split(t)[1] = [t EXCEPT !.word = w]
    BY <2>1 DEF Split
  <2>3. [t EXCEPT !.word = w] = t
    BY DEF Texts
  <2>4. QED
    BY <1>3, <2>1, <2>2, <2>3 DEF Range
<1>8. QED
  BY <1>5, <1>6, <1>7

LEMMA PiecesParts ==
  ASSUME NEW texts \in Seq(Texts), NEW qtype
  PROVE  /\ Pieces(texts, qtype) \in Seq(Texts)
         /\ qtype = "multiple" => Range(Pieces(texts, qtype)) = UNION {Range(Split(t)) : t \in Range(texts)}
         /\ qtype # "multiple" => Pieces(texts, qtype) = texts
<1> DEFINE splits == [i \in DOMAIN texts |-> Split(texts[i])]
<1>1. DOMAIN texts = 1..Len(texts) /\ Len(texts) \in Nat /\ \A i \in DOMAIN texts : texts[i] \in Texts
  OBVIOUS
<1>2. splits \in [1..Len(texts) -> Seq(Texts)]
  BY <1>1, SplitParts
<1>3. splits \in Seq(Seq(Texts))
  BY <1>1, <1>2
<1>4. \A i \in DOMAIN texts : splits[i] = Split(texts[i])
  OBVIOUS
<1>5. DOMAIN splits = DOMAIN texts
  OBVIOUS
<1>6. Pieces(texts, qtype) = IF qtype = "multiple" THEN FlattenSeq(splits) ELSE texts
  BY DEF Pieces
<1> HIDE DEF splits
<1>7. FlattenSeq(splits) \in Seq(Texts)
      /\ Range(FlattenSeq(splits)) = UNION {Range(splits[n]) : n \in DOMAIN splits}
  BY <1>3, FlattenRange
<1>8. UNION {Range(splits[n]) : n \in DOMAIN splits} = UNION {Range(Split(t)) : t \in Range(texts)}
  <2>1. {Range(splits[n]) : n \in DOMAIN splits} = {Range(Split(t)) : t \in Range(texts)}
    BY <1>4, <1>5 DEF Range
  <2>2. QED
    BY <2>1
<1>9. QED
  BY <1>6, <1>7, <1>8

LEMMA InOrderRange ==
  ASSUME NEW S, NEW seq \in Seq(S), NEW positions
  PROVE  /\ InOrder(positions, seq) \in Seq(S)
         /\ Range(InOrder(positions, seq)) = {seq[i] : i \in positions \cap DOMAIN seq}
<1> DEFINE picks == [i \in DOMAIN seq |-> IF i \in positions THEN <<seq[i]>> ELSE <<>>]
<1>1. DOMAIN seq = 1..Len(seq) /\ Len(seq) \in Nat /\ \A i \in DOMAIN seq : seq[i] \in S
  OBVIOUS
<1>2. picks \in [1..Len(seq) -> Seq(S)]
  BY <1>1
<1>3. picks \in Seq(Seq(S))
  BY <1>1, <1>2
<1>4. \A i \in DOMAIN seq : picks[i] = IF i \in positions THEN <<seq[i]>> ELSE <<>>
  OBVIOUS
<1>5. DOMAIN picks = DOMAIN seq /\ InOrder(positions, seq) = FlattenSeq(picks)
  BY DEF InOrder
<1> HIDE DEF picks
<1>6. FlattenSeq(picks) \in Seq(S) /\ Range(FlattenSeq(picks)) = UNION {Range(picks[n]) : n \in DOMAIN picks}
  BY <1>3, FlattenRange
<1>7. \A i \in DOMAIN seq : Range(picks[i]) = IF i \in positions THEN {seq[i]} ELSE {}
  <2> SUFFICES ASSUME NEW i \in DOMAIN seq
               PROVE  Range(picks[i]) = IF i \in positions THEN {seq[i]} ELSE {}
    OBVIOUS
  <2>1. CASE i \in positions
    <3>1. picks[i] = <<seq[i]>>
      BY <1>4, <2>1
    <3>2. DOMAIN <<seq[i]>> = {1} /\ <<seq[i]>>[1] = seq[i]
      OBVIOUS
    <3>3. QED
      BY <2>1, <3>1, <3>2 DEF Range
  <2>2. CASE i \notin positions
    <3>1. picks[i] = <<>>
      BY <1>4, <2>2
    <3>2. QED
      BY <2>2, <3>1 DEF Range
  <2>3. QED
    BY <2>1, <2>2
<1>8. UNION {Range(picks[n]) : n \in DOMAIN picks} = {seq[i] : i \in positions \cap DOMAIN seq}
  BY <1>5, <1>7
<1>9. QED
  BY <1>5, <1>6, <1>8

\* Where FlattenSeq gets only one sequence that is not empty, that is all it returns.
LEMMA FlattenOne ==
  ASSUME NEW S, NEW seqs \in Seq(Seq(S)), NEW k \in DOMAIN seqs,
         \A n \in DOMAIN seqs \ {k} : seqs[n] = <<>>
  PROVE  FlattenSeq(seqs) = seqs[k]
<1> DEFINE N == Len(seqs)
           f == CHOOSE f : Grow(seqs, f, N)
<1>1. N \in Nat \ {0} /\ DOMAIN seqs = 1..N /\ \A n \in 1..N : seqs[n] \in Seq(S)
  OBVIOUS
<1>2. Grow(seqs, f, N)
  BY <1>1, GrowExists
<1>3. FlattenSeq(seqs) = f[N]
  BY <1>1 DEF FlattenSeq, Grow
<1> HIDE DEF f, N
<1>4. \A n \in 1..N : f[n] = IF n = 1 THEN seqs[n] ELSE f[n - 1] \o seqs[n]
  BY <1>2 DEF Grow
<1> DEFINE Right(n) == f[n] = IF n < k THEN <<>> ELSE seqs[k]
           T == {n \in 1..N : ~Right(n)}
<1>5. ASSUME T # {}
      PROVE  FALSE
  <2>1. PICK n \in T : \A m \in T : n <= m
    <3>1. T \subseteq Nat
      BY <1>1
    <3> HIDE DEF T
    <3>2. QED
      BY <1>5, <3>1, LeastNumber
  <2>2. n \in 1..N /\ ~Right(n) /\ n \in Nat /\ k \in 1..N
    BY <1>1
  <2>3. \A s \in Seq(S) : s \o <<>> = s /\ <<>> \o s = s
    OBVIOUS
  <2>4. CASE n = 1
    <3>1. f[n] = seqs[n]
      BY <1>4, <2>2, <2>4
    <3>2. QED
      BY <1>1, <2>2, <2>4, <3>1
  <2>5. CASE n # 1
    <3>1. n - 1 \in 1..N /\ ~(n <= n - 1)
      BY <1>1, <2>2, <2>5
    <3>2. Right(n - 1)
      BY <2>1, <3>1
    <3>3. f[n] = f[n - 1] \o seqs[n]
      BY <1>4, <2>2, <2>5
    <3>4. CASE n < k
      <4>0. n - 1 < k /\ n \in DOMAIN seqs \ {k}
        BY <1>1, <2>2, <3>4
      <4>1. f[n - 1] = <<>> /\ seqs[n] = <<>>
        BY <3>2, <4>0
      <4>2. QED
        BY <2>2, <3>3, <3>4, <4>1
    <3>5. CASE n = k
      <4>0. n - 1 < k
        BY <1>1, <2>2, <3>5
      <4>1. f[n - 1] = <<>> /\ seqs[n] = seqs[k] /\ seqs[k] \in Seq(S)
        BY <1>1, <2>2, <3>2, <3>5, <4>0
      <4>2. f[n] = seqs[k]
        BY <2>3, <3>3, <4>1
      <4>3. QED
        BY <2>2, <3>5, <4>2
    <3>6. CASE n > k
      <4>0. ~(n - 1 < k) /\ n \in DOMAIN seqs \ {k}
        BY <1>1, <2>2, <3>6
      <4>1. f[n - 1] = seqs[k] /\ seqs[n] = <<>> /\ seqs[k] \in Seq(S)
        BY <1>1, <2>2, <3>2, <4>0
      <4>2. f[n] = seqs[k]
        BY <2>3, <3>3, <4>1
      <4>3. QED
        BY <2>2, <3>6, <4>2
    <3>7. QED
      BY <1>1, <2>2, <3>4, <3>5, <3>6
  <2>6. QED
    BY <2>4, <2>5
<1>6. Right(N)
  <2>1. N \in 1..N
    BY <1>1
  <2>2. QED
    BY <1>5, <2>1
<1>7. QED
  BY <1>1, <1>3, <1>6

LEMMA InOrderOne ==
  ASSUME NEW S, NEW seq \in Seq(S), NEW i \in DOMAIN seq
  PROVE  InOrder({i}, seq) = <<seq[i]>>
<1> DEFINE picks == [n \in DOMAIN seq |-> IF n \in {i} THEN <<seq[n]>> ELSE <<>>]
<1>1. DOMAIN seq = 1..Len(seq) /\ Len(seq) \in Nat /\ \A n \in DOMAIN seq : seq[n] \in S
  OBVIOUS
<1>2. picks \in [1..Len(seq) -> Seq(S)]
  BY <1>1
<1>3. picks \in Seq(Seq(S))
  BY <1>1, <1>2
<1>4. picks[i] = <<seq[i]>> /\ \A n \in DOMAIN picks \ {i} : picks[n] = <<>>
  OBVIOUS
<1>5. i \in DOMAIN picks /\ InOrder({i}, seq) = FlattenSeq(picks)
  BY DEF InOrder
<1> HIDE DEF picks
<1>6. QED
  BY <1>3, <1>4, <1>5, FlattenOne

LEMMA NothingInOrder ==
  ASSUME NEW S, NEW seq \in Seq(S)
  PROVE  InOrder({}, seq) = <<>>
<1>1. InOrder({}, seq) \in Seq(S) /\ Range(InOrder({}, seq)) = {}
  BY InOrderRange
<1>2. InOrder({}, seq) # <<>> => InOrder({}, seq)[1] \in Range(InOrder({}, seq))
  BY <1>1 DEF Range
<1>3. QED
  BY <1>1, <1>2

-----------------------------------------------------------------------------
(* What a piece stands for                                                  *)

\* The positions of b among the options.
Places(b, options) == {i \in DOMAIN options : Body(options[i]) = b}

LEMMA OptionTexts ==
  ASSUME NEW q \in Quizzes, q.qtype \notin NoOptionQtypes, NEW options \in ArrangementsOf[q]
  PROVE  /\ options \in Seq(Texts) /\ DOMAIN options = 1..Cardinality(q.bodies)
         /\ \A i \in DOMAIN options :
              /\ i \in Nat /\ Body(options[i]) \in q.bodies /\ Body(options[i]) \in Bodies
              /\ OptionKey(options[i]) = Text(Body(options[i]), 0, FALSE)
              /\ options[i] \in Texts /\ options[i].word = Body(options[i]).word
              /\ options[i].sign = Body(options[i]).sign
              /\ ~options[i].wrapped /\ ~options[i].bullet
         /\ \A b \in q.bodies : \E i \in DOMAIN options : Places(b, options) = {i}
<1>1. PICK order \in SetToSeqs(q.bodies), labelled \in BOOLEAN : options = Arranged(order, labelled)
  BY ArrangementShape
<1> DEFINE N == Cardinality(q.bodies)
           label(i) == IF labelled THEN i ELSE 0
<1>2. /\ order \in [1..N -> q.bodies] /\ \A i, j \in 1..N : order[i] = order[j] => i = j
      /\ \A b \in q.bodies : \E i \in 1..N : order[i] = b
  BY QuizParts, OrderIsOnto
<1>3. N \in Nat
  BY QuizParts, FS_CardinalityType
<1>4. DOMAIN options = 1..N /\ \A i \in 1..N : options[i] = Text(order[i], label(i), FALSE)
  BY <1>1, <1>2 DEF Arranged
<1>5. options = [i \in 1..N |-> options[i]]
  BY <1>1, <1>2 DEF Arranged
<1> HIDE DEF N
<1>6. ASSUME NEW i \in 1..N
      PROVE  /\ options[i] \in Texts /\ Body(options[i]) = order[i]
             /\ i \in Nat /\ Body(options[i]) \in q.bodies /\ Body(options[i]) \in Bodies
             /\ OptionKey(options[i]) = Text(Body(options[i]), 0, FALSE)
             /\ options[i].word = Body(options[i]).word
             /\ options[i].sign = Body(options[i]).sign
             /\ ~options[i].wrapped /\ ~options[i].bullet
  <2>1. i \in Nat /\ label(i) \in Nat /\ order[i] \in q.bodies /\ order[i] \in Bodies
    BY <1>2, QuizParts
  <2>2. PICK n \in Nat : options[i] = Text(order[i], n, FALSE)
    BY <1>4, <2>1
  <2>3. /\ options[i] \in Texts /\ options[i].wrapped = FALSE /\ options[i].bullet = FALSE
        /\ options[i].sign = order[i].sign /\ options[i].word = order[i].word
    BY <2>1, <2>2 DEF Text, Texts, Bodies
  <2>4. Body(options[i]) = order[i] /\ OptionKey(options[i]) = Text(order[i], 0, FALSE)
    <3>1. Body(Text(order[i], n, FALSE)) = order[i]
          /\ OptionKey(Text(order[i], n, FALSE)) = Text(order[i], 0, FALSE)
      BY <2>1, TextOfBody
    <3>2. QED
      BY <2>2, <3>1
  <2>5. QED
    BY <2>1, <2>3, <2>4
<1>7. options \in Seq(Texts)
  <2>1. options \in [1..N -> Texts]
    BY <1>5, <1>6
  <2>2. QED
    BY <1>3, <2>1
<1>8. ASSUME NEW b \in q.bodies
      PROVE  \E i \in DOMAIN options : Places(b, options) = {i}
  <2>1. PICK i \in 1..N : order[i] = b
    BY <1>2
  <2>2. \A j \in 1..N : Body(options[j]) = order[j]
    BY <1>6
  <2>3. Places(b, options) = {i}
    BY <1>2, <1>4, <2>1, <2>2 DEF Places
  <2>4. QED
    BY <1>4, <2>3
<1>9. QED
  BY <1>4, <1>6, <1>7, <1>8 DEF N

\* OfOption: the text is b's, or came of it.
OfOption(t, b) == t.word \in WordsOf(b.word)

\* Letters: the text is letters of options, and no option is.
Letters(t, q) ==
  /\ Spelling[t.word] # <<>>
  /\ \A b \in q.bodies : Spelling[b.word] = <<>>

LEMMA MinOfOne ==
  ASSUME NEW i \in Nat
  PROVE  Min({i}) = i
BY DEF Min

\* The options a piece matches as it is.
Exact(t, options) == {i \in DOMAIN options : OptionKey(options[i]) = OptionKey(StripNoise(t))}

\* Bare: no sign is left before the piece.
Bare(t) == OptionKey(StripNoise(t)).sign = "none"

LEMMA MatchCases ==
  ASSUME NEW t \in Texts, NEW options
  PROVE  /\ \A i \in Nat : Exact(t, options) = {i} => MatchPiece(t, options) = {i}
         /\ Exact(t, options) = {} /\ (t.wrapped \/ ~Bare(t)) => MatchPiece(t, options) = {}
         /\ Exact(t, options) = {} => MatchPiece(t, options) \in {{}, Spelled(t.word, options)}
         /\ t.sign = "none" => Bare(t)
         /\ Exact(t, options) = {} /\ Bare(t) /\ ~t.wrapped
              => MatchPiece(t, options) = Spelled(t.word, options)
<1> DEFINE target == OptionKey(StripNoise(t))
<1>1. /\ target.word = t.word /\ target.wrapped = t.wrapped
      /\ target.sign = IF t.sign = "item" /\ t.label = 0 THEN "none" ELSE t.sign
  BY KeyParts
<1>2. MatchPiece(t, options) =
        IF Exact(t, options) # {} THEN {Min(Exact(t, options))}
        ELSE IF target.sign # "none" \/ target.wrapped THEN {} ELSE Spelled(target.word, options)
  BY DEF MatchPiece, Exact
<1>4. Bare(t) <=> target.sign = "none"
  BY DEF Bare
<1> HIDE DEF target
<1>3. \A i \in Nat : Exact(t, options) = {i} => MatchPiece(t, options) = {i}
  BY <1>2, MinOfOne
<1>5. QED
  BY <1>1, <1>2, <1>3, <1>4

\* What a text matches exactly has its word.
LEMMA ExactWord ==
  ASSUME NEW q \in Quizzes, q.qtype \notin NoOptionQtypes, NEW options \in ArrangementsOf[q],
         NEW t \in Texts, NEW i \in Exact(t, options)
  PROVE  i \in DOMAIN options /\ Body(options[i]).word = t.word
<1>1. i \in DOMAIN options /\ OptionKey(options[i]) = OptionKey(StripNoise(t))
  BY DEF Exact
<1>2. OptionKey(options[i]) = Text(Body(options[i]), 0, FALSE) /\ Body(options[i]) \in Bodies
  BY <1>1, OptionTexts
<1>3. OptionKey(options[i]).word = Body(options[i]).word
  BY <1>2 DEF Text
<1>4. OptionKey(StripNoise(t)).word = t.word
  BY KeyParts
<1>5. QED
  BY <1>1, <1>3, <1>4

\* A text that is b's word and no more matches b.
LEMMA ExactOption ==
  ASSUME NEW q \in Quizzes, q.qtype \notin NoOptionQtypes, NEW options \in ArrangementsOf[q],
         NEW t \in Texts, NEW b \in q.bodies, t.word = b.word, Bare(t), b.sign = "none",
         ~t.wrapped
  PROVE  Places(b, options) \subseteq Exact(t, options)
<1> SUFFICES ASSUME NEW i \in DOMAIN options, Body(options[i]) = b
             PROVE  OptionKey(options[i]) = OptionKey(StripNoise(t))
  BY DEF Places, Exact
<1>1. b \in Bodies /\ OptionKey(options[i]) = Text(b, 0, FALSE)
  BY OptionTexts
<1> DEFINE target == OptionKey(StripNoise(t))
<1>2. /\ target \in Texts /\ target.word = t.word /\ target.wrapped = FALSE
      /\ target.bullet = FALSE /\ target.label = 0 /\ target.sign = "none"
  BY KeyParts DEF Texts, Bare
<1> HIDE DEF target
<1>3. target = Text(b, 0, FALSE)
  BY <1>2 DEF Text, Texts
<1>4. QED
  BY <1>1, <1>3 DEF target

\* Whatever is b's, whole or in part, matches b or nothing.
LEMMA MatchesItsOption ==
  ASSUME NEW q \in Quizzes, q.qtype \notin NoOptionQtypes, NEW options \in ArrangementsOf[q],
         NEW b \in q.bodies, NEW t \in Texts, OfOption(t, b)
  PROVE  MatchPiece(t, options) \subseteq Places(b, options)
<1>1. PICK place \in DOMAIN options : Places(b, options) = {place}
  BY OptionTexts
<1>2. place \in Nat
  BY OptionTexts
<1>b. b \in Bodies /\ b.word \in Words /\ t.word \in Words
  BY QuizParts DEF Bodies, Texts
<1>q. q.qtype \in OptionQtypes
  BY QuizParts
<1>3. \A i \in Exact(t, options) : i = place
  <2> SUFFICES ASSUME NEW i \in Exact(t, options)
               PROVE  i = place
    OBVIOUS
  <2> DEFINE c == Body(options[i])
  <2>1. i \in DOMAIN options /\ c.word = t.word /\ c \in q.bodies
    BY ExactWord, OptionTexts
  <2>2. c = b
    BY <1>q, <2>1, OptionsAssumption DEF OfOption
  <2>3. QED
    BY <1>1, <2>1, <2>2 DEF Places
<1>4. CASE Exact(t, options) = {place}
  BY <1>1, <1>2, <1>4, MatchCases
<1>5. CASE Exact(t, options) = {}
  <2>1. CASE Spelling[t.word] = <<>>
    <3>1. Spelled(t.word, options) = {}
      BY <2>1 DEF Spelled, Range
    <3>2. QED
      BY <1>5, <3>1, MatchCases
  <2>2. CASE Spelling[t.word] # <<>>
    <3>2. b.sign = "none" /\ t.word = b.word
      BY <1>q, <2>2, OptionsAssumption DEF OfOption
    <3>3. CASE t.wrapped
      BY <1>5, <3>3, MatchCases
    <3>4. CASE ~t.wrapped /\ Bare(t)
      BY <1>1, <1>5, <3>2, <3>4, ExactOption
    <3>5. CASE ~Bare(t)
      BY <1>5, <3>5, MatchCases
    <3>6. QED
      BY <3>3, <3>4, <3>5
  <2>3. QED
    BY <2>1, <2>2
<1>6. QED
  BY <1>3, <1>4, <1>5

\* What is plain and b's word matches b.
LEMMA PlainMatches ==
  ASSUME NEW q \in Quizzes, q.qtype \notin NoOptionQtypes, NEW options \in ArrangementsOf[q],
         NEW b \in q.bodies, NEW t \in Texts, t.word = b.word, t.sign = "none", b.sign = "none",
         ~t.wrapped
  PROVE  MatchPiece(t, options) = Places(b, options)
<1>1. PICK place \in DOMAIN options : Places(b, options) = {place}
  BY OptionTexts
<1>2. place \in Nat
  BY OptionTexts
<1>3. place \in Exact(t, options)
  BY <1>1, MatchCases, ExactOption
<1>4. \A i \in Exact(t, options) : i = place
  <2> SUFFICES ASSUME NEW i \in Exact(t, options)
               PROVE  i = place
    OBVIOUS
  <2> DEFINE c == Body(options[i])
  <2>1. i \in DOMAIN options /\ c.word = t.word /\ c \in q.bodies
    BY ExactWord, OptionTexts
  <2>b. b.word \in WordsOf(b.word)
    BY QuizParts, WordsParts DEF Bodies
  <2>2. c = b
    BY <2>1, <2>b, QuizParts, OptionsAssumption
  <2>3. QED
    BY <1>1, <2>1, <2>2 DEF Places
<1>5. Exact(t, options) = {place}
  BY <1>3, <1>4
<1>6. QED
  BY <1>1, <1>2, <1>5, MatchCases

\* Letters match nothing exactly where no option is letters.
LEMMA LettersMatch ==
  ASSUME NEW q \in Quizzes, q.qtype \notin NoOptionQtypes, NEW options \in ArrangementsOf[q],
         NEW t \in Texts, Letters(t, q)
  PROVE  /\ t.wrapped => MatchPiece(t, options) = {}
         /\ t.sign = "none" /\ ~t.wrapped => MatchPiece(t, options) = Spelled(t.word, options)
<1>1. Exact(t, options) = {}
  <2> SUFFICES ASSUME NEW i \in Exact(t, options)
               PROVE  FALSE
    OBVIOUS
  <2>1. Body(options[i]) \in q.bodies /\ Body(options[i]).word = t.word
    BY ExactWord, OptionTexts
  <2>2. QED
    BY <2>1 DEF Letters
<1>2. QED
  BY <1>1, MatchCases

-----------------------------------------------------------------------------
(* What answers and replies consist of                                      *)

\* What a fence may leave of a text is its word, or what is left of that.
LEMMA BiteParts ==
  ASSUME NEW t \in Texts, NEW bite \in Bites(t), bite # None
  PROVE  /\ bite \in Texts /\ bite.word \in Remains(t.word)
         /\ bite.sign = t.sign \/ bite.sign = "none"
<1> DEFINE bare == [t EXCEPT !.bullet = FALSE]
<1>1. t.word \in Words /\ t.sign \in Signs /\ t.word \in Remains(t.word)
  BY WordsParts DEF Texts
<1>2. bare \in Texts /\ bare.word = t.word /\ bare.sign = t.sign
  BY DEF Texts
<1>3. bite \in {t, [t EXCEPT !.wrapped = TRUE], bare, [bare EXCEPT !.sign = "none"], BiteWord(bare)}
  BY DEF Bites
<1>4. CASE bite \in {t, [t EXCEPT !.wrapped = TRUE]}
  BY <1>1, <1>4 DEF Texts
<1> HIDE DEF bare
<1>5. CASE bite \in {bare, [bare EXCEPT !.sign = "none"]}
  BY <1>1, <1>2, <1>5 DEF Texts, Signs
<1>6. CASE bite = BiteWord(bare)
  <2>1. Bitten[t.word] # None
        /\ bite = [bare EXCEPT !.sign = "none", !.word = Bitten[t.word]]
    BY <1>2, <1>6 DEF BiteWord
  <2>2. Bitten[t.word] \in Words /\ Bitten[t.word] \in Remains(t.word)
    BY <1>1, <2>1, BittenAssumption DEF Remains
  <2>3. QED
    BY <1>2, <2>1, <2>2 DEF Texts, Signs
<1>7. QED
  BY <1>3, <1>4, <1>5, <1>6

\* Left: what is left of the wrappers of a text, and of the sign at its start.
Left(texts, wrapping) ==
  StripWrappers(wrapping \o IF texts[1].sign = "prefix" /\ texts[1].label = 0 /\ ~texts[1].bullet
                              THEN <<"sign">> ELSE <<>>)

\* Comes: the text is one of these, or what a fence has left of one.
Comes(t, texts) ==
  \E n \in DOMAIN texts :
    t.word \in Remains(texts[n].word) /\ (t.sign = texts[n].sign \/ t.sign = "none")

\* Unwrapping touches the first text only: its sign, what is left of the wrappers on it, and
\* its word if a fence takes part of it.
LEMMA UnwrapParts ==
  ASSUME NEW texts \in Seq(Texts), texts # <<>>, NEW wrapping, NEW bite \in Bites(texts[1])
  PROVE  LET out == Unwrap(texts, wrapping, bite) IN
           /\ out \in Seq(Texts) /\ Len(out) <= Len(texts)
           /\ \A t \in Range(out) : Comes(t, texts)
           /\ Left(texts, wrapping) # <<"bitten">> =>
                /\ Len(out) = Len(texts) /\ out[1].word = texts[1].word
                /\ texts[1].sign = "none" /\ ~texts[1].wrapped /\ Left(texts, wrapping) = <<>>
                     => out = texts
<1> DEFINE t1 == texts[1]
           out == Unwrap(texts, wrapping, bite)
           exposed == t1.sign = "prefix" /\ t1.label = 0 /\ ~t1.bullet
           left == Left(texts, wrapping)
           sign == IF exposed /\ left = <<>> THEN "none" ELSE t1.sign
           rest == left \notin {<<>>, IF exposed THEN <<"sign">> ELSE <<>>}
           first == [t1 EXCEPT !.sign = sign, !.wrapped = rest]
<1>1. /\ DOMAIN texts = 1..Len(texts) /\ Len(texts) \in Nat \ {0}
      /\ \A n \in DOMAIN texts : texts[n] \in Texts
  OBVIOUS
<1>2. 1 \in DOMAIN texts /\ t1 \in Texts
  BY <1>1
<1>3. \A n \in DOMAIN texts : texts[n].word \in Remains(texts[n].word)
  BY <1>1, WordsParts DEF Texts
<1>4. out = IF left # <<"bitten">> THEN [texts EXCEPT ![1].sign = sign, ![1].wrapped = rest]
            ELSE IF bite = None THEN Tail(texts)
            ELSE [texts EXCEPT ![1] = bite]
  BY DEF Unwrap, Left
<1>5. (sign = t1.sign \/ sign = "none") /\ rest \in BOOLEAN
      /\ (t1.sign = "none" /\ left = <<>> => sign = "none" /\ rest = FALSE)
  OBVIOUS
<1> HIDE DEF left, sign, rest
<1>6. first \in Texts /\ first.word = t1.word /\ first.sign = sign
      /\ (t1.sign = sign /\ t1.wrapped = rest => first = t1)
  BY <1>2, <1>5 DEF Texts, Signs
<1>7. [texts EXCEPT ![1].sign = sign, ![1].wrapped = rest] = [texts EXCEPT ![1] = first]
  BY <1>2
<1> HIDE DEF first, out
<1>8. ASSUME NEW new \in Texts, out = [texts EXCEPT ![1] = new], new.word \in Remains(t1.word),
             new.sign = t1.sign \/ new.sign = "none"
      PROVE  /\ out \in Seq(Texts) /\ Len(out) = Len(texts) /\ out[1] = new
             /\ \A t \in Range(out) : Comes(t, texts)
  <2>1. out \in Seq(Texts) /\ Len(out) = Len(texts) /\ out[1] = new /\ DOMAIN out = DOMAIN texts
    BY <1>1, <1>2, <1>8
  <2>2. \A n \in DOMAIN texts \ {1} : out[n] = texts[n]
    BY <1>8
  <2>3. QED
    BY <1>2, <1>3, <1>8, <2>1, <2>2 DEF Range, Comes
<1>9. CASE left # <<"bitten">>
  <2>1. out = [texts EXCEPT ![1] = first]
    BY <1>4, <1>7, <1>9
  <2>2. first.word \in Remains(t1.word) /\ (first.sign = t1.sign \/ first.sign = "none")
    BY <1>2, <1>3, <1>5, <1>6
  <2>3. /\ out \in Seq(Texts) /\ Len(out) = Len(texts) /\ out[1] = first
        /\ \A t \in Range(out) : Comes(t, texts)
    BY <1>6, <1>8, <2>1, <2>2
  <2>4. ASSUME texts[1].sign = "none", ~texts[1].wrapped, left = <<>>
        PROVE  out = texts
    <3>1. t1.wrapped = FALSE
      BY <1>2, <2>4 DEF Texts
    <3>2. first = t1
      BY <1>5, <1>6, <2>4, <3>1
    <3>3. QED
      BY <1>1, <1>2, <2>1, <3>2
  <2>5. Len(out) <= Len(texts)
    BY <1>1, <2>3
  <2>6. QED
    BY <1>6, <2>3, <2>4, <2>5 DEF left, out
<1>10. CASE left = <<"bitten">> /\ bite = None
  <2>1. out = Tail(texts)
    BY <1>4, <1>10
  <2>2. out \in Seq(Texts) /\ Len(out) = Len(texts) - 1 /\ \A n \in DOMAIN out : out[n] = texts[n + 1]
    BY <1>1, <2>1
  <2>3. DOMAIN out = 1..Len(out)
    BY <2>2
  <2>4. ASSUME NEW n \in DOMAIN out
        PROVE  n + 1 \in DOMAIN texts
    BY <1>1, <2>2, <2>3
  <2>5. \A t \in Range(out) : \E n \in DOMAIN texts : t = texts[n]
    BY <2>2, <2>4 DEF Range
  <2>6. Len(out) <= Len(texts)
    BY <1>1, <2>2
  <2>7. \A t \in Range(out) : Comes(t, texts)
    BY <1>3, <2>5 DEF Comes
  <2>8. QED
    BY <1>10, <2>2, <2>6, <2>7 DEF left, out
<1>11. CASE left = <<"bitten">> /\ bite # None
  <2>1. out = [texts EXCEPT ![1] = bite]
    BY <1>4, <1>11
  <2>2. /\ bite \in Texts /\ bite.word \in Remains(t1.word)
        /\ bite.sign = t1.sign \/ bite.sign = "none"
    BY <1>2, <1>11, BiteParts
  <2>3. /\ out \in Seq(Texts) /\ Len(out) = Len(texts)
        /\ \A t \in Range(out) : Comes(t, texts)
    BY <1>8, <2>1, <2>2
  <2>4. Len(out) <= Len(texts)
    BY <1>1, <2>3
  <2>5. QED
    BY <1>11, <2>3, <2>4 DEF left, out
<1>12. QED
  BY <1>9, <1>10, <1>11

\* Where each fence opens with a line of its own, none takes more than itself.
LEMMA InLinesParts ==
  ASSUME NEW texts, NEW wrapping \in Wrappings
  PROVE  /\ Left(texts, InLines(wrapping)) # <<"bitten">>
         /\ texts[1].sign = "none" => Left(texts, InLines(wrapping)) = StripWrappers(InLines(wrapping))
<1> DEFINE K == {"fence", "prefix", "bold", "sign"}
           lines == InLines(wrapping)
<1>1. wrapping \in Seq({"fence", "inline", "prefix", "bold"})
  BY SetsAssumption
<1>2. lines \in Seq(K) /\ lines \o <<>> = lines /\ lines \o <<"sign">> \in Seq(K)
  <2>1. \A n \in DOMAIN wrapping : wrapping[n] \in {"fence", "inline", "prefix", "bold"}
    BY <1>1
  <2>2. lines \in [1..Len(wrapping) -> K]
    BY <1>1, <2>1 DEF InLines
  <2>3. Len(wrapping) \in Nat
    BY <1>1
  <2>4. lines \in Seq(K)
    BY <2>2, <2>3
  <2> HIDE DEF lines
  <2>5. QED
    BY <2>4
<1> HIDE DEF lines
<1>3. ASSUME NEW layers \in Seq(K)
      PROVE  StripOnce(layers) \in Seq(K)
  <2>1. CASE layers = <<>>
    BY <2>1 DEF StripOnce
  <2>2. CASE layers # <<>>
    <3>1. Head(layers) \in K /\ Tail(layers) \in Seq(K)
      BY <2>2
    <3>2. \A rest \in Seq(K) : \A kinds : Without(kinds, rest) \in Seq(K)
      BY DEF Without
    <3> HIDE DEF K
    <3>3. Head(layers) # "inline"
      BY <3>1 DEF K
    <3>4. QED
      BY <2>2, <3>1, <3>2, <3>3 DEF StripOnce
  <2>3. QED
    BY <2>1, <2>2
<1>4. ASSUME NEW layers \in Seq(K)
      PROVE  StripWrappers(layers) # <<"bitten">>
  <2>1. StripWrappers(layers) \in Seq(K)
    BY <1>3 DEF StripWrappers
  <2>2. <<"bitten">>[1] = "bitten" /\ Len(<<"bitten">>) = 1
    OBVIOUS
  <2>3. \A s \in Seq(K) : Len(s) = 1 => s[1] \in K
    OBVIOUS
  <2>4. QED
    BY <2>1, <2>2, <2>3
<1> HIDE DEF K
<1>5. CASE texts[1].sign = "prefix" /\ texts[1].label = 0 /\ ~texts[1].bullet
  <2>1. Left(texts, lines) = StripWrappers(lines \o <<"sign">>)
    BY <1>5 DEF Left
  <2>2. QED
    BY <1>2, <1>4, <1>5, <2>1 DEF lines
<1>6. CASE ~(texts[1].sign = "prefix" /\ texts[1].label = 0 /\ ~texts[1].bullet)
  <2>1. Left(texts, lines) = StripWrappers(lines)
    BY <1>2, <1>6 DEF Left
  <2>2. QED
    BY <1>2, <1>4, <2>1 DEF lines
<1>7. QED
  BY <1>5, <1>6

\* Copies: the text is the option, give or take the label, the marker and the wrappers.
Copies(t, o) == t.word = o.word /\ t.sign = o.sign

\* Spells: the text is letters, and nothing else is.
Spells(t, q) == Letters(t, q) /\ t.sign = "none"

Says(t, positions, q, options) ==
  \/ \E i \in positions : Copies(t, options[i])
  \/ Spells(t, q) /\ Range(Spelling[t.word]) \subseteq positions

NamesIt(t, i, q, options) ==
  \/ Copies(t, options[i])
  \/ Spells(t, q) /\ i \in Range(Spelling[t.word])

LEMMA RenderedParts ==
  ASSUME NEW q \in Quizzes, q.qtype \notin NoOptionQtypes, NEW options \in ArrangementsOf[q],
         NEW i \in DOMAIN options, NEW styles \in SUBSET (Styles \cup ImportStyles),
         NEW style \in Understood(q, styles)
  PROVE  LET t == Rendered(i, style, options) IN
           /\ t \in Texts /\ ~t.wrapped
           /\ Copies(t, options[i]) \/ (Spells(t, q) /\ Range(Spelling[t.word]) = {i})
           /\ styles \cap {"letters", "spelled"} = {} => Copies(t, options[i])
<1>o. /\ i \in 1..Cardinality(q.bodies) /\ options[i] \in Texts /\ ~options[i].wrapped
      /\ Body(options[i]) \in Bodies
      /\ options[i].word = Body(options[i]).word /\ options[i].sign = Body(options[i]).sign
  BY OptionTexts
<1>1. CASE style = "letters"
  <2>1. "letters" \in Styles /\ \A b \in q.bodies : Spelling[b.word] = <<>>
    BY <1>1, LettersAssumption DEF Understood
  <2> DEFINE w == CHOOSE w \in Words : Spelling[w] = <<i>>
  <2>2. w \in Words /\ Spelling[w] = <<i>>
    BY <1>o, <2>1, QuizParts, LettersAssumption
  <2>3. Rendered(i, style, options) = AsIs(w)
    BY <1>1 DEF Rendered
  <2> HIDE DEF w
  <2>4. Range(<<i>>) = {i} /\ <<i>> # <<>>
    <3>1. DOMAIN <<i>> = {1} /\ <<i>>[1] = i
      OBVIOUS
    <3>2. QED
      BY <3>1 DEF Range
  <2>5. /\ AsIs(w) \in Texts /\ AsIs(w).wrapped = FALSE /\ AsIs(w).sign = "none" /\ AsIs(w).word = w
    BY <2>2, AsIsParts
  <2>6. "letters" \in styles
    BY <1>1 DEF Understood
  <2>7. QED
    BY <2>1, <2>2, <2>3, <2>4, <2>5, <2>6 DEF Spells, Letters
<1>2. CASE style = "listed"
  <2>1. Rendered(i, style, options) = options[i]
    BY <1>2 DEF Rendered
  <2>2. Copies(options[i], options[i])
    BY DEF Copies
  <2>3. QED
    BY <1>o, <2>1, <2>2, Zenon
<1>3. CASE style \notin {"letters", "listed"}
  <2> DEFINE b == Body(options[i])
             bullet == style = "bulleted"
  <2>1. Rendered(i, style, options) = Text(b, 0, bullet)
    BY <1>3 DEF Rendered
  <2>2. b \in Bodies /\ bullet \in BOOLEAN
    BY <1>o
  <2> HIDE DEF b, bullet
  <2>3. /\ Text(b, 0, bullet) \in Texts /\ Text(b, 0, bullet).wrapped = FALSE
        /\ Text(b, 0, bullet).sign = b.sign /\ Text(b, 0, bullet).word = b.word
    BY <2>2 DEF Text, Texts, Bodies
  <2>4. Text(b, 0, bullet).word = options[i].word /\ Text(b, 0, bullet).sign = options[i].sign
    BY <1>o, <2>3 DEF b
  <2>5. Copies(Text(b, 0, bullet), options[i]) /\ ~Text(b, 0, bullet).wrapped
    BY <2>3, <2>4 DEF Copies
  <2>6. QED
    BY <2>1, <2>3, <2>5, Zenon
<1>4. QED
  BY <1>1, <1>2, <1>3

\* An answer in some styles names options, all of them and no others.
LEMMA AnswerParts ==
  ASSUME NEW q \in Quizzes, q.qtype \notin NoOptionQtypes, NEW options \in ArrangementsOf[q],
         NEW styles \in SUBSET (Styles \cup ImportStyles), NEW answer \in Answers(q, styles, options)
  PROVE  \E positions \in Selections(q, options) :
           /\ answer.meant = {Body(options[i]) : i \in positions}
           /\ answer.texts \in Seq(Texts) /\ answer.texts # <<>>
           /\ q.qtype = "single" => Len(answer.texts) = 1
           /\ \A t \in Range(answer.texts) :
                /\ ~t.wrapped /\ Says(t, positions, q, options)
                /\ styles \cap {"letters", "spelled"} = {} => \E i \in positions : Copies(t, options[i])
           /\ \A i \in positions : \E t \in Range(answer.texts) : NamesIt(t, i, q, options)
<1> DEFINE meant(positions) == {Body(options[i]) : i \in positions}
           texts(positions) ==
             UNION {Written(positions, style, options) : style \in Understood(q, styles)}
           answers(positions) ==
             {[texts |-> text, meant |-> meant(positions)] : text \in texts(positions)}
<1>a. Answers(q, styles, options) = UNION {answers(positions) : positions \in Selections(q, options)}
  BY DEF Answers
<1>b. PICK positions \in Selections(q, options) : answer \in answers(positions)
  BY <1>a
<1>c. PICK text \in texts(positions) : answer = [texts |-> text, meant |-> meant(positions)]
  BY <1>b
<1>d. PICK style \in Understood(q, styles) : text \in Written(positions, style, options)
  OBVIOUS
<1> HIDE DEF texts, answers
<1>2. /\ answer.texts = text /\ answer.meant = {Body(options[i]) : i \in positions}
  BY <1>c
<1> HIDE DEF meant
<1>3. /\ positions \subseteq 1..Cardinality(q.bodies) /\ positions \subseteq DOMAIN options
      /\ positions # {} /\ (q.qtype = "single" => Cardinality(positions) = 1)
  BY OptionTexts DEF Selections
<1>4. /\ text \in Seq(Texts) /\ text # <<>>
      /\ q.qtype = "single" => Len(text) = 1
      /\ \A t \in Range(text) :
           /\ ~t.wrapped /\ Says(t, positions, q, options)
           /\ styles \cap {"letters", "spelled"} = {} => \E i \in positions : Copies(t, options[i])
      /\ \A i \in positions : \E t \in Range(text) : NamesIt(t, i, q, options)
  <2>1. CASE style = "spelled"
    <3>1. PICK w \in Words : Range(Spelling[w]) = positions /\ text = <<AsIs(w)>>
      BY <1>d, <2>1 DEF Written
    <3>2. /\ AsIs(w) \in Texts /\ AsIs(w).wrapped = FALSE /\ AsIs(w).sign = "none" /\ AsIs(w).word = w
      BY AsIsParts
    <3>3. Spelling[w] # <<>>
      <4>1. Range(<<>>) = {}
        BY DEF Range
      <4>2. QED
        BY <1>3, <3>1, <4>1
    <3>4. "spelled" \in styles /\ \A b \in q.bodies : Spelling[b.word] = <<>>
      BY <2>1 DEF Understood
    <3>5. text \in Seq(Texts) /\ text # <<>> /\ Len(text) = 1 /\ DOMAIN text = {1} /\ text[1] = AsIs(w)
      BY <3>1, <3>2
    <3>6. Range(text) = {AsIs(w)}
      BY <3>5 DEF Range
    <3>7. Spells(AsIs(w), q)
      BY <3>2, <3>3, <3>4 DEF Spells, Letters
    <3>8. QED
      BY <3>1, <3>2, <3>4, <3>5, <3>6, <3>7 DEF Says, NamesIt
  <2>2. CASE style # "spelled"
    <3>1. PICK order \in SetToSeqs(positions) :
            text = [n \in DOMAIN order |-> Rendered(order[n], style, options)]
      BY <1>d, <2>2 DEF Written
    <3> DEFINE N == Cardinality(positions)
    <3>2. IsFiniteSet(positions)
      <4>1. Cardinality(q.bodies) \in Nat
        BY QuizParts, FS_CardinalityType
      <4>2. IsFiniteSet(1..Cardinality(q.bodies))
        BY <4>1, FS_Interval
      <4>3. QED
        BY <1>3, <4>2, FS_Subset
    <3>3. /\ order \in [1..N -> positions] /\ \A i \in positions : \E n \in 1..N : order[n] = i
      BY <3>2, OrderIsOnto
    <3>4. N \in Nat
      BY <3>2, FS_CardinalityType
    <3> HIDE DEF N
    <3>5. \A i \in positions :
            LET t == Rendered(i, style, options) IN
              /\ t \in Texts /\ ~t.wrapped
              /\ Copies(t, options[i]) \/ (Spells(t, q) /\ Range(Spelling[t.word]) = {i})
              /\ styles \cap {"letters", "spelled"} = {} => Copies(t, options[i])
      BY <1>3, RenderedParts
    <3>6. DOMAIN text = 1..N /\ \A n \in 1..N : text[n] = Rendered(order[n], style, options)
      BY <3>1, <3>3
    <3>7. text \in Seq(Texts) /\ Len(text) = N
      <4>1. text \in [1..N -> Texts]
        BY <3>1, <3>3, <3>5
      <4>2. QED
        BY <3>4, <4>1
    <3>8. text # <<>>
      <4>1. PICK i \in positions : TRUE
        BY <1>3
      <4>2. 1..N # {}
        BY <3>3, <4>1
      <4>3. Len(text) # 0
        BY <3>4, <3>7, <4>2
      <4>4. QED
        BY <4>3
    <3>9. ASSUME NEW t \in Range(text)
          PROVE  /\ ~t.wrapped /\ Says(t, positions, q, options)
                 /\ styles \cap {"letters", "spelled"} = {} => \E i \in positions : Copies(t, options[i])
      <4>1. PICK n \in 1..N : t = text[n]
        BY <3>6, <3>9 DEF Range
      <4>2. order[n] \in positions /\ t = Rendered(order[n], style, options)
        BY <3>3, <3>6, <4>1
      <4>3. QED
        BY <3>5, <4>2 DEF Says
    <3>10. ASSUME NEW i \in positions
           PROVE  \E t \in Range(text) : NamesIt(t, i, q, options)
      <4>1. PICK n \in 1..N : order[n] = i
        BY <3>3
      <4>2. text[n] = Rendered(i, style, options) /\ text[n] \in Range(text)
        BY <3>6, <4>1 DEF Range
      <4>3. QED
        BY <3>5, <4>2 DEF NamesIt
    <3>11. QED
      BY <1>3, <3>7, <3>8, <3>9, <3>10 DEF N
  <2>3. QED
    BY <2>1, <2>2
<1>5. QED
  BY <1>2, <1>4

-----------------------------------------------------------------------------
(* What is told names what was meant                                        *)

\* Stray: letters with something of a wrapper left, which match nothing.
Stray(t, q) == Letters(t, q) /\ t.wrapped

\* Good: a text of a content that matches what was meant, or nothing.
Good(t, meant, q) == (\E b \in meant : OfOption(t, b)) \/ Stray(t, q)

\* Fits: a text of a reply that matches what was meant, or nothing.
Reads(t, meant, q, options) ==
  /\ Spells(t, q)
  /\ \A i \in Range(Spelling[t.word]) : i \in DOMAIN options /\ Body(options[i]) \in meant

Fits(t, meant, q, options) == (\E b \in meant : OfOption(t, b)) \/ Reads(t, meant, q, options)

\* A piece of a text is of the same options; letters are in one piece.
LEMMA PiecesKept ==
  ASSUME NEW texts \in Seq(Texts), NEW q, NEW qtype, NEW p \in Range(Pieces(texts, qtype))
  PROVE  /\ p \in Texts
         /\ \E t \in Range(texts) :
              /\ \A b \in Bodies : OfOption(t, b) => OfOption(p, b)
              /\ Letters(t, q) => p = t
<1>1. Pieces(texts, qtype) \in Seq(Texts)
  BY PiecesParts
<1>2. p \in Texts
  BY <1>1 DEF Range
<1>3. CASE qtype = "multiple"
  <2>1. PICK t \in Range(texts) : p \in Range(Split(t))
    BY <1>3, PiecesParts
  <2>t. t \in Texts
    BY DEF Range
  <2>2. t \in Texts /\ t.word \in Words
    BY <2>t DEF Texts
  <2>3. /\ p.word \in Range(Parts[t.word])
        /\ Parts[t.word] = <<t.word>> => p = t
    BY <2>1, <2>2, SplitParts
  <2>4. ASSUME NEW b \in Bodies, OfOption(t, b)
        PROVE  OfOption(p, b)
    <3>1. b.word \in Words
      BY DEF Bodies
    <3>2. QED
      BY <2>3, <2>4, <3>1, WordsParts DEF OfOption
  <2>5. Letters(t, q) => p = t
    BY <2>2, <2>3, PartsAssumption DEF Letters
  <2>6. QED
    BY <1>2, <2>4, <2>5
<1>4. CASE qtype # "multiple"
  <2>1. p \in Range(texts)
    BY <1>4, PiecesParts
  <2>2. QED
    BY <1>2, <2>1
<1>5. QED
  BY <1>3, <1>4

LEMMA GoodMatch ==
  ASSUME NEW q \in Quizzes, q.qtype \notin NoOptionQtypes, NEW options \in ArrangementsOf[q],
         NEW meant \in SUBSET q.bodies, NEW t \in Texts, Good(t, meant, q)
  PROVE  \A i \in MatchPiece(t, options) : i \in DOMAIN options /\ Body(options[i]) \in meant
<1>1. ASSUME NEW b \in meant, OfOption(t, b)
      PROVE  \A i \in MatchPiece(t, options) : i \in DOMAIN options /\ Body(options[i]) \in meant
  <2>1. MatchPiece(t, options) \subseteq Places(b, options)
    BY <1>1, MatchesItsOption
  <2>2. QED
    BY <2>1 DEF Places
<1>2. CASE Stray(t, q)
  BY <1>2, LettersMatch DEF Stray
<1>3. QED
  BY <1>1, <1>2 DEF Good

LEMMA FitMatch ==
  ASSUME NEW q \in Quizzes, q.qtype \notin NoOptionQtypes, NEW options \in ArrangementsOf[q],
         NEW meant \in SUBSET q.bodies, NEW t \in Texts, Fits(t, meant, q, options)
  PROVE  /\ \A i \in MatchPiece(t, options) : i \in DOMAIN options /\ Body(options[i]) \in meant
         /\ MatchPiece(t, options) = {} => Good(t, meant, q)
<1>1. CASE \E b \in meant : OfOption(t, b)
  BY <1>1, GoodMatch DEF Good
<1>2. CASE Reads(t, meant, q, options)
  <2>1. CASE t.wrapped
    BY <1>2, <2>1, LettersMatch DEF Good, Stray, Reads, Spells
  <2>2. CASE ~t.wrapped
    <3>1. MatchPiece(t, options) = Spelled(t.word, options)
      BY <1>2, <2>2, LettersMatch DEF Reads, Spells
    <3>2. Spelled(t.word, options) = Range(Spelling[t.word])
      BY <1>2 DEF Spelled, Reads
    <3>3. Range(Spelling[t.word]) # {}
      <4>1. Spelling[t.word] \in Seq(Nat \ {0}) /\ Spelling[t.word] # <<>>
        BY <1>2, PartsParts DEF Reads, Spells, Letters, Texts
      <4>2. 1 \in DOMAIN Spelling[t.word]
        BY <4>1
      <4>3. QED
        BY <4>2 DEF Range
    <3>4. QED
      BY <1>2, <3>1, <3>2, <3>3 DEF Reads
  <2>3. QED
    BY <2>1, <2>2
<1>3. QED
  BY <1>1, <1>2 DEF Fits

\* Pieces of good texts are good, and so for those that fit.
LEMMA GoodPieces ==
  ASSUME NEW q \in Quizzes, NEW meant \in SUBSET q.bodies, NEW texts \in Seq(Texts), NEW qtype,
         NEW options
  PROVE  /\ (\A t \in Range(texts) : Good(t, meant, q))
              => \A p \in Range(Pieces(texts, qtype)) : p \in Texts /\ Good(p, meant, q)
         /\ (\A t \in Range(texts) : Fits(t, meant, q, options))
              => \A p \in Range(Pieces(texts, qtype)) : p \in Texts /\ Fits(p, meant, q, options)
<1>1. \A b \in meant : b \in Bodies
  BY QuizParts
<1>2. ASSUME NEW p \in Range(Pieces(texts, qtype))
      PROVE  /\ p \in Texts
             /\ (\A t \in Range(texts) : Good(t, meant, q)) => Good(p, meant, q)
             /\ (\A t \in Range(texts) : Fits(t, meant, q, options)) => Fits(p, meant, q, options)
  <2>1. PICK t \in Range(texts) : /\ \A b \in Bodies : OfOption(t, b) => OfOption(p, b)
                                  /\ Letters(t, q) => p = t
    BY PiecesKept
  <2>2. Good(t, meant, q) => Good(p, meant, q)
    BY <1>1, <2>1 DEF Good, Stray
  <2>3. Fits(t, meant, q, options) => Fits(p, meant, q, options)
    BY <1>1, <2>1 DEF Fits, Reads, Spells
  <2>4. p \in Texts
    BY PiecesKept
  <2>5. QED
    BY <2>2, <2>3, <2>4
<1>3. QED
  BY <1>2

LEMMA GoodContent ==
  ASSUME NEW q \in Quizzes, q.qtype \notin NoOptionQtypes, NEW options \in ArrangementsOf[q],
         NEW meant \in SUBSET q.bodies, NEW content \in Seq(Texts),
         \A t \in Range(content) : Good(t, meant, q),
         NEW i \in Matched(content, q.qtype, options)
  PROVE  i \in DOMAIN options /\ Body(options[i]) \in meant
<1>1. PICK p \in Range(Pieces(content, q.qtype)) : i \in MatchPiece(p, options)
  BY DEF Matched
<1>2. p \in Texts /\ Good(p, meant, q)
  BY GoodPieces
<1>3. QED
  BY <1>1, <1>2, GoodMatch

LEMMA OptionsAreGood ==
  ASSUME NEW q \in Quizzes, q.qtype \notin NoOptionQtypes, NEW options \in ArrangementsOf[q],
         NEW meant \in SUBSET q.bodies, NEW i \in DOMAIN options, Body(options[i]) \in meant
  PROVE  Good(options[i], meant, q)
<1>1. options[i].word = Body(options[i]).word /\ Body(options[i]).word \in Words
  BY OptionTexts DEF Bodies
<1>2. OfOption(options[i], Body(options[i]))
  BY <1>1, WordsParts DEF OfOption
<1>3. QED
  BY <1>2 DEF Good

\* What is stored of a reply that fits is good.
LEMMA LearntContent ==
  ASSUME NEW q \in Quizzes, q.qtype \notin NoOptionQtypes, NEW options \in ArrangementsOf[q],
         NEW meant \in SUBSET q.bodies, NEW texts \in Seq(Texts),
         q.qtype = "single" => Len(texts) <= 1,
         \A t \in Range(texts) : Fits(t, meant, q, options)
  PROVE  /\ Content(texts, q.qtype, options) \in Seq(Texts)
         /\ \A c \in Range(Content(texts, q.qtype, options)) : Good(c, meant, q)
<1> DEFINE matched == Matched(texts, q.qtype, options)
           pieces == Pieces(texts, q.qtype)
           left == {n \in DOMAIN pieces : MatchPiece(pieces[n], options) = {}}
<1>1. Content(texts, q.qtype, options) = InOrder(matched, options) \o InOrder(left, pieces)
  <2>1. q.qtype \notin {"judgement", "completion"}
    BY DEF NoOptionQtypes
  <2>2. Unmatched(texts, q.qtype, options) = InOrder(left, pieces)
    <3>1. CASE q.qtype = "single"
      <4>1. Len(texts) <= 1 /\ Len(texts) \in Nat
        BY <3>1
      <4>2. ~(Len(texts) > 1)
        BY <4>1
      <4>3. QED
        BY <4>2 DEF Unmatched
    <3>2. CASE q.qtype # "single"
      BY <3>2 DEF Unmatched
    <3>3. QED
      BY <3>1, <3>2
  <2>3. QED
    BY <2>1, <2>2 DEF Content
<1>2. pieces \in Seq(Texts) /\ options \in Seq(Texts)
  BY PiecesParts, OptionTexts
<1>3. \A p \in Range(pieces) : p \in Texts /\ Fits(p, meant, q, options)
  BY GoodPieces
<1>4. \A i \in matched : i \in DOMAIN options /\ Body(options[i]) \in meant
  <2>1. \A i \in matched : \E p \in Range(pieces) : i \in MatchPiece(p, options)
    BY DEF Matched
  <2>2. QED
    BY <1>3, <2>1, FitMatch
<1>5. \A n \in left : Good(pieces[n], meant, q)
  <2> SUFFICES ASSUME NEW n \in left
               PROVE  Good(pieces[n], meant, q)
    OBVIOUS
  <2>1. pieces[n] \in Range(pieces) /\ MatchPiece(pieces[n], options) = {}
    BY DEF Range
  <2>2. QED
    BY <1>3, <2>1, FitMatch
<1> HIDE DEF matched, pieces, left
<1>6. /\ InOrder(matched, options) \in Seq(Texts)
      /\ Range(InOrder(matched, options)) = {options[i] : i \in matched \cap DOMAIN options}
  BY <1>2, InOrderRange
<1>7. /\ InOrder(left, pieces) \in Seq(Texts)
      /\ Range(InOrder(left, pieces)) = {pieces[n] : n \in left \cap DOMAIN pieces}
  BY <1>2, InOrderRange
<1>8. \A c \in Range(InOrder(matched, options)) : Good(c, meant, q)
  BY <1>4, <1>6, OptionsAreGood
<1>9. \A c \in Range(InOrder(left, pieces)) : Good(c, meant, q)
  BY <1>5, <1>7
<1>10. QED
  BY <1>1, <1>6, <1>7, <1>8, <1>9, ConcatRange

LEMMA ReplyFits ==
  ASSUME NEW q \in Quizzes, q.qtype \notin NoOptionQtypes, NEW options \in ArrangementsOf[q],
         NEW reply \in Replies(q, options)
  PROVE  /\ reply.texts \in Seq(Texts) /\ reply.meant \in SUBSET q.bodies
         /\ q.qtype = "single" => Len(reply.texts) <= 1
         /\ \A t \in Range(reply.texts) : Fits(t, reply.meant, q, options)
<1>1. PICK answer \in Answers(q, Styles, options), wrapping \in Wrappings :
        \E bite \in Bites(answer.texts[1]) :
          reply.texts = Unwrap(answer.texts, wrapping, bite) /\ reply.meant = answer.meant
  BY ReplyParts
<1> DEFINE texts == answer.texts
           meant == answer.meant
<1>2. PICK bite \in Bites(texts[1]) : reply.texts = Unwrap(texts, wrapping, bite) /\ reply.meant = meant
  BY <1>1
<1>3. Styles \in SUBSET (Styles \cup ImportStyles)
  OBVIOUS
<1>4. PICK positions \in Selections(q, options) :
        /\ meant = {Body(options[i]) : i \in positions}
        /\ texts \in Seq(Texts) /\ texts # <<>>
        /\ q.qtype = "single" => Len(texts) = 1
        /\ \A t \in Range(texts) : Says(t, positions, q, options)
  BY <1>3, AnswerParts
<1>5. meant \subseteq q.bodies
  BY MeantOfAnswers
<1>6. positions \subseteq DOMAIN options
  BY DEF Selections
<1> HIDE DEF texts, meant
<1>7. /\ reply.texts \in Seq(Texts) /\ Len(reply.texts) <= Len(texts)
      /\ \A t \in Range(reply.texts) : Comes(t, texts)
  BY <1>2, <1>4, UnwrapParts
<1>8. ASSUME NEW t \in Range(reply.texts)
      PROVE  Fits(t, meant, q, options)
  <2>1. PICK n \in DOMAIN texts : /\ t.word \in Remains(texts[n].word)
                                   /\ (t.sign = texts[n].sign \/ t.sign = "none")
    BY <1>7 DEF Comes
  <2>t. texts[n] \in Texts /\ texts[n] \in Range(texts)
    BY <1>4, <2>1 DEF Range
  <2>2. texts[n].word \in Words
    BY <2>t DEF Texts
  <2>3. Says(texts[n], positions, q, options)
    BY <1>4, <2>t
  <2>4. ASSUME NEW i \in positions, Copies(texts[n], options[i])
        PROVE  Fits(t, meant, q, options)
    <3>1. texts[n].word = Body(options[i]).word /\ Body(options[i]) \in meant
      BY <1>4, <1>6, <2>4, OptionTexts DEF Copies
    <3>2. t.word \in WordsOf(Body(options[i]).word)
      BY <2>1, <2>2, <3>1, WordsParts
    <3>3. QED
      BY <3>1, <3>2 DEF Fits, OfOption
  <2>5. ASSUME Spells(texts[n], q), Range(Spelling[texts[n].word]) \subseteq positions
        PROVE  Fits(t, meant, q, options)
    <3>1. Spelling[t.word] # <<>> /\ Range(Spelling[t.word]) \subseteq positions
      <4>1. CASE t.word = texts[n].word
        BY <2>5, <4>1 DEF Spells, Letters
      <4>2. CASE t.word # texts[n].word
        <5>1. t.word = Bitten[texts[n].word] /\ Bitten[texts[n].word] # None
          BY <2>1, <4>2 DEF Remains
        <5>2. QED
          BY <2>2, <2>5, <5>1, BittenAssumption DEF Spells, Letters
      <4>3. QED
        BY <4>1, <4>2
    <3>2. Spells(t, q)
      BY <2>1, <2>5, <3>1 DEF Spells, Letters
    <3>3. \A i \in Range(Spelling[t.word]) : i \in DOMAIN options /\ Body(options[i]) \in meant
      BY <1>4, <1>6, <3>1
    <3>4. QED
      BY <3>2, <3>3 DEF Fits, Reads
  <2>6. QED
    BY <2>3, <2>4, <2>5 DEF Says
<1>9. QED
  BY <1>2, <1>4, <1>5, <1>7, <1>8

-----------------------------------------------------------------------------
(* What is told of plain options is all that was meant                      *)

\* Texts that match positions, each of them something, and all of the positions together.
LEMMA WholeTexts ==
  ASSUME NEW texts \in Seq(Texts), NEW qtype, NEW options, NEW positions,
         qtype = "single" => Len(texts) = 1,
         \A t \in Range(texts) : /\ Parts[t.word] = <<t.word>>
                                 /\ MatchPiece(t, options) # {}
                                 /\ MatchPiece(t, options) \subseteq positions,
         \A i \in positions : \E t \in Range(texts) : i \in MatchPiece(t, options)
  PROVE  /\ Matched(texts, qtype, options) = positions
         /\ Unmatched(texts, qtype, options) = <<>>
<1> DEFINE pieces == Pieces(texts, qtype)
           left == {n \in DOMAIN pieces : MatchPiece(pieces[n], options) = {}}
<1>1. \A t \in Range(texts) : t \in Texts
  BY DEF Range
<1>2. Range(pieces) = Range(texts)
  <2>1. CASE qtype = "multiple"
    <3>1. \A t \in Range(texts) : Range(Split(t)) = {t}
      BY <1>1, SplitParts
    <3>2. Range(pieces) = UNION {Range(Split(t)) : t \in Range(texts)}
      BY <2>1, PiecesParts
    <3>3. QED
      BY <3>1, <3>2
  <2>2. CASE qtype # "multiple"
    BY <2>2, PiecesParts
  <2>3. QED
    BY <2>1, <2>2
<1>3. pieces \in Seq(Texts)
  BY PiecesParts
<1>4. ~(qtype = "single" /\ Len(texts) > 1)
  <2> SUFFICES ASSUME qtype = "single"
               PROVE  ~(Len(texts) > 1)
    OBVIOUS
  <2>1. Len(texts) = 1
    OBVIOUS
  <2>2. QED
    BY <2>1
<1>5. Matched(texts, qtype, options) = UNION {MatchPiece(t, options) : t \in Range(pieces)}
  BY <1>4 DEF Matched
<1>6. Unmatched(texts, qtype, options) = InOrder(left, pieces)
  BY <1>4 DEF Unmatched
<1>7. left = {}
  <2> SUFFICES ASSUME NEW n \in left
               PROVE  FALSE
    OBVIOUS
  <2>1. pieces[n] \in Range(pieces) /\ MatchPiece(pieces[n], options) = {}
    BY DEF Range
  <2>2. QED
    BY <1>2, <2>1
<1> HIDE DEF pieces, left
<1>8. Unmatched(texts, qtype, options) = <<>>
  BY <1>3, <1>6, <1>7, NothingInOrder
<1>9. Matched(texts, qtype, options) = positions
  BY <1>2, <1>5
<1>10. QED
  BY <1>8, <1>9

\* PlainCopy: a text that is b and nothing else.
PlainCopy(t, b) == t.word = b.word /\ t.sign = "none" /\ ~t.wrapped

LEMMA PlainCopyMatches ==
  ASSUME NEW q \in Quizzes, q.qtype \notin NoOptionQtypes, NEW options \in ArrangementsOf[q],
         NEW b \in q.bodies, IsPlain(b), NEW t \in Texts, PlainCopy(t, b)
  PROVE  /\ Parts[t.word] = <<t.word>>
         /\ MatchPiece(t, options) = Places(b, options) /\ Places(b, options) # {}
<1>1. t.word = b.word /\ t.sign = "none" /\ b.sign = "none" /\ ~t.wrapped
  BY DEF PlainCopy, IsPlain
<1>2. Parts[t.word] = <<t.word>>
  BY <1>1 DEF IsPlain
<1>3. MatchPiece(t, options) = Places(b, options)
  BY <1>1, PlainMatches
<1>4. PICK i \in DOMAIN options : Places(b, options) = {i}
  BY OptionTexts
<1>5. QED
  BY <1>2, <1>3, <1>4

\* A content that is plain options says all of them in any order of the options.
LEMMA WholeContent ==
  ASSUME NEW q \in Quizzes, q.qtype \notin NoOptionQtypes, NEW options \in ArrangementsOf[q],
         NEW meant \in SUBSET q.bodies, \A b \in meant : IsPlain(b),
         NEW content \in Seq(Texts), q.qtype = "single" => Len(content) = 1,
         \A c \in Range(content) : \E b \in meant : PlainCopy(c, b),
         \A b \in meant : \E c \in Range(content) : PlainCopy(c, b)
  PROVE  /\ meant = {Body(options[i]) : i \in Matched(content, q.qtype, options)}
         /\ Unmatched(content, q.qtype, options) = <<>>
<1> DEFINE positions == {i \in DOMAIN options : Body(options[i]) \in meant}
<1>1. \A c \in Range(content) : c \in Texts
  BY DEF Range
<1>2. \A b \in meant : Places(b, options) \subseteq positions
  BY DEF Places
<1>3. ASSUME NEW c \in Range(content)
      PROVE  /\ Parts[c.word] = <<c.word>> /\ MatchPiece(c, options) # {}
             /\ MatchPiece(c, options) \subseteq positions
  <2>1. PICK b \in meant : PlainCopy(c, b)
    OBVIOUS
  <2>2. QED
    BY <1>1, <1>2, <2>1, PlainCopyMatches
<1>4. ASSUME NEW i \in positions
      PROVE  \E c \in Range(content) : i \in MatchPiece(c, options)
  <2>1. PICK c \in Range(content) : PlainCopy(c, Body(options[i]))
    OBVIOUS
  <2>2. MatchPiece(c, options) = Places(Body(options[i]), options)
    BY <1>1, <2>1, PlainCopyMatches
  <2>3. QED
    BY <2>2 DEF Places
<1>5. \A b \in meant : \E i \in positions : Body(options[i]) = b
  <2> SUFFICES ASSUME NEW b \in meant
               PROVE  \E i \in positions : Body(options[i]) = b
    OBVIOUS
  <2>1. PICK i \in DOMAIN options : Places(b, options) = {i}
    BY OptionTexts
  <2>2. QED
    BY <2>1 DEF Places
<1>6. meant = {Body(options[i]) : i \in positions}
  BY <1>5
<1> HIDE DEF positions
<1>7. Matched(content, q.qtype, options) = positions /\ Unmatched(content, q.qtype, options) = <<>>
  BY <1>3, <1>4, WholeTexts
<1>8. QED
  BY <1>6, <1>7

\* What a reply that means plain options is stored as, if nothing is left of the wrappers.
LEMMA PlainLearnt ==
  ASSUME NEW q \in Quizzes, q.qtype \notin NoOptionQtypes, NEW options \in ArrangementsOf[q],
         NEW answer \in Answers(q, Styles, options), \A b \in answer.meant : IsPlain(b),
         NEW wrapping \in Wrappings, StripWrappers(InLines(wrapping)) = <<>>,
         NEW bite \in Bites(answer.texts[1])
  PROVE  LET content == Content(Unwrap(answer.texts, InLines(wrapping), bite), q.qtype, options) IN
           /\ content \in Seq(Texts) /\ (q.qtype = "single" => Len(content) = 1)
           /\ \A c \in Range(content) : \E b \in answer.meant : PlainCopy(c, b)
           /\ \A b \in answer.meant : \E c \in Range(content) : PlainCopy(c, b)
<1> DEFINE texts == answer.texts
           meant == answer.meant
<1>1. Styles \in SUBSET (Styles \cup ImportStyles)
  OBVIOUS
<1>2. PICK positions \in Selections(q, options) :
        /\ meant = {Body(options[i]) : i \in positions}
        /\ texts \in Seq(Texts) /\ texts # <<>>
        /\ q.qtype = "single" => Len(texts) = 1
        /\ \A t \in Range(texts) : ~t.wrapped /\ Says(t, positions, q, options)
        /\ \A i \in positions : \E t \in Range(texts) : NamesIt(t, i, q, options)
  BY <1>1, AnswerParts
<1>3. /\ positions \subseteq DOMAIN options /\ positions # {}
      /\ q.qtype = "single" => Cardinality(positions) = 1
  BY DEF Selections
<1>4. meant \subseteq q.bodies
  BY MeantOfAnswers
<1> HIDE DEF texts, meant
<1>5. \A t \in Range(texts) : t \in Texts
  BY <1>2 DEF Range
<1>6. \A i \in positions : Body(options[i]) \in meant /\ IsPlain(Body(options[i]))
  BY <1>2 DEF meant
<1>o. options \in Seq(Texts)
  BY OptionTexts
<1>7. ASSUME NEW i \in positions
      PROVE  /\ \A t \in Texts : Copies(t, options[i]) /\ ~t.wrapped => PlainCopy(t, Body(options[i]))
             /\ PlainCopy(options[i], Body(options[i]))
             /\ Places(Body(options[i]), options) = {i}
  <2>1. /\ options[i].word = Body(options[i]).word /\ options[i].sign = Body(options[i]).sign
        /\ ~options[i].wrapped /\ Body(options[i]) \in q.bodies
    BY <1>3, OptionTexts
  <2>2. PICK j \in DOMAIN options : Places(Body(options[i]), options) = {j}
    BY <2>1, OptionTexts
  <2>3. j = i
    BY <1>3, <2>2 DEF Places
  <2>4. Body(options[i]).sign = "none"
    BY <1>6 DEF IsPlain
  <2>5. QED
    BY <2>1, <2>2, <2>3, <2>4 DEF Copies, PlainCopy
<1>8. ASSUME NEW t \in Range(texts)
      PROVE  /\ t.sign = "none" /\ Parts[t.word] = <<t.word>>
             /\ MatchPiece(t, options) # {} /\ MatchPiece(t, options) \subseteq positions
             /\ \A i \in positions : NamesIt(t, i, q, options) => i \in MatchPiece(t, options)
  <2>0. t \in Texts /\ t.word \in Words /\ ~t.wrapped /\ Says(t, positions, q, options)
    BY <1>2, <1>5 DEF Texts
  <2>1. ASSUME NEW i \in positions, Copies(t, options[i])
        PROVE  /\ t.sign = "none" /\ Parts[t.word] = <<t.word>> /\ MatchPiece(t, options) = {i}
               /\ Spelling[t.word] = <<>>
    <3>1. PlainCopy(t, Body(options[i])) /\ IsPlain(Body(options[i])) /\ Body(options[i]) \in q.bodies
      BY <1>4, <1>6, <1>7, <2>0, <2>1
    <3>2. Parts[t.word] = <<t.word>> /\ MatchPiece(t, options) = Places(Body(options[i]), options)
      BY <2>0, <3>1, PlainCopyMatches
    <3>3. QED
      BY <1>7, <3>1, <3>2 DEF PlainCopy, IsPlain
  <2>2. ASSUME Spells(t, q), Range(Spelling[t.word]) \subseteq positions
        PROVE  /\ t.sign = "none" /\ Parts[t.word] = <<t.word>>
               /\ MatchPiece(t, options) = Range(Spelling[t.word]) /\ Range(Spelling[t.word]) # {}
               /\ Spelling[t.word] # <<>>
    <3>1. t.sign = "none" /\ Letters(t, q) /\ Spelling[t.word] # <<>>
      BY <2>2 DEF Spells, Letters
    <3>2. Parts[t.word] = <<t.word>>
      BY <2>0, <3>1, PartsAssumption
    <3>3. MatchPiece(t, options) = Spelled(t.word, options)
      BY <2>0, <3>1, LettersMatch
    <3>4. Spelled(t.word, options) = Range(Spelling[t.word])
      BY <1>3, <2>2 DEF Spelled
    <3>5. Range(Spelling[t.word]) # {}
      <4>1. Spelling[t.word] \in Seq(Nat \ {0})
        BY <2>0, PartsParts
      <4>2. 1 \in DOMAIN Spelling[t.word]
        BY <3>1, <4>1
      <4>3. QED
        BY <4>2 DEF Range
    <3>6. QED
      BY <3>1, <3>2, <3>3, <3>4, <3>5
  <2>3. CASE \E i \in positions : Copies(t, options[i])
    <3>1. PICK i \in positions : Copies(t, options[i])
      BY <2>3
    <3>2. /\ t.sign = "none" /\ Parts[t.word] = <<t.word>> /\ MatchPiece(t, options) = {i}
          /\ Spelling[t.word] = <<>>
      BY <2>1, <3>1
    <3>3. ASSUME NEW j \in positions, NamesIt(t, j, q, options)
          PROVE  j \in MatchPiece(t, options)
      <4>1. Copies(t, options[j])
        BY <3>2, <3>3 DEF NamesIt, Spells, Letters
      <4>2. MatchPiece(t, options) = {j}
        BY <2>1, <4>1
      <4>3. QED
        BY <4>2
    <3>4. QED
      BY <3>2, <3>3
  <2>4. CASE Spells(t, q) /\ Range(Spelling[t.word]) \subseteq positions
    <3>1. /\ t.sign = "none" /\ Parts[t.word] = <<t.word>>
          /\ MatchPiece(t, options) = Range(Spelling[t.word]) /\ Range(Spelling[t.word]) # {}
          /\ Spelling[t.word] # <<>>
      BY <2>2, <2>4
    <3>2. ASSUME NEW j \in positions, NamesIt(t, j, q, options)
          PROVE  j \in MatchPiece(t, options)
      <4>1. ~Copies(t, options[j])
        BY <2>1, <3>1
      <4>2. QED
        BY <3>1, <3>2, <4>1 DEF NamesIt
    <3>3. QED
      BY <2>4, <3>1, <3>2
  <2>5. QED
    BY <2>0, <2>3, <2>4 DEF Says
<1>9. Unwrap(texts, InLines(wrapping), bite) = texts
  <2>1. 1 \in DOMAIN texts
    BY <1>2
  <2>2. texts[1] \in Range(texts)
    BY <2>1 DEF Range
  <2>3. texts[1].sign = "none" /\ ~texts[1].wrapped
    BY <1>2, <1>8, <2>2
  <2>4. Left(texts, InLines(wrapping)) = <<>> /\ Left(texts, InLines(wrapping)) # <<"bitten">>
    BY <2>3, InLinesParts
  <2>5. bite \in Bites(texts[1])
    BY DEF texts
  <2>6. QED
    BY <1>2, <2>3, <2>4, <2>5, UnwrapParts
<1>10. Matched(texts, q.qtype, options) = positions /\ Unmatched(texts, q.qtype, options) = <<>>
  BY <1>2, <1>8, WholeTexts
<1> DEFINE content == InOrder(positions, options)
<1>11. Content(texts, q.qtype, options) = content \o <<>>
  BY <1>10 DEF Content, NoOptionQtypes
<1>12. content \in Seq(Texts) /\ Range(content) = {options[i] : i \in positions \cap DOMAIN options}
  BY <1>o, InOrderRange
<1>13. q.qtype = "single" => Len(content) = 1
  <2> SUFFICES ASSUME q.qtype = "single"
               PROVE  Len(content) = 1
    OBVIOUS
  <2>1. IsFiniteSet(positions)
    <3>1. Cardinality(q.bodies) \in Nat
      BY QuizParts, FS_CardinalityType
    <3>2. IsFiniteSet(1..Cardinality(q.bodies))
      BY <3>1, FS_Interval
    <3>3. QED
      BY <1>3, <3>2, FS_Subset, OptionTexts
  <2>2. PICK i : positions = {i}
    BY <1>3, <2>1, FS_Singleton
  <2>3. i \in DOMAIN options
    BY <1>3, <2>2
  <2>4. content = <<options[i]>>
    BY <1>o, <2>2, <2>3, InOrderOne
  <2>5. QED
    BY <2>4
<1> HIDE DEF content
<1>14. Content(Unwrap(answer.texts, InLines(wrapping), bite), q.qtype, options) = content
  <2>1. content \o <<>> = content
    BY <1>12
  <2>2. QED
    BY <1>9, <1>11, <2>1 DEF texts
<1>15. Range(content) = {options[i] : i \in positions}
  BY <1>3, <1>12
<1>16. \A c \in Range(content) : \E b \in meant : PlainCopy(c, b)
  BY <1>6, <1>7, <1>15
<1>17. \A b \in meant : \E c \in Range(content) : PlainCopy(c, b)
  <2> SUFFICES ASSUME NEW b \in meant
               PROVE  \E c \in Range(content) : PlainCopy(c, b)
    OBVIOUS
  <2>1. PICK i \in positions : Body(options[i]) = b
    BY <1>2
  <2>2. QED
    BY <1>7, <1>15, <2>1
<1>18. QED
  BY <1>12, <1>13, <1>14, <1>16, <1>17 DEF meant

-----------------------------------------------------------------------------
(* Rows                                                                     *)

\* Right and Whole: what NeverAnotherOption and PlainAnswerComplete say of one answer.
Right(response, meant, cut, options, q) ==
  IF q.qtype \in NoOptionQtypes
    THEN \E t \in Range(response.raw) :
           /\ response.raw = <<t>>
           /\ \E b \in meant :
                \/ t.word \in Sayings(q, b)
                \/ cut /\ \E w \in Sayings(q, b) : t.word = Bitten[w]
    ELSE \A i \in response.letters : Body(options[i]) \in meant

Whole(response, meant, options, q) ==
  (\A b \in meant : IsPlain(b)) =>
    IF q.qtype \in NoOptionQtypes
      THEN \A t \in Range(response.raw) : Body(t).sign = "none" /\ ~t.wrapped
      ELSE /\ meant = {Body(options[i]) : i \in response.letters}
           /\ response.raw = <<>>

\* Three rounds strip every wrapping there is, if each fence opens with a line of its own.
Stripped == \A wrapping \in Wrappings : StripWrappers(InLines(wrapping)) = <<>>

\* A row is mapped rightly to any options of the question.
Sound(row, q) ==
  \A options \in ArrangementsOf[q] :
    LET response == Response(row.content, q.qtype, options) IN
      /\ Right(response, row.meant, row.cut, options, q)
      /\ Stripped /\ ~row.cut => Whole(response, row.meant, options, q)

\* A row of one text, where there are no options.
LEMMA OneText ==
  ASSUME NEW q \in Quizzes, q.qtype \in NoOptionQtypes, NEW row, NEW t, NEW b,
         row.content = <<t>>, row.meant = {b},
         t.word \in Sayings(q, b) \/ (row.cut /\ \E w \in Sayings(q, b) : t.word = Bitten[w]),
         Stripped /\ ~row.cut /\ IsPlain(b) => t.sign = "none" /\ ~t.wrapped
  PROVE  Sound(row, q)
<1> SUFFICES ASSUME NEW options \in ArrangementsOf[q]
             PROVE  LET response == Response(row.content, q.qtype, options) IN
                      /\ Right(response, row.meant, row.cut, options, q)
                      /\ Stripped /\ ~row.cut => Whole(response, row.meant, options, q)
  BY DEF Sound
<1> DEFINE response == Response(row.content, q.qtype, options)
<1>1. response.raw = <<t>>
  BY DEF Response
<1>2. Range(<<t>>) = {t}
  <2>1. DOMAIN <<t>> = {1} /\ <<t>>[1] = t
    OBVIOUS
  <2>2. QED
    BY <2>1 DEF Range
<1> HIDE DEF response
<1>3. Right(response, row.meant, row.cut, options, q)
  <2>1. t \in Range(response.raw) /\ b \in row.meant
    BY <1>1, <1>2
  <2>2. QED
    BY <1>1, <2>1 DEF Right
<1>4. Body(t).sign = t.sign
  BY DEF Body
<1>5. Stripped /\ ~row.cut => Whole(response, row.meant, options, q)
  BY <1>1, <1>2, <1>4 DEF Whole
<1>6. QED
  BY <1>3, <1>5 DEF response

LEMMA SaidText ==
  ASSUME NEW q \in Quizzes, q.qtype \in NoOptionQtypes, NEW options, NEW styles,
         NEW answer \in Answers(q, styles, options)
  PROVE  \E b \in q.bodies, t \in Texts :
           /\ answer.meant = {b} /\ answer.texts = <<t>>
           /\ t.word \in Sayings(q, b) /\ t.sign = b.sign /\ ~t.wrapped
<1> DEFINE text(b, w, label, style) == Text([sign |-> b.sign, word |-> w], label, style = "bulleted")
           said(b, style) ==
             {[texts |-> <<text(b, w, label, style)>>, meant |-> {b}] :
                w \in Sayings(q, b), label \in IF style = "listed" THEN {0, 1} ELSE {0}}
<1>1. Answers(q, styles, options) =
        UNION {said(b, style) : b \in q.bodies, style \in styles \cap {"plain", "listed", "bulleted"}}
  BY DEF Answers
<1> DEFINE manners == styles \cap {"plain", "listed", "bulleted"}
<1>2. PICK b \in q.bodies, style \in manners : answer \in said(b, style)
  <2> HIDE DEF said
  <2>1. QED
    BY <1>1
<1>3. \E w \in Sayings(q, b), label \in {0, 1} : answer = [texts |-> <<text(b, w, label, style)>>, meant |-> {b}]
  <2> HIDE DEF text
  <2>1. QED
    BY <1>2
<1>4. PICK w \in Sayings(q, b), label \in {0, 1} : answer = [texts |-> <<text(b, w, label, style)>>, meant |-> {b}]
  BY <1>3
<1>5. b.sign \in Signs /\ b.word \in Words
  BY QuizParts DEF Bodies
<1>6. w \in Words
  BY <1>5 DEF Sayings
<1> DEFINE t == text(b, w, label, style)
           bullet == style = "bulleted"
<1>7. t = [wrapped |-> FALSE, bullet |-> bullet, label |-> label, sign |-> b.sign, word |-> w]
  BY DEF Text
<1>8. bullet \in BOOLEAN
  OBVIOUS
<1> HIDE DEF text, said, bullet
<1>9. answer.texts = <<t>> /\ answer.meant = {b}
  BY <1>4
<1> HIDE DEF t
<1>10. t \in Texts /\ t.word = w /\ t.sign = b.sign /\ ~t.wrapped
  BY <1>5, <1>6, <1>7, <1>8 DEF Texts
<1>11. QED
  BY <1>9, <1>10

LEMMA SaidIsSound ==
  ASSUME NEW q \in Quizzes, q.qtype \in NoOptionQtypes, NEW options \in ArrangementsOf[q],
         NEW row \in LearntOf[q][options] \cup ImportedOf[q][options]
  PROVE  Sound(row, q)
<1>1. CASE row \in ImportedOf[q][options]
  <2>1. PICK answer \in Answers(q, ImportStyles, options) :
          row = [content |-> answer.texts, meant |-> answer.meant, cut |-> FALSE]
    BY <1>1 DEF ImportedOf
  <2>2. PICK b \in q.bodies, t \in Texts :
          /\ answer.meant = {b} /\ answer.texts = <<t>>
          /\ t.word \in Sayings(q, b) /\ t.sign = b.sign /\ ~t.wrapped
    BY SaidText
  <2>3. row.content = <<t>> /\ row.meant = {b}
    BY <2>1, <2>2
  <2>4. IsPlain(b) => t.sign = "none"
    BY <2>2 DEF IsPlain
  <2>5. QED
    BY <2>2, <2>3, <2>4, OneText
<1>2. CASE row \in LearntOf[q][options]
  <2>1. PICK reply \in Replies(q, options) :
          /\ Parses(reply.texts, q.qtype)
          /\ row = [content |-> Content(reply.texts, q.qtype, options), meant |-> reply.meant,
                    cut |-> reply.cut]
    BY <1>2 DEF LearntOf
  <2>2. PICK answer \in Answers(q, Styles, options), wrapping \in Wrappings :
          \E bite \in Bites(answer.texts[1]) :
            /\ reply.texts = Unwrap(answer.texts, wrapping, bite) /\ reply.meant = answer.meant
            /\ reply.cut <=> reply.texts # Unwrap(answer.texts, InLines(wrapping), bite)
    BY ReplyParts
  <2>3. PICK b \in q.bodies, t0 \in Texts :
          /\ answer.meant = {b} /\ answer.texts = <<t0>>
          /\ t0.word \in Sayings(q, b) /\ t0.sign = b.sign /\ ~t0.wrapped
    BY SaidText
  <2> DEFINE said == <<t0>>
  <2>4. PICK bite \in Bites(said[1]) :
          /\ reply.texts = Unwrap(said, wrapping, bite)
          /\ reply.cut <=> reply.texts # Unwrap(said, InLines(wrapping), bite)
    BY <2>2, <2>3
  <2>5. /\ said \in Seq(Texts) /\ said # <<>> /\ DOMAIN said = {1} /\ said[1] = t0 /\ Len(said) = 1
    OBVIOUS
  <2> HIDE DEF said
  <2>6. row.content = Content(reply.texts, q.qtype, options) /\ row.meant = {b} /\ row.cut = reply.cut
    BY <2>1, <2>2, <2>3
  <2> DEFINE t == reply.texts[1]
  <2>7. /\ reply.texts = <<t>> /\ t \in Texts
        /\ t.word \in Remains(t0.word)
    <3>1. /\ reply.texts \in Seq(Texts) /\ Len(reply.texts) <= 1
          /\ \A u \in Range(reply.texts) : Comes(u, said)
      BY <2>4, <2>5, UnwrapParts
    <3>2. reply.texts # <<>>
      BY <2>1 DEF Parses
    <3> DEFINE out == reply.texts
    <3>3. out \in Seq(Texts) /\ Len(out) <= 1 /\ out # <<>>
      BY <3>1, <3>2
    <3> HIDE DEF out
    <3>4. Len(out) = 1 /\ 1 \in DOMAIN out /\ out[1] \in Texts /\ out = <<out[1]>>
      <4> DEFINE n == Len(out)
      <4>0. n \in Nat /\ n <= 1 /\ n # 0
        BY <3>3
      <4> HIDE DEF n
      <4>o. n = 1
        BY <4>0
      <4>1. Len(out) = 1
        BY <4>o DEF n
      <4>2. out = <<out[1]>>
        BY <3>3, <4>1
      <4>3. QED
        BY <3>3, <4>1, <4>2
    <3>5. out[1] \in Range(out)
      BY <3>4 DEF Range
    <3>6. Comes(out[1], said)
      BY <3>1, <3>5 DEF out
    <3>7. out[1].word \in Remains(t0.word)
      BY <2>5, <3>6 DEF Comes
    <3>8. QED
      BY <3>4, <3>7 DEF out
  <2>8. ASSUME ~row.cut
        PROVE  t.word = t0.word /\ (Stripped /\ IsPlain(b) => t = t0)
    <3>1. reply.texts = Unwrap(said, InLines(wrapping), bite)
      BY <2>4, <2>6, <2>8
    <3>2. /\ Left(said, InLines(wrapping)) # <<"bitten">>
          /\ said[1].sign = "none" => Left(said, InLines(wrapping)) = StripWrappers(InLines(wrapping))
      BY InLinesParts
    <3>3. t.word = t0.word
      BY <2>5, <3>1, <3>2, UnwrapParts
    <3>4. ASSUME Stripped, IsPlain(b)
          PROVE  t = t0
      <4>1. said[1].sign = "none" /\ ~said[1].wrapped /\ StripWrappers(InLines(wrapping)) = <<>>
        BY <2>3, <2>5, <3>4 DEF Stripped, IsPlain
      <4>2. Unwrap(said, InLines(wrapping), bite) = said
        BY <2>5, <3>2, <4>1, UnwrapParts
      <4>3. QED
        BY <2>5, <3>1, <4>2
    <3>5. QED
      BY <3>3, <3>4
  <2>w. t0.word \in Words /\ (t.word = t0.word \/ (t.word = Bitten[t0.word] /\ Bitten[t0.word] # None))
    BY <2>3, <2>7 DEF Texts, Remains
  <2>c. Content(reply.texts, q.qtype, options) =
          IF q.qtype = "judgement" THEN <<AsIs(Judged(reply.texts))>> ELSE reply.texts
    BY DEF Content, NoOptionQtypes
  <2> HIDE DEF t
  <2>9. CASE q.qtype = "completion"
    <3>1. row.content = <<t>>
      BY <2>6, <2>7, <2>9, <2>c
    <3>2. Stripped /\ ~row.cut /\ IsPlain(b) => t.sign = "none" /\ ~t.wrapped
      BY <2>3, <2>8 DEF IsPlain
    <3>3. t.word \in Sayings(q, b) \/ (row.cut /\ \E w \in Sayings(q, b) : t.word = Bitten[w])
      BY <2>3, <2>8, <2>w
    <3>4. QED
      BY <2>6, <3>1, <3>2, <3>3, OneText
  <2>10. CASE q.qtype = "judgement"
    <3>1. Judged(<<t>>) # None
      BY <2>1, <2>7, <2>10 DEF Parses
    <3>2. Len(<<t>>) = 1 /\ <<t>>[1] = t
      OBVIOUS
    <3>3. Judged(<<t>>) = Verdict[t.word] /\ Verdict[t.word] # None
      BY <3>1, <3>2 DEF Judged
    <3>4. Verdict[t0.word] = b.word
      BY <2>3, <2>10 DEF Sayings
    <3>b. b.word \in Words /\ b.word # None
      BY QuizParts, BittenAssumption DEF Bodies
    <3>v. Verdict[t.word] = b.word
      <4>1. CASE t.word = t0.word
        BY <3>4, <4>1
      <4>2. CASE t.word = Bitten[t0.word] /\ Bitten[t0.word] # None
        BY <2>w, <3>3, <3>4, <3>b, <4>2, BittenAssumption
      <4>3. QED
        BY <2>w, <4>1, <4>2
    <3>5. Verdict[b.word] = b.word
      BY <2>w, <3>4, <3>b, SetsAssumption
    <3> DEFINE u == AsIs(b.word)
    <3>6. u.word = b.word /\ u.sign = "none" /\ ~u.wrapped
      BY <3>b, AsIsParts
    <3>7. row.content = <<u>>
      BY <2>6, <2>7, <2>10, <2>c, <3>3, <3>v
    <3> HIDE DEF u
    <3>8. u.word \in Sayings(q, b)
      BY <2>10, <3>b, <3>5, <3>6 DEF Sayings
    <3>9. QED
      BY <2>6, <3>6, <3>7, <3>8, OneText
  <2>11. QED
    BY <2>9, <2>10 DEF NoOptionQtypes
<1>3. QED
  BY <1>1, <1>2

LEMMA OptionsAreSound ==
  ASSUME NEW q \in Quizzes, q.qtype \notin NoOptionQtypes, NEW options \in ArrangementsOf[q],
         NEW row \in LearntOf[q][options] \cup ImportedOf[q][options]
  PROVE  Sound(row, q)
<1>1. row.meant \in SUBSET q.bodies
  BY MeantOfRows
<1>2. /\ row.content \in Seq(Texts)
      /\ \A c \in Range(row.content) : Good(c, row.meant, q)
      /\ Stripped /\ ~row.cut /\ (\A b \in row.meant : IsPlain(b)) =>
           /\ q.qtype = "single" => Len(row.content) = 1
           /\ \A c \in Range(row.content) : \E b \in row.meant : PlainCopy(c, b)
           /\ \A b \in row.meant : \E c \in Range(row.content) : PlainCopy(c, b)
  <2>1. CASE row \in LearntOf[q][options]
    <3>1. PICK reply \in Replies(q, options) :
            row = [content |-> Content(reply.texts, q.qtype, options), meant |-> reply.meant,
                   cut |-> reply.cut]
      BY <2>1 DEF LearntOf
    <3>2. /\ row.content = Content(reply.texts, q.qtype, options) /\ row.meant = reply.meant
          /\ row.cut = reply.cut
      BY <3>1
    <3>3. PICK answer \in Answers(q, Styles, options), wrapping \in Wrappings :
            \E bite \in Bites(answer.texts[1]) :
              /\ reply.meant = answer.meant
              /\ reply.cut <=> reply.texts # Unwrap(answer.texts, InLines(wrapping), bite)
      BY ReplyParts
    <3>4. PICK bite \in Bites(answer.texts[1]) :
            /\ reply.meant = answer.meant
            /\ reply.cut <=> reply.texts # Unwrap(answer.texts, InLines(wrapping), bite)
      BY <3>3
    <3>5. /\ row.content \in Seq(Texts) /\ \A c \in Range(row.content) : Good(c, row.meant, q)
      BY <3>2, ReplyFits, LearntContent
    <3>6. ASSUME Stripped, ~row.cut, \A b \in row.meant : IsPlain(b)
          PROVE  /\ q.qtype = "single" => Len(row.content) = 1
                 /\ \A c \in Range(row.content) : \E b \in row.meant : PlainCopy(c, b)
                 /\ \A b \in row.meant : \E c \in Range(row.content) : PlainCopy(c, b)
      <4>1. StripWrappers(InLines(wrapping)) = <<>> /\ \A b \in answer.meant : IsPlain(b)
        BY <3>2, <3>4, <3>6 DEF Stripped
      <4>2. reply.texts = Unwrap(answer.texts, InLines(wrapping), bite)
        BY <3>2, <3>4, <3>6
      <4>3. /\ row.content = Content(Unwrap(answer.texts, InLines(wrapping), bite), q.qtype, options)
            /\ row.meant = answer.meant
        BY <3>2, <3>4, <4>2
      <4>4. QED
        BY <4>1, <4>3, PlainLearnt
    <3>7. QED
      BY <3>5, <3>6
  <2>2. CASE row \in ImportedOf[q][options]
    <3>1. PICK answer \in Answers(q, ImportStyles, options) :
            row = [content |-> answer.texts, meant |-> answer.meant, cut |-> FALSE]
      BY <2>2 DEF ImportedOf
    <3>2. row.content = answer.texts /\ row.meant = answer.meant
      BY <3>1
    <3>3. ImportStyles \in SUBSET (Styles \cup ImportStyles) /\ ImportStyles \cap {"letters", "spelled"} = {}
      BY LettersAssumption
    <3>4. PICK positions \in Selections(q, options) :
            /\ answer.meant = {Body(options[i]) : i \in positions}
            /\ answer.texts \in Seq(Texts)
            /\ q.qtype = "single" => Len(answer.texts) = 1
            /\ \A t \in Range(answer.texts) : ~t.wrapped /\ \E i \in positions : Copies(t, options[i])
            /\ \A i \in positions : \E t \in Range(answer.texts) : NamesIt(t, i, q, options)
      BY <3>3, AnswerParts
    <3>5. positions \subseteq DOMAIN options
      BY DEF Selections
    <3>6. \A i \in positions : /\ options[i].word = Body(options[i]).word
                               /\ options[i].sign = Body(options[i]).sign
                               /\ Body(options[i]) \in q.bodies
      BY <3>5, OptionTexts
    <3>7. ASSUME NEW t \in Range(row.content)
          PROVE  Good(t, row.meant, q)
      <4>1. PICK i \in positions : Copies(t, options[i])
        BY <3>2, <3>4
      <4>2. OfOption(t, Body(options[i])) /\ Body(options[i]) \in row.meant
        BY <3>2, <3>4, <3>6, <4>1, QuizParts, WordsParts DEF Copies, OfOption, Bodies
      <4>3. QED
        BY <4>2 DEF Good
    <3>8. ASSUME \A b \in row.meant : IsPlain(b)
          PROVE  /\ q.qtype = "single" => Len(row.content) = 1
                 /\ \A c \in Range(row.content) : \E b \in row.meant : PlainCopy(c, b)
                 /\ \A b \in row.meant : \E c \in Range(row.content) : PlainCopy(c, b)
      <4>1. ASSUME NEW c \in Range(row.content), NEW i \in positions, Copies(c, options[i])
            PROVE  PlainCopy(c, Body(options[i])) /\ Body(options[i]) \in row.meant
        <5>1. Body(options[i]) \in row.meant
          BY <3>2, <3>4
        <5>2. Body(options[i]).sign = "none"
          BY <3>8, <5>1 DEF IsPlain
        <5>3. ~c.wrapped
          BY <3>2, <3>4
        <5>4. QED
          BY <3>6, <4>1, <5>1, <5>2, <5>3 DEF Copies, PlainCopy
      <4>2. \A c \in Range(row.content) : \E b \in row.meant : PlainCopy(c, b)
        BY <3>2, <3>4, <4>1
      <4>3. ASSUME NEW b \in row.meant
            PROVE  \E c \in Range(row.content) : PlainCopy(c, b)
        <5>1. PICK i \in positions : b = Body(options[i])
          BY <3>2, <3>4
        <5>2. PICK t \in Range(row.content) : NamesIt(t, i, q, options)
          BY <3>2, <3>4
        <5>3. CASE Copies(t, options[i])
          BY <4>1, <5>1, <5>3
        <5>4. CASE Spells(t, q)
          <6>1. PICK j \in positions : Copies(t, options[j])
            BY <3>2, <3>4
          <6>2. t.word = Body(options[j]).word /\ Body(options[j]) \in q.bodies
            BY <3>6, <6>1 DEF Copies
          <6>3. QED
            BY <5>4, <6>2 DEF Spells, Letters
        <5>5. QED
          BY <5>2, <5>3, <5>4 DEF NamesIt
      <4>4. QED
        BY <3>2, <3>4, <4>2, <4>3
    <3>9. QED
      BY <3>2, <3>4, <3>7, <3>8
  <2>3. QED
    BY <2>1, <2>2
<1>3. ASSUME NEW other \in ArrangementsOf[q]
      PROVE  LET response == Response(row.content, q.qtype, other) IN
               /\ Right(response, row.meant, row.cut, other, q)
               /\ Stripped /\ ~row.cut => Whole(response, row.meant, other, q)
  <2> DEFINE response == Response(row.content, q.qtype, other)
  <2>1. /\ response.letters = Matched(row.content, q.qtype, other)
        /\ response.raw = Unmatched(row.content, q.qtype, other)
    BY DEF Response
  <2> HIDE DEF response
  <2>2. Right(response, row.meant, row.cut, other, q)
    BY <1>1, <1>2, <2>1, GoodContent DEF Right
  <2>3. ASSUME Stripped, ~row.cut, \A b \in row.meant : IsPlain(b)
        PROVE  /\ row.meant = {Body(other[i]) : i \in response.letters}
               /\ response.raw = <<>>
    <3>1. /\ q.qtype = "single" => Len(row.content) = 1
          /\ \A c \in Range(row.content) : \E b \in row.meant : PlainCopy(c, b)
          /\ \A b \in row.meant : \E c \in Range(row.content) : PlainCopy(c, b)
      BY <1>2, <2>3
    <3>2. /\ row.meant = {Body(other[i]) : i \in Matched(row.content, q.qtype, other)}
          /\ Unmatched(row.content, q.qtype, other) = <<>>
      BY <1>1, <1>2, <2>3, <3>1, WholeContent
    <3>3. QED
      BY <2>1, <3>2
  <2>4. Stripped /\ ~row.cut => Whole(response, row.meant, other, q)
    BY <2>3 DEF Whole
  <2>5. QED
    BY <2>2, <2>4 DEF response
<1>4. QED
  BY <1>3 DEF Sound

LEMMA RowsAreSound ==
  ASSUME NEW q \in Quizzes, NEW options \in ArrangementsOf[q],
         NEW row \in LearntOf[q][options] \cup ImportedOf[q][options]
  PROVE  Sound(row, q)
BY SaidIsSound, OptionsAreSound


LEMMA OnlyOneKey ==
  ASSUME quiz \in Quizzes
  PROVE  \A k \in Keys : k = OnlyKey(quiz)
<1>1. Keys = {CacheKey(options, quiz.qtype) : options \in ArrangementsOf[quiz]}
  BY DEF Keys, KeysOf
<1>2. QED
  BY <1>1, OneKey

LEMMA KeyOfArrangement ==
  ASSUME quiz \in Quizzes, NEW options \in Arrangements
  PROVE  CacheKey(options, quiz.qtype) \in Keys /\ options \in ArrangementsOf[quiz]
BY DEF Keys, KeysOf, Arrangements

\* The tables have an entry for every key, the list of requests one for every request.
Shape == DOMAIN rows = Keys /\ DOMAIN flights = Keys /\ DOMAIN asked = Requests

LEMMA QuizStays ==
  ASSUME quiz' = quiz
  PROVE  Keys' = Keys /\ Arrangements' = Arrangements
BY DEF Keys, Arrangements

\* Every step is one of these.
LEMMA Steps ==
  ASSUME Next
  PROVE  \/ \E options \in Arrangements, r \in Requests : Hit(r, options)
         \/ \E options \in Arrangements, r \in Requests : Launch(r, options)
         \/ \E options \in Arrangements, r \in Requests : Join(r, options)
         \/ \E options \in Arrangements : Import(options)
         \/ \E key \in Keys : Land(key)
         \/ \E key \in Keys : LandFails(key)
         \/ \E key \in Keys : Evict(key)
BY DEF Next

LEMMA ShapeStep ==
  ASSUME Shape, [Next]_vars
  PROVE  Shape' /\ quiz' = quiz
<1> USE QuizStays DEF Shape
<1>1. ASSUME NEW options \in Arrangements, NEW r \in Requests,
             Hit(r, options) \/ Launch(r, options) \/ Join(r, options)
      PROVE  Shape' /\ quiz' = quiz
  BY <1>1 DEF Hit, Launch, Join
<1>2. ASSUME NEW options \in Arrangements, Import(options)
      PROVE  Shape' /\ quiz' = quiz
  BY <1>2 DEF Import
<1>3. ASSUME NEW key \in Keys, Land(key)
      PROVE  Shape' /\ quiz' = quiz
  BY <1>3 DEF Land
<1>4. ASSUME NEW key \in Keys, LandFails(key)
      PROVE  Shape' /\ quiz' = quiz
  BY <1>4 DEF LandFails
<1>5. ASSUME NEW key \in Keys, Evict(key)
      PROVE  Shape' /\ quiz' = quiz
  BY <1>5 DEF Evict
<1>6. CASE UNCHANGED vars
  BY <1>6 DEF vars
<1>7. QED
  BY Steps, <1>1, <1>2, <1>3, <1>4, <1>5, <1>6

\* The conjuncts of TypeOK.
RowsTyped == \A k \in Keys : rows[k] # None => rows[k].meant \subseteq quiz.bodies
FlightsTyped == \A k \in Keys : flights[k] \in Arrangements \cup {None}
AskedTyped ==
  \A r \in Requests : asked[r] # None => asked[r].stage \in Stages /\ asked[r].options \in Arrangements
WaitersFly == \A k \in Keys : (\E r \in Requests : IsWaiting(r, k)) => flights[k] # None

LEMMA TypeParts == TypeOK <=> quiz \in Quizzes /\ RowsTyped /\ FlightsTyped /\ AskedTyped /\ WaitersFly
BY DEF TypeOK, RowsTyped, FlightsTyped, AskedTyped, WaitersFly

LEMMA TypeStep ==
  ASSUME TypeOK, Shape, [Next]_vars
  PROVE  TypeOK'
<1> USE DEF RowsTyped, FlightsTyped, AskedTyped
<1>q. quiz \in Quizzes /\ quiz' = quiz /\ Keys' = Keys /\ Arrangements' = Arrangements
  BY ShapeStep, QuizStays DEF TypeOK, WaitersFly
<1>t. RowsTyped /\ FlightsTyped /\ AskedTyped /\ WaitersFly
  BY TypeParts
<1>m. \A options \in Arrangements : \A row \in LearntOf[quiz][options] \cup ImportedOf[quiz][options] :
        row.meant \subseteq quiz.bodies
  BY <1>q, MeantOfRows, KeyOfArrangement
<1>n. \A options \in Arrangements : options # None
  BY <1>q, NoneAssumption DEF Arrangements
<1>1. ASSUME NEW options \in Arrangements, NEW r \in Requests, Hit(r, options)
      PROVE  TypeOK'
  <2>1. /\ UNCHANGED <<rows, flights>>
        /\ asked'[r] # None => asked'[r].stage = "hit" /\ asked'[r].options = options
        /\ \A p \in Requests \ {r} : asked'[p] = asked[p]
        /\ asked[r] = None
    BY <1>1 DEF Hit, Answered, Shape
  <2>2. RowsTyped' /\ FlightsTyped' /\ AskedTyped'
    BY <1>q, <1>t, <2>1 DEF Stages
  <2>3. \A p \in Requests : \A k : IsWaiting(p, k)' => IsWaiting(p, k)
    BY <1>q, <2>1 DEF IsWaiting
  <2>4. WaitersFly'
    BY <1>q, <1>t, <2>1, <2>3 DEF WaitersFly
  <2>5. QED
    BY <1>q, <2>2, <2>4 DEF TypeOK, WaitersFly
<1>2. ASSUME NEW options \in Arrangements, NEW r \in Requests, Launch(r, options) \/ Join(r, options)
      PROVE  TypeOK'
  <2> DEFINE key == CacheKey(options, quiz.qtype)
  <2>1. /\ rows' = rows
        /\ asked'[r] # None => asked'[r].stage \in {"launcher", "joiner"} /\ asked'[r].options = options
        /\ \A p \in Requests \ {r} : asked'[p] = asked[p]
        /\ asked[r] = None
    BY <1>2 DEF Launch, Join, Waiting, Shape
  <2>k. key \in Keys
    BY <1>q, KeyOfArrangement
  <2>2. /\ flights'[key] # None
        /\ flights' = flights \/ flights' = [flights EXCEPT ![key] = options]
    BY <1>2, <1>n, <2>k DEF Launch, Join, Shape
  <2>3. RowsTyped' /\ FlightsTyped' /\ AskedTyped'
    BY <1>q, <1>t, <2>1, <2>2, <2>k DEF Stages, Shape
  <2>4. ASSUME NEW k \in Keys, NEW p \in Requests, IsWaiting(p, k)'
        PROVE  flights'[k] # None
    <3>1. CASE p = r
      BY <1>q, <2>1, <2>2, <2>4, <3>1 DEF IsWaiting
    <3>2. CASE p # r
      <4>1. IsWaiting(p, k)
        BY <1>q, <2>1, <2>4, <3>2 DEF IsWaiting
      <4>2. QED
        BY <1>t, <1>n, <2>2, <2>k, <4>1 DEF WaitersFly, Shape
    <3>3. QED
      BY <3>1, <3>2
  <2>5. WaitersFly'
    BY <1>q, <2>4 DEF WaitersFly
  <2>6. QED
    BY <1>q, <2>3, <2>5 DEF TypeOK, WaitersFly
<1>3. ASSUME NEW options \in Arrangements, Import(options)
      PROVE  TypeOK'
  <2>1. PICK row \in ImportedOf[quiz][options] :
          rows' = [rows EXCEPT ![CacheKey(options, quiz.qtype)] = row]
    BY <1>3 DEF Import
  <2>2. RowsTyped'
    BY <1>q, <1>t, <1>m, <2>1 DEF Shape
  <2>3. UNCHANGED <<flights, asked>>
    BY <1>3 DEF Import
  <2>4. FlightsTyped' /\ AskedTyped'
    BY <1>q, <1>t, <2>3
  <2>5. WaitersFly'
    BY <1>q, <1>t, <2>3 DEF WaitersFly, IsWaiting
  <2>6. QED
    BY <1>q, <2>2, <2>4, <2>5 DEF TypeOK, WaitersFly
<1>4. ASSUME NEW key \in Keys, Land(key)
      PROVE  TypeOK'
  <2>1. PICK row \in LearntOf[quiz][flights[key]] :
          /\ rows' = [rows EXCEPT ![key] = IF rows[key] = None THEN row ELSE rows[key]]
          /\ asked' = [r \in Requests |->
                         IF IsWaiting(r, key)
                           THEN Answered(IF asked[r].stage = "launcher" THEN "launched" ELSE "joined",
                                         asked[r].options, row, flights[key])
                           ELSE asked[r]]
    BY <1>4 DEF Land
  <2>2. flights[key] # None /\ flights' = [flights EXCEPT ![key] = None]
    BY <1>4 DEF Land
  <2>3. row.meant \subseteq quiz.bodies
    BY <1>m, <1>t, <2>2
  <2>4. RowsTyped'
    BY <1>q, <1>t, <2>1, <2>3 DEF Shape
  <2>5. FlightsTyped'
    BY <1>q, <1>t, <2>2 DEF Shape
  <2>6. \A r \in Requests :
          /\ IsWaiting(r, key) => /\ asked'[r].stage \in {"launched", "joined"}
                                  /\ asked'[r].options = asked[r].options
          /\ ~IsWaiting(r, key) => asked'[r] = asked[r]
    BY <2>1 DEF Answered
  <2>7. AskedTyped'
    BY <1>q, <1>t, <2>6 DEF Stages, IsWaiting
  <2>8. ASSUME NEW k \in Keys, NEW r \in Requests, IsWaiting(r, k)'
        PROVE  flights'[k] # None
    <3>1. ~IsWaiting(r, key) /\ asked'[r] = asked[r]
      BY <1>q, <2>6, <2>8 DEF IsWaiting
    <3>2. IsWaiting(r, k) /\ k # key
      BY <1>q, <2>8, <3>1 DEF IsWaiting
    <3>3. QED
      BY <1>t, <2>2, <3>2 DEF WaitersFly, Shape
  <2>9. WaitersFly'
    BY <1>q, <2>8 DEF WaitersFly
  <2>10. QED
    BY <1>q, <2>4, <2>5, <2>7, <2>9 DEF TypeOK, WaitersFly
<1>5. ASSUME NEW key \in Keys, LandFails(key)
      PROVE  TypeOK'
  <2>1. /\ flights' = [flights EXCEPT ![key] = None] /\ rows' = rows
        /\ \A r \in Requests :
             /\ IsWaiting(r, key) => asked'[r].stage = "failed" /\ asked'[r].options = asked[r].options
             /\ ~IsWaiting(r, key) => asked'[r] = asked[r]
    BY <1>5 DEF LandFails, Waiting
  <2>2. RowsTyped' /\ FlightsTyped'
    BY <1>q, <1>t, <2>1 DEF Shape
  <2>3. AskedTyped'
    BY <1>q, <1>t, <2>1 DEF Stages, IsWaiting
  <2>4. ASSUME NEW k \in Keys, NEW r \in Requests, IsWaiting(r, k)'
        PROVE  flights'[k] # None
    <3>1. ~IsWaiting(r, key) /\ asked'[r] = asked[r]
      BY <1>q, <2>1, <2>4 DEF IsWaiting
    <3>2. IsWaiting(r, k) /\ k # key
      BY <1>q, <2>4, <3>1 DEF IsWaiting
    <3>3. QED
      BY <1>t, <2>1, <3>2 DEF WaitersFly, Shape
  <2>5. WaitersFly'
    BY <1>q, <2>4 DEF WaitersFly
  <2>6. QED
    BY <1>q, <2>2, <2>3, <2>5 DEF TypeOK, WaitersFly
<1>6. ASSUME NEW key \in Keys, Evict(key)
      PROVE  TypeOK'
  <2>1. rows' = [rows EXCEPT ![key] = None] /\ UNCHANGED <<flights, asked>>
    BY <1>6 DEF Evict
  <2>2. RowsTyped' /\ FlightsTyped' /\ AskedTyped'
    BY <1>q, <1>t, <2>1 DEF Shape
  <2>3. WaitersFly'
    BY <1>q, <1>t, <2>1 DEF WaitersFly, IsWaiting
  <2>4. QED
    BY <1>q, <2>2, <2>3 DEF TypeOK, WaitersFly
<1>7. CASE UNCHANGED vars
  <2>1. UNCHANGED <<rows, flights, asked>>
    BY <1>7 DEF vars
  <2>2. RowsTyped' /\ FlightsTyped' /\ AskedTyped'
    BY <1>q, <1>t, <2>1
  <2>3. WaitersFly'
    BY <1>q, <1>t, <2>1 DEF WaitersFly, IsWaiting
  <2>4. QED
    BY <1>q, <2>2, <2>3 DEF TypeOK, WaitersFly
<1>8. QED
  BY Steps, <1>1, <1>2, <1>3, <1>4, <1>5, <1>6, <1>7

\* Who launched a task waits for one with its own options.
LaunchersFly ==
  \A k \in Keys, r \in Requests :
    IsWaiting(r, k) /\ asked[r].stage = "launcher" => flights[k] = asked[r].options

RowsSound == \A k \in Keys : rows[k] # None => Sound(rows[k], quiz)

\* ToldSound: what hits and launchers were told is right, and whole where nothing is left
\* of any wrapping.
Satisfied(answer, q) ==
  /\ Right(answer.response, answer.meant, answer.cut, answer.options, q)
  /\ Stripped /\ ~answer.cut => Whole(answer.response, answer.meant, answer.options, q)

ToldSound == \A r \in Requests : Told(r, {"hit", "launched"}) => Satisfied(asked[r], quiz)

\* The inductive invariant.
Inv == TypeOK /\ Shape /\ LaunchersFly /\ RowsSound /\ ToldSound

LEMMA InitInv ==
  ASSUME Init
  PROVE  Inv
<1> USE DEF Init
<1>1. Shape
  BY DEF Shape
<1>2. TypeOK
  BY DEF TypeOK, IsWaiting
<1>3. LaunchersFly /\ RowsSound /\ ToldSound
  BY DEF LaunchersFly, RowsSound, ToldSound, IsWaiting, Told
<1>4. QED
  BY <1>1, <1>2, <1>3 DEF Inv

LEMMA LaunchersStep ==
  ASSUME TypeOK, Shape, LaunchersFly, [Next]_vars
  PROVE  LaunchersFly'
<1>q. quiz \in Quizzes /\ quiz' = quiz /\ Keys' = Keys /\ Arrangements' = Arrangements
  BY ShapeStep, QuizStays DEF TypeOK
<1>w. WaitersFly
  BY TypeParts
<1>n. \A options \in Arrangements : options # None
  BY <1>q, NoneAssumption DEF Arrangements
<1> SUFFICES ASSUME NEW k \in Keys, NEW p \in Requests, IsWaiting(p, k)', asked'[p].stage = "launcher"
             PROVE  flights'[k] = asked'[p].options
  BY <1>q DEF LaunchersFly
<1>1. ASSUME NEW options \in Arrangements, NEW r \in Requests, Hit(r, options)
      PROVE  flights'[k] = asked'[p].options
  <2>1. flights' = flights /\ asked'[r].stage = "hit" /\ \A s \in Requests \ {r} : asked'[s] = asked[s]
    BY <1>1 DEF Hit, Answered, Shape
  <2>2. p # r
    BY <2>1
  <2>3. IsWaiting(p, k)
    BY <1>q, <2>1, <2>2 DEF IsWaiting
  <2>4. QED
    BY <2>1, <2>2, <2>3 DEF LaunchersFly
<1>2. ASSUME NEW options \in Arrangements, NEW r \in Requests, Launch(r, options)
      PROVE  flights'[k] = asked'[p].options
  <2> DEFINE key == CacheKey(options, quiz.qtype)
  <2>k. key \in Keys
    BY <1>q, KeyOfArrangement
  <2>1. /\ flights' = [flights EXCEPT ![key] = options] /\ flights[key] = None
        /\ asked'[r].options = options /\ \A s \in Requests \ {r} : asked'[s] = asked[s]
    BY <1>2 DEF Launch, Waiting, Shape
  <2>2. k = key
    BY <1>q, <2>k, OnlyOneKey
  <2> HIDE DEF key
  <2>3. CASE p = r
    BY <2>1, <2>2, <2>3 DEF Shape
  <2>4. CASE p # r
    <3>1. IsWaiting(p, k)
      BY <1>q, <2>1, <2>4 DEF IsWaiting
    <3>2. QED
      BY <1>w, <2>1, <2>2, <3>1 DEF WaitersFly
  <2>5. QED
    BY <2>3, <2>4
<1>3. ASSUME NEW options \in Arrangements, NEW r \in Requests, Join(r, options)
      PROVE  flights'[k] = asked'[p].options
  <2>1. flights' = flights /\ asked'[r].stage = "joiner" /\ \A s \in Requests \ {r} : asked'[s] = asked[s]
    BY <1>3 DEF Join, Waiting, Shape
  <2>2. p # r
    BY <2>1
  <2>3. IsWaiting(p, k)
    BY <1>q, <2>1, <2>2 DEF IsWaiting
  <2>4. QED
    BY <2>1, <2>2, <2>3 DEF LaunchersFly
<1>4. ASSUME UNCHANGED <<flights, asked>>
      PROVE  flights'[k] = asked'[p].options
  BY <1>q, <1>4 DEF LaunchersFly, IsWaiting
<1>5. ASSUME NEW key \in Keys, flights' = [flights EXCEPT ![key] = None],
             \A s \in Requests : /\ IsWaiting(s, key) => asked'[s].stage \notin {"launcher", "joiner"}
                                 /\ ~IsWaiting(s, key) => asked'[s] = asked[s]
      PROVE  flights'[k] = asked'[p].options
  <2>1. ~IsWaiting(p, key)
    BY <1>5
  <2>2. asked'[p] = asked[p]
    BY <1>5, <2>1
  <2>3. IsWaiting(p, k)
    BY <1>q, <2>2 DEF IsWaiting
  <2>4. k # key
    BY <2>1, <2>3
  <2>5. flights'[k] = flights[k]
    BY <1>5, <2>4 DEF Shape
  <2>6. QED
    BY <2>2, <2>3, <2>5 DEF LaunchersFly
<1>6. ASSUME NEW options \in Arrangements, Import(options)
      PROVE  flights'[k] = asked'[p].options
  BY <1>4, <1>6 DEF Import
<1>7. ASSUME NEW key \in Keys, Land(key)
      PROVE  flights'[k] = asked'[p].options
  <2>1. flights' = [flights EXCEPT ![key] = None]
    BY <1>7 DEF Land
  <2>2. \A s \in Requests : /\ IsWaiting(s, key) => asked'[s].stage \notin {"launcher", "joiner"}
                            /\ ~IsWaiting(s, key) => asked'[s] = asked[s]
    BY <1>7 DEF Land, Answered
  <2>3. QED
    BY <1>5, <2>1, <2>2
<1>8. ASSUME NEW key \in Keys, LandFails(key)
      PROVE  flights'[k] = asked'[p].options
  <2>1. flights' = [flights EXCEPT ![key] = None]
    BY <1>8 DEF LandFails
  <2>2. \A s \in Requests : /\ IsWaiting(s, key) => asked'[s].stage \notin {"launcher", "joiner"}
                            /\ ~IsWaiting(s, key) => asked'[s] = asked[s]
    BY <1>8 DEF LandFails, Waiting
  <2>3. QED
    BY <1>5, <2>1, <2>2
<1>9. ASSUME NEW key \in Keys, Evict(key)
      PROVE  flights'[k] = asked'[p].options
  BY <1>4, <1>9 DEF Evict
<1>10. CASE UNCHANGED vars
  BY <1>4, <1>10 DEF vars
<1>11. QED
  BY Steps, <1>1, <1>2, <1>3, <1>6, <1>7, <1>8, <1>9, <1>10

\* An answer made from a sound row satisfies who has the options it was mapped to.
LEMMA SoundAnswer ==
  ASSUME quiz \in Quizzes, NEW row, Sound(row, quiz), NEW options \in Arrangements, NEW how
  PROVE  Satisfied(Answered(how, options, row, options), quiz)
<1> DEFINE answer == Answered(how, options, row, options)
           response == Response(row.content, quiz.qtype, options)
<1>1. /\ Right(response, row.meant, row.cut, options, quiz)
      /\ Stripped /\ ~row.cut => Whole(response, row.meant, options, quiz)
  BY DEF Sound, Arrangements
<1> HIDE DEF response
<1>2. /\ answer.response = response /\ answer.meant = row.meant /\ answer.options = options
      /\ answer.cut = row.cut
  BY DEF Answered, response
<1> HIDE DEF answer
<1>3. QED
  BY <1>1, <1>2 DEF Satisfied, answer

LEMMA SoundStep ==
  ASSUME TypeOK, Shape, LaunchersFly, RowsSound, ToldSound, [Next]_vars
  PROVE  RowsSound' /\ ToldSound'
<1>q. quiz \in Quizzes /\ quiz' = quiz /\ Keys' = Keys
  BY ShapeStep, QuizStays DEF TypeOK
<1>f. FlightsTyped
  BY TypeParts
<1>1. ASSUME rows' = rows
      PROVE  RowsSound'
  BY <1>q, <1>1 DEF RowsSound
<1>2. ASSUME \A r \in Requests :
               Told(r, {"hit", "launched"})' => asked'[r] = asked[r] \/ Satisfied(asked'[r], quiz)
      PROVE  ToldSound'
  BY <1>q, <1>2 DEF ToldSound, Told
<1>3. ASSUME NEW options \in Arrangements, NEW r \in Requests, Hit(r, options)
      PROVE  RowsSound' /\ ToldSound'
  <2> DEFINE key == CacheKey(options, quiz.qtype)
  <2>1. key \in Keys
    BY <1>q, KeyOfArrangement
  <2>2. Sound(rows[key], quiz)
    BY <1>3, <2>1 DEF Hit, RowsSound
  <2>3. /\ asked'[r] = Answered("hit", options, rows[key], options)
        /\ \A p \in Requests \ {r} : asked'[p] = asked[p]
        /\ rows' = rows
    BY <1>3 DEF Hit, Shape
  <2> HIDE DEF key
  <2>4. Satisfied(asked'[r], quiz)
    BY <1>q, <2>2, <2>3, SoundAnswer
  <2>5. QED
    BY <1>1, <1>2, <2>3, <2>4
<1>4. ASSUME NEW options \in Arrangements, NEW r \in Requests, Launch(r, options) \/ Join(r, options)
      PROVE  RowsSound' /\ ToldSound'
  <2>1. /\ asked'[r].stage \in {"launcher", "joiner"} /\ rows' = rows
        /\ \A p \in Requests \ {r} : asked'[p] = asked[p]
    BY <1>4 DEF Launch, Join, Waiting, Shape
  <2>2. \A p \in Requests : Told(p, {"hit", "launched"})' => asked'[p] = asked[p]
    BY <2>1 DEF Told
  <2>3. QED
    BY <1>1, <1>2, <2>1, <2>2
<1>5. ASSUME NEW options \in Arrangements, Import(options)
      PROVE  RowsSound' /\ ToldSound'
  <2> DEFINE key == CacheKey(options, quiz.qtype)
  <2>1. PICK row \in ImportedOf[quiz][options] : rows' = [rows EXCEPT ![key] = row]
    BY <1>5 DEF Import
  <2>2. Sound(row, quiz)
    BY <1>q, RowsAreSound, KeyOfArrangement
  <2> HIDE DEF key
  <2>3. RowsSound'
    BY <1>q, <2>1, <2>2 DEF RowsSound, Shape
  <2>4. asked' = asked
    BY <1>5 DEF Import
  <2>5. QED
    BY <1>2, <2>3, <2>4
<1>6. ASSUME NEW key \in Keys, Land(key)
      PROVE  RowsSound' /\ ToldSound'
  <2>1. PICK row \in LearntOf[quiz][flights[key]] :
          /\ rows' = [rows EXCEPT ![key] = IF rows[key] = None THEN row ELSE rows[key]]
          /\ asked' = [r \in Requests |->
                         IF IsWaiting(r, key)
                           THEN Answered(IF asked[r].stage = "launcher" THEN "launched" ELSE "joined",
                                         asked[r].options, row, flights[key])
                           ELSE asked[r]]
    BY <1>6 DEF Land
  <2>2. flights[key] \in Arrangements
    BY <1>6, <1>f DEF Land, FlightsTyped
  <2>3. Sound(row, quiz)
    BY <1>q, <2>2, RowsAreSound, KeyOfArrangement
  <2>4. RowsSound'
    BY <1>q, <2>1, <2>3 DEF RowsSound, Shape
  <2>5. ASSUME NEW r \in Requests, Told(r, {"hit", "launched"})'
        PROVE  asked'[r] = asked[r] \/ Satisfied(asked'[r], quiz)
    <3>1. CASE ~IsWaiting(r, key)
      BY <2>1, <3>1
    <3>2. CASE IsWaiting(r, key) /\ asked[r].stage = "launcher"
      <4>1. flights[key] = asked[r].options
        BY <3>2 DEF LaunchersFly
      <4>2. asked'[r] = Answered("launched", flights[key], row, flights[key])
        BY <2>1, <3>2, <4>1
      <4>3. QED
        BY <1>q, <2>2, <2>3, <4>2, SoundAnswer
    <3>3. CASE IsWaiting(r, key) /\ asked[r].stage # "launcher"
      <4>1. asked'[r] = Answered("joined", asked[r].options, row, flights[key])
        BY <2>1, <3>3
      <4>2. asked'[r].stage = "joined"
        BY <4>1 DEF Answered
      <4>3. QED
        BY <2>5, <4>2 DEF Told
    <3>4. QED
      BY <3>1, <3>2, <3>3
  <2>6. QED
    BY <1>2, <2>4, <2>5
<1>7. ASSUME NEW key \in Keys, LandFails(key)
      PROVE  RowsSound' /\ ToldSound'
  <2>1. /\ rows' = rows
        /\ \A r \in Requests : asked'[r] = asked[r] \/ asked'[r].stage = "failed"
    BY <1>7 DEF LandFails, Waiting
  <2>2. \A p \in Requests : Told(p, {"hit", "launched"})' => asked'[p] = asked[p]
    BY <2>1 DEF Told
  <2>3. QED
    BY <1>1, <1>2, <2>1, <2>2
<1>8. ASSUME NEW key \in Keys, Evict(key)
      PROVE  RowsSound' /\ ToldSound'
  <2>1. rows' = [rows EXCEPT ![key] = None] /\ asked' = asked
    BY <1>8 DEF Evict
  <2>2. RowsSound'
    BY <1>q, <2>1 DEF RowsSound, Shape
  <2>3. QED
    BY <1>2, <2>1, <2>2
<1>9. CASE UNCHANGED vars
  BY <1>1, <1>2, <1>9 DEF vars
<1>10. QED
  BY Steps, <1>3, <1>4, <1>5, <1>6, <1>7, <1>8, <1>9

\* The inductive invariant holds: hits, joins, replies and imports keep it.
THEOREM InvHolds == Spec => []Inv
<1>1. ASSUME Inv, [Next]_vars
      PROVE  Inv'
  BY <1>1, TypeStep, ShapeStep, LaunchersStep, SoundStep DEF Inv
<1>2. QED
  BY InitInv, <1>1, PTL DEF Spec

\* A row means options of its question and nothing else, a task has the options of a
\* request, and nobody waits for a task that has gone.
THEOREM TypeCorrect == Spec => []TypeOK
BY InvHolds, PTL DEF Inv

\* Whatever options a question has, in whatever order and with whatever labels they are
\* sent, there is one row and one task for it (normalize.py:65-72).
THEOREM OneRowHolds == Spec => []OneRowPerQuestion
<1>1. ASSUME Inv
      PROVE  OneRowPerQuestion
  <2>1. \A k, l \in Keys : k = l
    BY <1>1, OnlyOneKey DEF Inv, TypeOK
  <2>2. QED
    BY <2>1 DEF OneRowPerQuestion
<1>2. QED
  BY InvHolds, <1>1, PTL

\* Whoever is told letters from the cache or from the task it created finds under them, in
\* its own order, what the answer meant, for any question of whose options no two share a
\* word, and any manner of writing, wrapping and labelling (parse.py:49-72, 117-144).
THEOREM NoOtherOptionIsNamed == Spec => []NeverAnotherOption
<1>1. ASSUME Inv
      PROVE  NeverAnotherOption
  <2>1. \A r \in Requests : Told(r, {"hit", "launched"}) =>
          Right(asked[r].response, asked[r].meant, asked[r].cut, asked[r].options, quiz)
    BY <1>1 DEF Inv, ToldSound, Satisfied
  <2>2. QED
    BY <2>1 DEF NeverAnotherOption, NamesItsOption, Right
<1>2. QED
  BY InvHolds, <1>1, PTL

\* If nothing is left of any wrapping whose fences open with a line of their own, an answer
\* of plain options is told with all of its letters and no text, and a plain judgement or
\* completion keeps nothing of the wrappers (parse.py:66-96, normalize.py:47-49), except an
\* answer that came out otherwise because a fence in its line took more than itself
\* (parse.py:36).
THEOREM PlainAnswersAreWhole ==
  ASSUME \A wrapping \in Wrappings : StripWrappers(InLines(wrapping)) = <<>>
  PROVE  Spec => []PlainAnswerComplete
<1>1. ASSUME Inv
      PROVE  PlainAnswerComplete
  <2>1. \A r \in Requests : Told(r, {"hit", "launched"}) /\ ~asked[r].cut =>
          Whole(asked[r].response, asked[r].meant, asked[r].options, quiz)
    BY <1>1 DEF Inv, ToldSound, Satisfied, Stripped
  <2>2. QED
    BY <2>1 DEF PlainAnswerComplete, Whole
<1>2. QED
  BY InvHolds, <1>1, PTL
===============================================================================
