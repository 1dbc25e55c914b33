---------------------------- MODULE AnswerMapping ----------------------------
(***************************************************************************)
(* From the LLM's reply to the content that is cached, and from the        *)
(* content to the letters a request is told: app/answer/parse.py and       *)
(* app/normalize.py, and the places of app/answer/service.py that call     *)
(* them.  One question is asked again and again, its options in another    *)
(* order or with other labels each time, or left out where they are no     *)
(* part of it (judgement and completion).                                  *)
(*                                                                         *)
(* A text is what the functions tell apart in it: a list marker or number  *)
(* at its start ("- ", "2. "), the label of an option ("A. "), a sign that *)
(* belongs to it and looks like a marker (the "-" of "-5", the "1." of     *)
(* "1.5") or like the prefix "answer" (which in Chinese may begin a word), *)
(* and a word.  Width, case, blanks and trailing punctuation are gone.  A  *)
(* word may hold separators ("x, y"), and it may be spelled with letters   *)
(* of options only ("b", "ac").  A reply of the LLM is such texts, no      *)
(* longer than a refusal may be, in wrappers: a code fence, asterisks,     *)
(* "answer:".  A fence opens with a line of its own, or the reply goes on  *)
(* in the same line ("inline"): then FENCE_RE takes the first run of word  *)
(* characters and hyphens for the name of a language.                      *)
(***************************************************************************)
EXTENDS Naturals, Sequences, FiniteSets, Functions, SequencesExt, FiniteSetsExt

CONSTANTS
  Requests,      \* requests to /api/query
  Quizzes,       \* questions: [qtype, bodies], the options as a set of [sign, word], or
                 \* what an answer may mean where options are no part of the question
  Parts,         \* Parts[w]: the words between the separators in the word w
  Spelling,      \* Spelling[w]: the positions its letters name, <<>> if not all do
  Verdict,       \* Verdict[w]: the canonical word of a judgement w says, None if none
  Bitten,        \* Bitten[w]: what is left of the word w without its first run of word
                 \* characters and hyphens, None if nothing is
  Refusing,      \* words with a phrase of refusal in them
  Wrappings,     \* the wrappers of a reply, outermost first
  Styles,        \* how the LLM writes its replies
  ImportStyles,  \* how imported answers are written
  None           \* no row, no task, no request

Words == DOMAIN Parts
\* "item" is a sign like a list marker, "prefix" one like the prefix of an answer.
Signs == {"none", "item", "prefix"}

Bodies == [sign : Signs, word : Words]

OptionQtypes == {"single", "multiple"}
NoOptionQtypes == {"judgement", "completion"}

\* "plain" is the option's text as the prompt gives it, "listed" as the request does,
\* "letters" one letter per piece, "spelled" all letters in one.
Manners == {"plain", "listed", "bulleted", "letters", "spelled"}

ASSUME SetsAssumption ==
  /\ Quizzes \subseteq [qtype : OptionQtypes \cup NoOptionQtypes, bodies : SUBSET Bodies]
  /\ Wrappings \subseteq Seq({"fence", "inline", "prefix", "bold"})
  /\ Styles \cup ImportStyles \subseteq Manners
  /\ Parts \in [Words -> Seq(Words) \ {<<>>}] /\ Spelling \in [Words -> Seq(Nat \ {0})]
  /\ DOMAIN Verdict = Words
  /\ \A w \in Words : Verdict[w] # None => Verdict[w] \in Words /\ Verdict[Verdict[w]] = Verdict[w]

\* What stands between two separators holds none, and neither do letters.
ASSUME PartsAssumption ==
  /\ \A w \in Words : \A p \in Range(Parts[w]) : Parts[p] = <<p>>
  /\ \A w \in Words : Spelling[w] # <<>> => Parts[w] = <<w>>

\* An answer in letters needs a letter for each option; a letter that is imported means
\* nothing, since nobody knows the order it was written for.
ASSUME LettersAssumption ==
  /\ "letters" \in Styles =>
       \A q \in Quizzes : q.qtype \in OptionQtypes =>
         \A i \in 1..Cardinality(q.bodies) : \E w \in Words : Spelling[w] = <<i>>
  /\ ImportStyles \cap {"letters", "spelled"} = {}

\* Letters without the first of them are letters, and what is left of a judgement is none.
ASSUME BittenAssumption ==
  /\ Bitten \in [Words -> Words \cup {None}] /\ None \notin Words
  /\ \A w \in Words : Bitten[w] # None =>
       /\ Spelling[w] # <<>> =>
            Spelling[Bitten[w]] # <<>> /\ Range(Spelling[Bitten[w]]) \subseteq Range(Spelling[w])
       /\ Verdict[w] # None => Verdict[Bitten[w]] \in {None, Verdict[w]}

\* What may come of a word: it, what a fence leaves of it, and what stands between the
\* separators of both.
Remains(w) == {w, Bitten[w]} \ {None}

WordsOf(w) == Remains(w) \cup UNION {Range(Parts[v]) : v \in Remains(w)}

\* No two options of a question share a word, and letters in an option are the whole of
\* it: see NeverAnotherOption, which fails otherwise.
ASSUME OptionsAssumption ==
  \A q \in Quizzes : q.qtype \in OptionQtypes =>
    /\ \A b, c \in q.bodies : b.word \in WordsOf(c.word) => b = c
    /\ \A b \in q.bodies : \A w \in WordsOf(b.word) :
         Spelling[w] # <<>> => b.sign = "none" /\ w = b.word

\* A question ends somewhere.
ASSUME FiniteAssumption == \A q \in Quizzes : IsFiniteSet(q.bodies)

VARIABLES
  quiz,     \* the question
  rows,     \* table questions: [content, meant, cut], meant being what its source meant
            \* and cut whether a fence took more of the reply than itself
  flights,  \* tasks at work: the options they were created with
  asked     \* each request: [stage, options, response, meant, cut]

vars == <<quiz, rows, flights, asked>>

-----------------------------------------------------------------------------
(* normalize.py                                                             *)

Text(body, label, bullet) ==
  [wrapped |-> FALSE, bullet |-> bullet, label |-> label, sign |-> body.sign, word |-> body.word]

AsIs(word) == Text([sign |-> "none", word |-> word], 0, FALSE)

Body(t) == [sign |-> t.sign, word |-> t.word]

\* option_key strips a label, if it comes first.
OptionKey(t) == IF t.bullet THEN t ELSE [t EXCEPT !.label = 0]

\* Mutation of CacheKey: the option keys are not sorted.
UnsortedKey(options, qtype) == [i \in DOMAIN options |-> OptionKey(options[i])]

\* The sorted option keys, as a bag, unless the options are no part of the question.
CacheKey(options, qtype) ==
  LET keys == IF qtype \in NoOptionQtypes THEN <<>>
              ELSE [i \in DOMAIN options |-> OptionKey(options[i])] IN
    [k \in Range(keys) |-> Cardinality({i \in DOMAIN keys : keys[i] = k})]

-----------------------------------------------------------------------------
(* parse.py                                                                 *)

Without(kinds, layers) ==
  IF layers # <<>> /\ Head(layers) \in kinds THEN Tail(layers) ELSE layers

\* What follows a fence in its line: of a prefix the colon is left; a text that is not
\* wrapped any more is "bitten", see Bites; asterisks and fences stay.
Eaten(layers) ==
  IF layers \in {<<>>, <<"sign">>} THEN <<"bitten">>
  ELSE IF Head(layers) = "prefix" THEN <<"colon">> \o Tail(layers)
  ELSE layers

\* A fence alone, or a prefix and the asterisks under it.
StripOnce(layers) ==
  IF layers = <<>> THEN <<>>
  ELSE IF Head(layers) = "fence" THEN Tail(layers)
  ELSE IF Head(layers) = "inline" THEN Eaten(Tail(layers))
  ELSE Without({"bold"}, Without({"prefix", "sign"}, layers))

\* Mutation of StripWrappers: two rounds.
StripTwice(layers) == StripOnce(StripOnce(layers))

\* Three rounds.
StripWrappers(layers) == StripOnce(StripOnce(StripOnce(layers)))

\* Of a text that begins with its word, what is left is Bitten, and the sign goes with it.
BiteWord(t) ==
  IF Bitten[t.word] = None THEN None ELSE [t EXCEPT !.sign = "none", !.word = Bitten[t.word]]

\* What FENCE_RE may leave of the text after the fence, None being nothing: all of it, for
\* it took the name of a language or found no word character ("* x", "(A) x"); a text that
\* begins with a point or a bracket ("2. x", "A. x", "1.5"); a text without its marker
\* ("- x"), under which a later round may find a sign; or part of the word ("-x", "x").
Bites(t) ==
  LET marked == t.bullet \/ t.label # 0 \/ t.sign = "item"
      bare == [t EXCEPT !.bullet = FALSE]
  IN
    {t} \cup (IF marked THEN {[t EXCEPT !.wrapped = TRUE]} ELSE {})
        \cup (IF t.bullet \/ t.sign = "item" THEN {bare} ELSE {})
        \cup (IF t.label = 0 THEN {BiteWord(bare), [bare EXCEPT !.sign = "none"]} ELSE {})

\* What is left of the wrappers is part of the first text.  A sign at its very start that
\* looks like the prefix is taken for one.
Unwrap(texts, wrapping, bite) ==
  LET exposed == texts[1].sign = "prefix" /\ texts[1].label = 0 /\ ~texts[1].bullet
      sign == IF exposed THEN <<"sign">> ELSE <<>>
      left == StripWrappers(wrapping \o sign)
  IN
    IF left # <<"bitten">>
      THEN [texts EXCEPT ![1].sign = IF exposed /\ left = <<>> THEN "none" ELSE @,
                         ![1].wrapped = left \notin {<<>>, sign}]
    ELSE IF bite = None THEN Tail(texts)
    ELSE [texts EXCEPT ![1] = bite]

\* PIECE_NOISE_RE, which takes a sign for a list marker if no label precedes it.
StripNoise(t) ==
  [t EXCEPT !.bullet = FALSE, !.sign = IF @ = "item" /\ t.label = 0 THEN "none" ELSE @]

\* ANSWER_SPLIT_RE on one text.
Split(t) ==
  [i \in DOMAIN Parts[t.word] |->
     IF i = 1 THEN [t EXCEPT !.word = Parts[t.word][1]]
              ELSE AsIs(Parts[t.word][i])]

\* Texts written with # between them.  A single choice is not split: several texts
\* are one piece, which is no option's text.
Pieces(texts, qtype) ==
  IF qtype = "multiple" THEN FlattenSeq([i \in DOMAIN texts |-> Split(texts[i])]) ELSE texts

\* The positions a word of option letters spells, if there are so many options.
Spelled(word, options) ==
  IF Range(Spelling[word]) \subseteq DOMAIN options THEN Range(Spelling[word]) ELSE {}

\* Mutation of MatchPiece: the texts are compared as they are.
MatchVerbatim(t, options) ==
  LET target == StripNoise(t)
      exact == {i \in DOMAIN options : options[i] = target}
  IN
    IF exact # {} THEN {Min(exact)}
    ELSE IF target.sign # "none" \/ target.wrapped THEN {} ELSE Spelled(target.word, options)

\* The positions of the options a piece stands for.
MatchPiece(t, options) ==
  LET target == OptionKey(StripNoise(t))
      exact == {i \in DOMAIN options : OptionKey(options[i]) = target}
  IN
    IF exact # {} THEN {Min(exact)}
    ELSE IF target.sign # "none" \/ target.wrapped THEN {} ELSE Spelled(target.word, options)

Matched(texts, qtype, options) ==
  IF qtype = "single" /\ Len(texts) > 1 THEN {}
  ELSE UNION {MatchPiece(t, options) : t \in Range(Pieces(texts, qtype))}

\* What is at these positions, in its order.
InOrder(positions, seq) ==
  FlattenSeq([i \in DOMAIN seq |-> IF i \in positions THEN <<seq[i]>> ELSE <<>>])

Unmatched(texts, qtype, options) ==
  IF qtype = "single" /\ Len(texts) > 1 THEN texts
  ELSE LET pieces == Pieces(texts, qtype) IN
         InOrder({i \in DOMAIN pieces : MatchPiece(pieces[i], options) = {}}, pieces)

\* is_refusal, which an answer that is such a phrase cannot be told from.
IsRefusal(texts) == \E t \in Range(texts) : t.word \in Refusing

\* _canonical_judgement: the alias must stand alone.
Judged(texts) ==
  IF Len(texts) = 1 /\ texts[1] = AsIs(texts[1].word) THEN Verdict[texts[1].word] ELSE None

\* parse_llm_reply takes the reply ...
Parses(texts, qtype) ==
  texts # <<>> /\ ~IsRefusal(texts) /\ (qtype = "judgement" => Judged(texts) # None)

\* ... and returns what is cached.
Content(texts, qtype, options) ==
  IF qtype = "judgement" THEN <<AsIs(Judged(texts))>>
  ELSE IF qtype = "completion" THEN texts
  ELSE InOrder(Matched(texts, qtype, options), options) \o Unmatched(texts, qtype, options)

\* Mutation of Response: the letters are the places in the content.
PlacesInContent(content, qtype, options) ==
  [letters |-> {i \in DOMAIN content : MatchPiece(content[i], options) # {}},
   raw |-> Unmatched(content, qtype, options)]

\* content_to_response: the letters, as positions, and the texts left as they are.
Response(content, qtype, options) ==
  IF qtype \in NoOptionQtypes THEN [letters |-> {}, raw |-> content]
  ELSE [letters |-> Matched(content, qtype, options), raw |-> Unmatched(content, qtype, options)]

-----------------------------------------------------------------------------
(* What the outside sends                                                   *)

Arranged(order, labelled) ==
  [i \in DOMAIN order |-> Text(order[i], IF labelled THEN i ELSE 0, FALSE)]

\* split_options of what the platform joins: any order, labelled afresh or not at all; none
\* maybe, where they do not matter.
ArrangementsOf ==
  [q \in Quizzes |->
     {Arranged(order, labelled) : order \in SetToSeqs(q.bodies), labelled \in BOOLEAN}
       \cup (IF q.qtype \in NoOptionQtypes THEN {<<>>} ELSE {})]

ASSUME NoneAssumption == \A q \in Quizzes : None \notin ArrangementsOf[q]

Arrangements == ArrangementsOf[quiz]

KeysOf == [q \in Quizzes |-> {CacheKey(options, q.qtype) : options \in ArrangementsOf[q]}]

Keys == KeysOf[quiz]

\* The words that say what is meant by b, where there are no options.
Sayings(q, b) ==
  IF q.qtype = "judgement" THEN {w \in Words : Verdict[w] = b.word} ELSE {b.word}

\* A letter means an option, unless options are letters themselves.
Understood(q, styles) ==
  IF \E b \in q.bodies : Spelling[b.word] # <<>> THEN styles \ {"letters", "spelled"} ELSE styles

\* The option at position i, written in a manner that names one option.
Rendered(i, style, options) ==
  IF style = "letters" THEN AsIs(CHOOSE w \in Words : Spelling[w] = <<i>>)
  ELSE IF style = "listed" THEN options[i]
  ELSE Text(Body(options[i]), 0, style = "bulleted")

\* An answer that means the options at these positions.
Written(positions, style, options) ==
  IF style = "spelled"
    THEN {<<AsIs(w)>> : w \in {w \in Words : Range(Spelling[w]) = positions}}
    ELSE {[n \in DOMAIN order |-> Rendered(order[n], style, options)] :
            order \in SetToSeqs(positions)}

Selections(q, options) ==
  {positions \in SUBSET DOMAIN options :
     positions # {} /\ (q.qtype = "single" => Cardinality(positions) = 1)}

\* Answers to the question in these styles, and what they mean.
Answers(q, styles, options) ==
  IF q.qtype \in NoOptionQtypes
    THEN UNION {{[texts |-> <<Text([sign |-> b.sign, word |-> w], label, style = "bulleted")>>,
                  meant |-> {b}] :
                   w \in Sayings(q, b), label \in IF style = "listed" THEN {0, 1} ELSE {0}} :
                b \in q.bodies, style \in styles \cap {"plain", "listed", "bulleted"}}
    ELSE UNION {{[texts |-> texts, meant |-> {Body(options[i]) : i \in positions}] :
                   texts \in UNION {Written(positions, style, options) :
                                       style \in Understood(q, styles)}} :
                positions \in Selections(q, options)}

\* The same wrappers, each fence opening with a line of its own.
InLines(wrapping) ==
  [n \in DOMAIN wrapping |-> IF wrapping[n] = "inline" THEN "fence" ELSE wrapping[n]]

\* Replies to a prompt with these options, out of their wrappers.
Replies(q, options) ==
  UNION {{LET texts == Unwrap(answer.texts, wrapping, bite) IN
            [texts |-> texts, meant |-> answer.meant,
             cut |-> texts # Unwrap(answer.texts, InLines(wrapping), bite)] :
            wrapping \in Wrappings, bite \in Bites(answer.texts[1])} :
         answer \in Answers(q, Styles, options)}

\* The rows they may become.
LearntOf ==
  [q \in Quizzes |->
     [options \in ArrangementsOf[q] |->
        {[content |-> Content(reply.texts, q.qtype, options), meant |-> reply.meant,
          cut |-> reply.cut] :
           reply \in {reply \in Replies(q, options) : Parses(reply.texts, q.qtype)}}]]

ImportedOf ==
  [q \in Quizzes |->
     [options \in ArrangementsOf[q] |->
        {[content |-> answer.texts, meant |-> answer.meant, cut |-> FALSE] :
           answer \in Answers(q, ImportStyles, options)}]]

-----------------------------------------------------------------------------
(* service.py                                                               *)

Init ==
  /\ quiz \in Quizzes
  /\ rows = [k \in Keys |-> None]
  /\ flights = [k \in Keys |-> None]
  /\ asked = [r \in Requests |-> None]

\* A row mapped to the letters of some options.
Answered(how, options, row, mapped) ==
  [stage |-> how, options |-> options, meant |-> row.meant, cut |-> row.cut,
   response |-> Response(row.content, quiz.qtype, mapped)]

Waiting(how, options) == [stage |-> how, options |-> options]

\* A cached content is mapped to the options of the request.
Hit(r, options) ==
  LET row == rows[CacheKey(options, quiz.qtype)] IN
    /\ asked[r] = None
    /\ row # None
    /\ asked' = [asked EXCEPT ![r] = Answered("hit", options, row, options)]
    /\ UNCHANGED <<quiz, rows, flights>>

Launch(r, options) ==
  LET key == CacheKey(options, quiz.qtype) IN
    /\ asked[r] = None
    /\ rows[key] = None
    /\ flights[key] = None
    /\ flights' = [flights EXCEPT ![key] = options]
    /\ asked' = [asked EXCEPT ![r] = Waiting("launcher", options)]
    /\ UNCHANGED <<quiz, rows>>

\* The task of somebody with the same key, and maybe with other options.
Join(r, options) ==
  LET key == CacheKey(options, quiz.qtype) IN
    /\ asked[r] = None
    /\ rows[key] = None
    /\ flights[key] # None
    /\ asked' = [asked EXCEPT ![r] = Waiting("joiner", options)]
    /\ UNCHANGED <<quiz, rows, flights>>

IsWaiting(r, key) ==
  /\ asked[r] # None
  /\ asked[r].stage \in {"launcher", "joiner"}
  /\ CacheKey(asked[r].options, quiz.qtype) = key

\* Mutation of Land: only the request that created the task gets its outcome.
LandFirstOnly(key) ==
  /\ flights[key] # None
  /\ \E row \in LearntOf[quiz][flights[key]] :
       /\ rows' = [rows EXCEPT ![key] = IF @ = None THEN row ELSE @]
       /\ asked' = [r \in Requests |->
                      IF IsWaiting(r, key) /\ asked[r].stage = "launcher"
                        THEN Answered("launched", asked[r].options, row, flights[key])
                        ELSE asked[r]]
  /\ flights' = [flights EXCEPT ![key] = None]
  /\ UNCHANGED quiz

\* The reply is parsed with the options of the task, cached unless there is a row by
\* now, and mapped once, to the options of the task: all who wait get that outcome.
Land(key) ==
  /\ flights[key] # None
  /\ \E row \in LearntOf[quiz][flights[key]] :
       /\ rows' = [rows EXCEPT ![key] = IF @ = None THEN row ELSE @]
       /\ asked' = [r \in Requests |->
                      IF IsWaiting(r, key)
                        THEN Answered(IF asked[r].stage = "launcher" THEN "launched" ELSE "joined",
                                      asked[r].options, row, flights[key])
                        ELSE asked[r]]
  /\ flights' = [flights EXCEPT ![key] = None]
  /\ UNCHANGED quiz

\* The call fails, or the reply is empty, a refusal or nothing parse_llm_reply takes.
LandFails(key) ==
  /\ flights[key] # None
  /\ flights' = [flights EXCEPT ![key] = None]
  /\ asked' = [r \in Requests |->
                 IF IsWaiting(r, key) THEN Waiting("failed", asked[r].options) ELSE asked[r]]
  /\ UNCHANGED <<quiz, rows>>

\* An import stores the answer as it is written.
Import(options) ==
  /\ \E row \in ImportedOf[quiz][options] : rows' = [rows EXCEPT ![CacheKey(options, quiz.qtype)] = row]
  /\ UNCHANGED <<quiz, flights, asked>>

Evict(key) ==
  /\ rows[key] # None
  /\ rows' = [rows EXCEPT ![key] = None]
  /\ UNCHANGED <<quiz, flights, asked>>

Next ==
  \/ \E options \in Arrangements :
       \/ \E r \in Requests : Hit(r, options) \/ Launch(r, options) \/ Join(r, options)
       \/ Import(options)
  \/ \E key \in Keys : Land(key) \/ LandFails(key) \/ Evict(key)

Spec == Init /\ [][Next]_vars

-----------------------------------------------------------------------------
(* Properties                                                               *)

Stages == {"launcher", "joiner", "hit", "launched", "joined", "failed"}

TypeOK ==
  /\ quiz \in Quizzes
  /\ \A k \in Keys : rows[k] # None => rows[k].meant \subseteq quiz.bodies
  /\ \A k \in Keys : flights[k] \in Arrangements \cup {None}
  /\ \A r \in Requests : asked[r] # None =>
       asked[r].stage \in Stages /\ asked[r].options \in Arrangements
  /\ \A k \in Keys : (\E r \in Requests : IsWaiting(r, k)) => flights[k] # None

Told(r, stages) == asked[r] # None /\ asked[r].stage \in stages

\* Every letter r was told names, in the options r sent, one the answer meant; where there
\* are no options, r was told one text that says what the answer meant, or what a fence
\* has left of it.
NamesItsOption(r) ==
  IF quiz.qtype \in NoOptionQtypes
    THEN \E t \in Range(asked[r].response.raw) :
           /\ asked[r].response.raw = <<t>>
           /\ \E b \in asked[r].meant :
                \/ t.word \in Sayings(quiz, b)
                \/ asked[r].cut /\ \E w \in Sayings(quiz, b) : t.word = Bitten[w]
    ELSE \A i \in asked[r].response.letters : Body(asked[r].options[i]) \in asked[r].meant

\* NeverAnotherOption: whoever is told letters from the cache or from the task it
\* created finds under them, in its own order of the options, what the answer meant;
\* texts that match no option stay texts and name none; a judgement is never told as
\* its opposite (parse.py:49-72, 117-144).  This needs options that share no word: of
\* -5 and 5, of "y" and "y, z", or of "high five" and "five" after a fence in the line of the
\* answer, the parser may take one for the other.
NeverAnotherOption == \A r \in Requests : Told(r, {"hit", "launched"}) => NamesItsOption(r)

\* A word of its own: nothing in it is taken for a marker, a separator or a letter.
IsPlain(b) == b.sign = "none" /\ Parts[b.word] = <<b.word>> /\ Spelling[b.word] = <<>>

\* PlainAnswerComplete: if all that was meant is plain options, the letters are all of
\* them and nothing is left as text, however the answer was written and wrapped and the
\* options are labelled; a plain judgement or completion keeps nothing of the wrappers
\* (parse.py:66-96, normalize.py:47-49).  Except what came after a fence in the same line,
\* if it came out other than it would have after a line of the fence's own: FENCE_RE may
\* take the first word of the answer (parse.py:36).
PlainAnswerComplete ==
  \A r \in Requests :
    Told(r, {"hit", "launched"}) /\ ~asked[r].cut /\ (\A b \in asked[r].meant : IsPlain(b)) =>
      LET response == asked[r].response IN
        IF quiz.qtype \in NoOptionQtypes
          THEN \A t \in Range(response.raw) : Body(t).sign = "none" /\ ~t.wrapped
          ELSE /\ asked[r].meant = {Body(asked[r].options[i]) : i \in response.letters}
               /\ response.raw = <<>>

\* OneRowPerQuestion: in whatever order and with whatever labels the options come,
\* the question has one row and one task (normalize.py:65-72).
OneRowPerQuestion ==
  /\ \A k, l \in Keys : rows[k] # None /\ rows[l] # None => k = l
  /\ \A k, l \in Keys : flights[k] # None /\ flights[l] # None => k = l

\* OwnOrderForAll: the same as NeverAnotherOption of requests that joined the task of another, as
\* design.md:96 says of every answer.
OwnOrderForAll == \A r \in Requests : Told(r, {"hit", "launched", "joined"}) => NamesItsOption(r)
=============================================================================
