--------------------------- MODULE MCAnswerMapping ---------------------------
\* Small instances of AnswerMapping for TLC.
EXTENDS AnswerMapping, TLC

CONSTANTS r1, r2

\* "five" may be written with a sign, "y, z" holds a separator, and the words of
\* letters spell positions.
MCSpelling ==
  [w \in {"x", "y", "z", "five", "high five", "y, z", ", z", "a", "b", "c", "ab", "ac", "bc", "abc",
          "right", "wrong", "true", "sorry"} |->
     CASE w = "a" -> <<1>> [] w = "b" -> <<2>> [] w = "c" -> <<3>>
       [] w = "ab" -> <<1, 2>> [] w = "ac" -> <<1, 3>> [] w = "bc" -> <<2, 3>>
       [] w = "abc" -> <<1, 2, 3>>
       [] OTHER -> <<>>]

MCParts == [w \in DOMAIN MCSpelling |-> IF w = "y, z" THEN <<"y", "z">> ELSE IF w = ", z" THEN <<"z">> ELSE <<w>>]

\* Only "high five" and "y, z" are more than one run of word characters.
MCBitten ==
  [w \in DOMAIN MCSpelling |->
     CASE w = "high five" -> "five" [] w \in {"y, z", ", z"} -> ", z" [] OTHER -> None]

\* An x is a cross.
MCVerdict ==
  [w \in DOMAIN MCSpelling |->
     CASE w \in {"right", "true"} -> "right" [] w \in {"wrong", "x"} -> "wrong" [] OTHER -> None]

\* None, two layers, as many as three rounds strip, and a fence in the line of what it holds.
MCWrappings ==
  {<<>>, <<"prefix", "bold">>, <<"fence", "bold", "prefix", "bold">>, <<"inline">>, <<"inline", "bold">>}

NoWrapping == {<<>>}

Plain(w) == [sign |-> "none", word |-> w]

Signed(w, sign) == [sign |-> sign, word |-> w]

\* No two options of a question share a word.
MCQuizzes ==
  {[qtype |-> "multiple", bodies |-> {Plain("x"), Signed("high five", "item")}],
   [qtype |-> "multiple", bodies |-> {Plain("b"), Plain("y, z")}],
   [qtype |-> "single", bodies |-> {Signed("y", "prefix"), Signed("high five", "item")}],
   [qtype |-> "single", bodies |-> {Plain("x"), Plain("z"), Plain("sorry")}],
   [qtype |-> "judgement", bodies |-> {Plain("right"), Plain("wrong")}],
   [qtype |-> "completion", bodies |-> {Plain("sorry"), Signed("y", "prefix")}]}

PlainQuizzes == {[qtype |-> "single", bodies |-> {Plain("x"), Plain("y")}]}

Symmetry == Permutations(Requests)
=============================================================================
