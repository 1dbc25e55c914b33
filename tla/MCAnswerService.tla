--------------------------- MODULE MCAnswerService ---------------------------
\* Small instances of AnswerService for TLC.
EXTENDS AnswerService, TLC

CONSTANTS q1, q2, q3, k1, k2, a1, a2

\* Requests are interchangeable, and so are keys.  Answers are not: only some of
\* them are imported.
Symmetry == Permutations(Queries) \cup Permutations(Keys)
=============================================================================
