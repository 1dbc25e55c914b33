CONSTANTS
  r1 = r1
  r2 = r2
  Requests = {r1, r2}
  Quizzes <- PlainQuizzes
  Parts <- MCParts
  Spelling <- MCSpelling
  Verdict <- MCVerdict
  Bitten <- MCBitten
  Refusing = {"sorry"}
  Wrappings <- NoWrapping
  Styles = {"plain"}
  ImportStyles = {}
  None = None
SPECIFICATION Spec
INVARIANT OwnOrderForAll
CHECK_DEADLOCK FALSE
