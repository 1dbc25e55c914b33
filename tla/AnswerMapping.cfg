CONSTANTS
  r1 = r1
  r2 = r2
  Requests = {r1, r2}
  Quizzes <- MCQuizzes
  Parts <- MCParts
  Spelling <- MCSpelling
  Verdict <- MCVerdict
  Bitten <- MCBitten
  Refusing = {"sorry"}
  Wrappings <- MCWrappings
  Styles = {"plain", "listed", "bulleted", "letters", "spelled"}
  ImportStyles = {"listed"}
  None = None
SPECIFICATION Spec
SYMMETRY Symmetry
INVARIANTS
  TypeOK
  NeverAnotherOption
  PlainAnswerComplete
  OneRowPerQuestion
