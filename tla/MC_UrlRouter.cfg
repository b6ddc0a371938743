CONSTANTS
  Routes <- MCRoutes
  Words <- MCWords
  Id = "id"
  MaxDepth = 4
  Chars = {"/", "a", "b"}
  MaxChars = 4
SPECIFICATION Spec
INVARIANTS TypeOK HandleSound HandleFindsIdRoutes SplitCorrect
