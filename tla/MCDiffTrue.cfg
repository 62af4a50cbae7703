CONSTANTS
  Paths <- PlainPaths
  Spaced = {}
  Quoted = {}
  Contents = {"text", "marks", "feed"}
  EofMarks = TRUE
  Gaps = {0, 2}
  MaxWritten = 7
SPECIFICATION Spec
INVARIANTS FilesTrue NumbersTrue ScopeTrue
