CONSTANTS
  Paths <- PlainPaths
  Spaced = {}
  Quoted = {}
  Contents = {"text"}
  EofMarks = TRUE
  Gaps = {0}
  MaxWritten = 7
SPECIFICATION Spec
INVARIANTS AddedTrue
