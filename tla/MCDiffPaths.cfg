CONSTANTS
  Paths <- PlainPaths
  Spaced <- BlankPaths
  Quoted <- AccentedPaths
  Contents = {"text"}
  EofMarks = FALSE
  Gaps = {0}
  MaxWritten = 7
SPECIFICATION Spec
INVARIANTS FilesTrue
