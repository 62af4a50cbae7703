SPECIFICATION Spec
SYMMETRY TabsAlike
CONSTANTS
  t1 = t1
  t2 = t2
  Tabs = {t1, t2}
  Rulesets = {"base", "client"}
  Rules = {"a"}
  Guidelines <- MCGuidelines
  Flagged = {"a"}
  MaxCommits = 2
  MaxEdits = 1
PROPERTIES SwitchedOffStaysOff
CHECK_DEADLOCK FALSE
