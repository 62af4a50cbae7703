CONSTANTS
  MaxReviews = 2
  Argvs <- SomeArgvs
  Wanted = 2
  MaxPlans = 4
SPECIFICATION Spec
INVARIANTS RecallTakesLooking NothingSaidIsLost WorstRunBudget RecordedIsShipped ZeroesMeanSomething
CHECK_DEADLOCK FALSE
