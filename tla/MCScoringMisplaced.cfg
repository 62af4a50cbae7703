CONSTANTS
  MaxReviews = 2
  Argvs <- SomeArgvs
  Wanted = 2
  MaxPlans = 4
SPECIFICATION Spec
INVARIANT ReportedReachedTheDeveloper
CHECK_DEADLOCK FALSE
