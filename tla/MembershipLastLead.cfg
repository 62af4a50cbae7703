CONSTANTS
  Workers = {"w1", "w2"}
  Users = {"ann", "bob"}
  Founder = "ann"
  Registered = {"ann", "bob"}
  MaxRequests = 3
SPECIFICATION Spec
INVARIANTS LeadKept
