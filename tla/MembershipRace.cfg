CONSTANTS
  Workers = {"w1", "w2"}
  Users = {"ann","bob","cat"}
  Founder = "ann"
  Registered = {"ann","bob"}
  MaxRequests = 3
SPECIFICATION FairSpec
INVARIANTS NoOrphans OneRole
PROPERTIES LastLeadLostToARace MembershipRequestsEnd
