CONSTANTS
  Keys = {"alice1", "alice2"}
  Users = {"alice", "bob"}
  Leads = {"alice"}
  Fp = {"f1", "f2", "f3"}
  Blockers = {"f1"}
  Analyses = {{"f1"}, {"f2"}}
  MaxAgent = 2
  MaxRequests = 3
  Owner <- OwnerOf
  Place <- PlaceOf
  Submissions <- TwoSubmissions
  Batches <- MutingBatches
  Seeded <- AliceSeeded
SPECIFICATION Spec
INVARIANTS TypeOK AgentRowsMatchTrail BlockingIsJustified PassIsExplained
PROPERTIES ImplementsTrails AppendAndRevoke MutedStaysMuted
