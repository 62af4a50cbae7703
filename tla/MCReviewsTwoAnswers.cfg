CONSTANTS
  Keys = {"alice1", "bob1"}
  Users = {"alice", "bob"}
  Leads = {"alice"}
  Fp = {"f1", "f2"}
  Blockers = {"f1"}
  Analyses = {{"f1"}}
  MaxAgent = 2
  MaxRequests = 3
  Owner <- OwnerOf
  Place <- PlaceOf
  Submissions <- NoSubmissions
  Batches <- CrossedBatches
  Seeded <- BothSeeded
SPECIFICATION Spec
INVARIANTS OneStandingAnswer
