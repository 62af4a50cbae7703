CONSTANTS
  Keys = {"alice1"}
  Users = {"alice", "bob"}
  Leads = {"alice"}
  Fp = {"f1", "f2", "f3"}
  Blockers = {"f1"}
  Analyses = {{}, {"f1"}, {"f1", "f2"}}
  MaxAgent = 2
  MaxRequests = 4
  Owner <- OwnerOf
  Place <- PlaceOf
  Submissions <- AllSubmissions
  Batches <- AllBatches
  Seeded <- NoneSeeded
SPECIFICATION Spec
PROPERTIES ConfirmedNotReported
