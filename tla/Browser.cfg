SPECIFICATION FairBrowserSpec
CONSTANTS
  Calls <- main
  MaxMisses = 2
INVARIANTS WaitsSynchronise AuditIsComplete GreenMeansDone
PROPERTY RunEnds
