CONSTANTS
  Names = {core, facades}
  Landings <- MCLandings
  Requests = {lock, flags}
  ApplyEntry = lock
  Unwritten = newcomer
  MaxRuns = 2
SPECIFICATION SweepSpec
INVARIANTS
  WorklistInv
  OnlyMeasurements
  GreenMeansMeasured
  DiffOfMeasurement
  NothingLeft
PROPERTIES
  MeasurementsKept
  ImplementsLoading
  WalkEnds
CHECK_DEADLOCK FALSE
