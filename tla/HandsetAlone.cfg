SPECIFICATION HandsetsSpec
CONSTANTS
  Workers = {w1, w2}
  Processes = {p}
  ProcessOf <- Threaded
  Devices = {h1, h2}
  Lines = {h1, h2}
  LineOf <- OwnLine
  Destinations = {d1}
  SearchSpaces = {c1, c2}
  None = None
  DryRun = FALSE
  ApplyLine = FALSE
  MaxAttempts = 1
  FaultyCalls = TRUE
  MaxChanges = 2
  MaxEdits = 0
  MaxRestarts = 0
  MaxAbandons = 0
SYMMETRY HandsetSymmetry
INVARIANTS StaleOnlyIfDoubtful
PROPERTY OnlyAdminChangesSearchSpaces
