\* A handset, two processes, two changes, one request given up, a restart, and
\* an administrator.
SPECIFICATION HandsetsSpec
CONSTANTS
  Workers = {w1, w2}
  Processes = {w1, w2}
  ProcessOf <- Forked
  Devices = {h1}
  Lines = {h1}
  LineOf <- OwnLine
  Destinations = {d1}
  SearchSpaces = {c1}
  None = None
  DryRun = FALSE
  ApplyLine = FALSE
  MaxAttempts = 1
  FaultyCalls = TRUE
  MaxChanges = 2
  MaxEdits = 1
  MaxRestarts = 1
  MaxAbandons = 1
SYMMETRY Symmetry
INVARIANT HandsetsTypeOK
PROPERTIES SuccessIsTrue SuccessThenTruth
