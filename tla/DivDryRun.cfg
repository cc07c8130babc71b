\* DRY_RUN with failures, an edit by the administrator and two handsets on one line.
SPECIFICATION Spec
CONSTANTS
  Workers = {w1, w2}
  Processes = {p}
  ProcessOf <- Threaded
  Devices = {h1, h2}
  Lines = {l}
  LineOf <- SharedLine
  Destinations = {d1, d2}
  SearchSpaces = {c1}
  None = None
  DryRun = TRUE
  ApplyLine = TRUE
  MaxAttempts = 2
  FaultyCalls = TRUE
  MaxChanges = 2
  MaxEdits = 1
  MaxRestarts = 0
SYMMETRY Symmetry
INVARIANTS DryRunInert CacheHoldsRealStates
