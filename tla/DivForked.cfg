\* Two worker processes, one handset, every failure and retry, two changes.
SPECIFICATION Spec
CONSTANTS
  Workers = {w1, w2}
  Processes = {w1, w2}
  ProcessOf <- Forked
  Devices = {h1}
  Lines = {h1}
  LineOf <- OwnLine
  Destinations = {d1, d2}
  SearchSpaces = {c1}
  None = None
  DryRun = FALSE
  ApplyLine = TRUE
  MaxAttempts = 2
  FaultyCalls = TRUE
  MaxChanges = 2
  MaxEdits = 0
  MaxRestarts = 0
SYMMETRY Symmetry
INVARIANTS TypeOK CacheHoldsRealStates AppliedUnlessDoubtful
PROPERTIES AnswersAreFresh FollowsProtocol
