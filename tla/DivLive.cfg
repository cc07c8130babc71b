\* Two threads; one change, one edit and one restart, then only status and refresh requests.
SPECIFICATION FairSpec
CONSTANTS
  Workers = {w1, w2}
  Processes = {p}
  ProcessOf <- Threaded
  Devices = {h1}
  Lines = {h1}
  LineOf <- OwnLine
  Destinations = {d1}
  SearchSpaces = {c1}
  None = None
  DryRun = FALSE
  ApplyLine = FALSE
  MaxAttempts = 2
  FaultyCalls = TRUE
  MaxChanges = 1
  MaxEdits = 1
  MaxRestarts = 1
PROPERTIES RequestsAnswered CachesConverge HandlersRunOut CachesHeal ImplementsRegister
