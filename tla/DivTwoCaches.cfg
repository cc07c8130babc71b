\* The smallest deployment of phone-services.service: two processes, no failures.
SPECIFICATION Spec
CONSTANTS
  Workers = {w1, w2}
  Processes = {w1, w2}
  ProcessOf <- Forked
  Devices = {h1}
  Lines = {h1}
  LineOf <- OwnLine
  Destinations = {d1}
  SearchSpaces = {c1}
  None = None
  DryRun = FALSE
  ApplyLine = FALSE
  MaxAttempts = 1
  FaultyCalls = FALSE
  MaxChanges = 1
  MaxEdits = 0
  MaxRestarts = 0
PROPERTY StatusShowsLine
