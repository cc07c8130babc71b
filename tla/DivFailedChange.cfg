\* One worker, which fills its cache; a change is carried out, and what follows fails.
SPECIFICATION Spec
CONSTANTS
  Workers = {w1}
  Processes = {w1}
  ProcessOf <- Forked
  Devices = {h1}
  Lines = {h1}
  LineOf <- OwnLine
  Destinations = {d1}
  SearchSpaces = {c1}
  None = None
  DryRun = FALSE
  ApplyLine = TRUE
  MaxAttempts = 1
  FaultyCalls = TRUE
  MaxChanges = 1
  MaxEdits = 0
  MaxRestarts = 0
PROPERTY UpdatesInvalidate
