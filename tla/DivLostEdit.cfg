\* One worker and one edit by the administrator.
SPECIFICATION Spec
CONSTANTS
  Workers = {w1}
  Processes = {w1}
  ProcessOf <- Forked
  Devices = {h1}
  Lines = {h1}
  LineOf <- OwnLine
  Destinations = {d1}
  SearchSpaces = {c1, c2}
  None = None
  DryRun = FALSE
  ApplyLine = FALSE
  MaxAttempts = 1
  FaultyCalls = FALSE
  MaxChanges = 1
  MaxEdits = 1
  MaxRestarts = 0
PROPERTY OnlyAdminChangesSearchSpaces
