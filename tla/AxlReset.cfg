\* Every call ends, with a result or an error; then nothing is left to do, and the
\* deadlock TLC would report is the end of the calls.
SPECIFICATION Spec
CHECK_DEADLOCK FALSE
CONSTANTS
  v8 = v8  v10 = v10  v13 = v13  v14 = v14  s8 = s8  s10 = s10  s14 = s14
  Calls = {c1}
  MaxAttempts = 3
  Versions = {v8, v10, v13, v14}
  Schemas = {s8, s10, s14}
  SchemaOf <- MCSchemaOf
  Vendored = {s8, s10, s14}
  Usable = {s8, s10, s14}
  None = None
  MaxFailures = 1
  MaxUpgrades = 0
INVARIANT NothingEscapes
