SPECIFICATION Spec
CONSTANTS
  web = web
  NoUser = NoUser
  Users = {u1, u2}
  Keys = {op}
  Platforms = {web}
  Terms <- SomeTerms
  Overrides <- MCOverrides
  Params <- AllParams
  Scores = {700000}
  Funds = 12
  MaxTasks = 1
  MaxTime = 8
PROPERTY
  AttestationDelayed
CHECK_DEADLOCK FALSE
