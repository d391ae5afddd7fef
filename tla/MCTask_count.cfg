SPECIFICATION Spec
CONSTANTS
  web = web
  NoUser = NoUser
  Users = {u1, u2}
  Keys = {op}
  Platforms = {web}
  Terms <- ShortTerms
  Overrides <- MCOverrides
  Params <- ClaimParams
  Scores = {700000}
  Funds = 4
  MaxTasks = 2
  MaxTime = 5
PROPERTY
  CountCorrected
CHECK_DEADLOCK FALSE
