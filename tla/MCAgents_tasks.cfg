SPECIFICATION AgentSpec
CONSTANTS
  web = web
  NoUser = NoUser
  Users = {u1, u2}
  Keys = {op}
  Platforms = {web}
  Terms <- ShortTerms
  Overrides <- MCOverrides
  Params <- ClaimParams
  Scores = {700000}
  Funds = 4
  MaxTasks = 2
  MaxTime = 3
  Delegates = {u2}
  Masks <- MCMasks
  Durations = {1}
  Lenders = {u1}
INVARIANTS
  AgentTypeOK
  ClaimsCounted
PROPERTIES
  ClaimLimit
  PermissionsExpire
CHECK_DEADLOCK FALSE
