SPECIFICATION FairSpec
CONSTANTS
  web = web
  NoUser = NoUser
  Users = {u1, u2, u3}
  Keys = {op}
  Platforms = {web}
  Terms <- OfferedTerms
  Overrides <- MCOverrides
  Params <- AllParams
  Scores = {0, 400000, 700000, 1000000}
  Funds = 12
  MaxTasks = 1
  MaxTime = 8
INVARIANTS
  TypeOK
  SettlementCovered
  DisputeBacked
  Conservation
PROPERTIES
  VerdictStands
  ImplementsCommission
  TaskEnds
CHECK_DEADLOCK FALSE
