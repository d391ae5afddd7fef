SPECIFICATION SessionSpec
CONSTANTS
  NoPlayer = NoPlayer
  Players = {p1, p2}
  Keys = {op, mm}
  Tournaments = {t1}
  Windows <- MCWindows
  SplitBps = {5000}
  Matchups = {1}
  Guesses = {1}
  Stake = 3
  CommitTimeout = 1
  RevealTimeout = 2
  MinGames = 1
  Funds = 3
  MaxGames = 1
  MaxSlot = 0
  MaxTime = 3
  SessionKeys = {k1}
  Owners = {p1, op}
  SessionTime = 1
  op = op
  mm = mm
  Offices <- MCOffices
  KeyFunds = 3
INVARIANTS
  SessionTypeOK
  DelegatedConservation
PROPERTIES
  DelegationExpires
  MatchmakerStarts
  DelegatedWager
CHECK_DEADLOCK FALSE
