SPECIFICATION Spec
CONSTANTS
  NoPlayer = NoPlayer
  Players = {p1, p2}
  Keys = {op}
  Tournaments = {t1}
  Windows <- MCWindows
  SplitBps = {5000}
  Matchups = {1}
  Guesses = {1}
  Stake = 3
  CommitTimeout = 1
  RevealTimeout = 2
  MinGames = 1
  Funds = 6
  MaxGames = 2
  MaxSlot = 0
  MaxTime = 0
SYMMETRY Symmetry
INVARIANTS
  EscrowBacked
  GamesAccounted
CHECK_DEADLOCK FALSE
