SPECIFICATION Spec
CONSTANTS
  NoPlayer = NoPlayer
  Players = {p1, p2}
  Keys = {op}
  Tournaments = {t1}
  Windows <- MCWindows
  SplitBps = {5000}
  Matchups = {0, 1}
  Guesses = {0, 1}
  Stake = 3
  CommitTimeout = 1
  RevealTimeout = 2
  MinGames = 1
  Funds = 3
  MaxGames = 1
  MaxSlot = 3
  MaxTime = 3
INVARIANT
  SnapshotIsPool
CHECK_DEADLOCK FALSE
