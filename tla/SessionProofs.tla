---------------------------- MODULE SessionProofs ----------------------------
(***************************************************************************)
(* Sessions change who signs and who pays, and nothing else: the           *)
(* composition keeps the invariant of the game, delegation runs out, and   *)
(* the whole still implements the wager contract.                          *)
(***************************************************************************)
EXTENDS GameSessions, WagerProofs

-----------------------------------------------------------------------------
(* What the game sees of a step.                                           *)

(* A key that closes a game gets nothing, so any wallet could have.        *)
LEMMA KeyCloses ==
  ASSUME IInv, SessionTypeOK, NEW g \in GameIds, NEW k \in SessionKeys, CloseGameByKey(g, k)
  PROVE  CloseGame(g, config.treasury) /\ config.treasury \in Accounts /\ keyPurse' = keyPurse
<1>1. /\ wallet \in [Accounts -> Nat] /\ keyPurse \in [SessionKeys -> Nat]
      /\ config.treasury \in Accounts
  BY DEF SessionTypeOK, TypeOK, Configs, Accounts
<1>2. games[g].lamports = 0
  BY CloseForgets DEF CloseGameByKey
<1>3. keyPurse' = keyPurse /\ wallet = [wallet EXCEPT ![config.treasury] = @ + games[g].lamports]
  BY <1>1, <1>2 DEF CloseGameByKey
<1>4. QED
  BY <1>1, <1>3 DEF CloseGameByKey, CloseGame

(* Apart from the deposits of keys, a step is a step of the game alone.    *)
Deposits == \E t \in Tournaments, p \in Players, k \in SessionKeys : DepositStakeSession(t, p, k)

LEMMA KeySigns ==
  ASSUME NEW k \in SessionKeys, SignedByKey(k)
  PROVE  Next
<1>1. ASSUME NEW t \in Tournaments, NEW p \in Players, NEW secret \in Matchups, NEW m \in Keys,
             CreateGameSession(t, p, secret, m, k)
      PROVE  Next
  BY <1>1 DEF CreateGameSession, Next
<1>2. ASSUME NEW g \in GameIds, NEW p \in Players, JoinGameSession(g, p, k) PROVE Next
  BY <1>2 DEF JoinGameSession, Next
<1>3. ASSUME NEW g \in GameIds, NEW i \in Seats, NEW guess \in Guesses, NEW p \in Players,
             CommitGuessSession(g, i, guess, p, k)
      PROVE  Next
  BY <1>3 DEF CommitGuessSession, Next
<1>4. ASSUME NEW g \in GameIds, NEW i \in Seats, NEW p \in Players,
             RevealGuessSession(g, i, p, k)
      PROVE  Next
  BY <1>4 DEF RevealGuessSession, Next
<1>5. QED
  BY <1>1, <1>2, <1>3, <1>4 DEF SignedByKey

LEMMA GameView ==
  ASSUME IInv, SessionTypeOK, [SessionNext]_sessionVars
  PROVE  \/ [Next]_vars /\ keyPurse' = keyPurse
         \/ Deposits
<1>1. ASSUME NEW o \in Owners, NEW k \in SessionKeys,
             \/ CreatePlayerSession(o, k)
             \/ ClosePlayerSession(o, k)
             \/ CloseSessionByDelegate(o, k)
      PROVE  UNCHANGED <<vars, keyPurse>>
  BY <1>1 DEF CreatePlayerSession, ClosePlayerSession, CloseSessionByDelegate
<1>2. ASSUME NEW k \in SessionKeys, SignedByKey(k), keyPurse' = keyPurse
      PROVE  [Next]_vars /\ keyPurse' = keyPurse
  BY <1>2, KeySigns
<1>3. ASSUME NEW g \in GameIds, NEW k \in SessionKeys, CloseGameByKey(g, k)
      PROVE  [Next]_vars /\ keyPurse' = keyPurse
  BY <1>3, KeyCloses DEF Next
<1>4. ASSUME NEW k \in SessionKeys, PaidByKey(k)
      PROVE  Deposits \/ ([Next]_vars /\ keyPurse' = keyPurse)
  <2>1. CASE \E g \in GameIds : CloseGameByKey(g, k)
    BY <1>3, <2>1
  <2>2. CASE \E t \in Tournaments, p \in Players : DepositStakeSession(t, p, k)
    BY <2>2 DEF Deposits
  <2>3. QED
    BY <1>4, <2>1, <2>2 DEF PaidByKey
<1>5. CASE UNCHANGED sessionVars
  BY <1>5 DEF sessionVars
<1>6. CASE SignedByWallet /\ UNCHANGED <<sessions, keyPurse, granted>>
  BY <1>6 DEF SignedByWallet
<1>7. QED
  BY <1>1, <1>2, <1>4, <1>5, <1>6 DEF SessionNext

-----------------------------------------------------------------------------
(* The invariant.                                                          *)

(* No grant outlasts the longest session that could be created now.        *)
GrantsBounded ==
  \A o \in Accounts, k \in SessionKeys : granted[o][k] <= now + SessionTime

SessionInv ==
  IInv /\ TournamentsReal /\ SessionTypeOK /\ SessionsGranted /\ GrantsBounded

LEMMA KeyDeposits ==
  ASSUME SessionInv, NEW t \in Tournaments, NEW p \in Players, NEW k \in SessionKeys,
         DepositStakeSession(t, p, k)
  PROVE  /\ IInv' /\ TournamentsReal'
         /\ keyPurse' \in [SessionKeys -> Nat]
         /\ D!Pledge(t, p, k)
<1>1. /\ IInv /\ TypeOK /\ Stake \in Nat
      /\ escrows \in [Tournaments -> [Players -> Escrows]]
      /\ keyPurse \in [SessionKeys -> Nat]
  BY GameAssumption DEF SessionInv, IInv, TypeOK, SessionTypeOK
<1>2. /\ escrows' = [escrows EXCEPT ![t][p] = Funded(escrows[t][p])]
      /\ keyPurse' = [keyPurse EXCEPT ![k] = @ - Stake] /\ keyPurse[k] >= Stake
      /\ UNCHANGED <<slot, now, config, wallet, tournaments, profiles, games, gameCount>>
  BY DEF DepositStakeSession
<1>3. escrows[t][p].lamports = 0
  BY <1>1 DEF IInv, EscrowBacked, DepositStakeSession, ValidForGame
<1> DEFINE new == Funded(escrows[t][p])
<1>4. /\ new \in Escrows /\ new.exists /\ ~new.consumed /\ new.lamports = Stake
  BY <1>1, <1>3 DEF Funded, Escrows
<1> HIDE DEF new
<1>5. TypeOK'
  <2>1. escrows' \in [Tournaments -> [Players -> Escrows]]
    BY <1>1, <1>2, <1>4 DEF new
  <2>2. QED
    BY <1>1, <1>2, <2>1 DEF TypeOK
<1>6. EscrowBacked'
  <2>1. \A u \in Tournaments, q \in Players :
          escrows'[u][q] = IF u = t /\ q = p THEN new ELSE escrows[u][q]
    BY <1>1, <1>2 DEF new
  <2>2. QED
    BY <1>1, <1>4, <2>1 DEF IInv, EscrowBacked
<1>7. Fresh' /\ (\A g \in GameIds : GameInv(games[g], slot))'
  BY <1>1, <1>2 DEF IInv, Fresh
<1>8. IInv'
  BY <1>5, <1>6, <1>7 DEF IInv
<1>9. TournamentsReal'
  BY <1>2 DEF SessionInv, TournamentsReal
<1>10. keyPurse' \in [SessionKeys -> Nat]
  BY <1>1, <1>2
<1>11. D!Pledge(t, p, k)
  <2>1. k \notin Accounts
    BY SessionAssumption
  <2>2. Pledged' = [Pledged EXCEPT ![t][p] = Stake] /\ Pledged[t][p] = 0
    <3>1. Pledged' = [Pledged EXCEPT ![t][p] = new.lamports]
      BY <1>1, <1>2, PledgedAfter DEF new
    <3>2. QED
      BY <1>3, <1>4, <3>1 DEF Pledged
  <2>3. Purses[k] >= Stake /\ Purses' = D!Paid(Purses, k, -Stake)
    BY <1>1, <1>2, <2>1 DEF Purses, D!Paid
  <2>4. Wagers' = Wagers /\ Pools' = Pools
    BY <1>2 DEF Wagers, Pools
  <2>5. QED
    BY <2>2, <2>3, <2>4 DEF D!Pledge
<1>12. QED
  BY <1>8, <1>9, <1>10, <1>11

LEMMA ClockStep == [Next]_vars => now' = now \/ now' = now + 1
<1>1. ASSUME NEW g \in GameIds, Deals(g) PROVE now' = now
  <2>1. ASSUME NEW i \in Seats, RevealGuess(g, i) PROVE now' = now
    BY <2>1 DEF RevealGuess, Settle
  <2>2. ResolveTimeout(g) => now' = now
    BY DEF ResolveTimeout, Settle
  <2>3. QED
    BY <1>1, <2>1, <2>2 DEF Deals, CommitGuess, CloseGame
<1>2. ASSUME NEW t \in Tournaments, Runs(t) PROVE now' = now
  BY <1>2 DEF Runs, CreateTournament, FinalizeTournament, ClaimReward
<1>3. QED
  BY <1>1, <1>2 DEF Next, Deals, Runs, TickSlot, TickTime, UpdateConfig, DepositStake,
     WithdrawStake, CreateGame, JoinGame, vars

(* A grant, its renewal or its withdrawal: one session, and how long its   *)
(* owner trusts its key from now on.                                       *)
Regrants(o, k, session, end) ==
  /\ sessions' = [sessions EXCEPT ![o][k] = session]
  /\ granted' = [granted EXCEPT ![o][k] = end]
  /\ session \in Sessions /\ end \in Nat /\ end <= now + SessionTime
  /\ session.exists => session.expires <= end

(* How a step of the composition changes the sessions.                     *)
LEMMA SessionsAfter ==
  ASSUME SessionInv, [SessionNext]_sessionVars
  PROVE  /\ sessions' \in [Accounts -> [SessionKeys -> Sessions]]
         /\ granted' \in [Accounts -> [SessionKeys -> Nat]]
         /\ signer' \in SessionKeys \cup {NoPlayer}
         /\ SessionsGranted' /\ GrantsBounded'
<1> DEFINE Goal ==
         /\ sessions' \in [Accounts -> [SessionKeys -> Sessions]]
         /\ granted' \in [Accounts -> [SessionKeys -> Nat]]
         /\ signer' \in SessionKeys \cup {NoPlayer}
         /\ SessionsGranted' /\ GrantsBounded'
<1>1. /\ sessions \in [Accounts -> [SessionKeys -> Sessions]]
      /\ granted \in [Accounts -> [SessionKeys -> Nat]] /\ signer \in SessionKeys \cup {NoPlayer}
      /\ now \in Nat /\ SessionTime \in Nat /\ Owners \subseteq Accounts
      /\ SessionsGranted /\ GrantsBounded
  BY SessionAssumption DEF SessionInv, SessionTypeOK, TypeOK
<1>2. ASSUME NEW o \in Accounts, NEW k \in SessionKeys, NEW session, NEW end,
             Regrants(o, k, session, end),
             now' = now, signer' \in SessionKeys \cup {NoPlayer}
      PROVE  Goal
  <2>1. /\ sessions' \in [Accounts -> [SessionKeys -> Sessions]]
        /\ granted' \in [Accounts -> [SessionKeys -> Nat]]
    BY <1>1, <1>2 DEF Regrants
  <2>2. \A a \in Accounts, j \in SessionKeys :
          \/ a = o /\ j = k /\ sessions'[a][j] = session /\ granted'[a][j] = end
          \/ sessions'[a][j] = sessions[a][j] /\ granted'[a][j] = granted[a][j]
    BY <1>1, <1>2 DEF Regrants
  <2>3. SessionsGranted'
    BY <1>1, <1>2, <2>2 DEF SessionsGranted, Regrants
  <2>4. GrantsBounded'
    BY <1>1, <1>2, <2>2 DEF GrantsBounded, Regrants
  <2>5. QED
    BY <1>2, <2>1, <2>3, <2>4
<1>3. ASSUME NEW o \in Owners, NEW k \in SessionKeys,
             \/ CreatePlayerSession(o, k)
             \/ ClosePlayerSession(o, k)
             \/ CloseSessionByDelegate(o, k)
      PROVE  Goal
  <2>1. o \in Accounts
    BY <1>1
  <2>2. CASE CreatePlayerSession(o, k)
    <3>1. /\ NewSession \in Sessions /\ NewSession.expires = now + SessionTime
          /\ now + SessionTime \in Nat /\ now + SessionTime <= now + SessionTime
      BY <1>1 DEF NewSession, Sessions
    <3>2. /\ sessions' = [sessions EXCEPT ![o][k] = NewSession]
          /\ granted' = [granted EXCEPT ![o][k] = now + SessionTime]
          /\ now' = now /\ signer' = NoPlayer
      BY <2>2 DEF CreatePlayerSession, vars
    <3>3. Regrants(o, k, NewSession, now + SessionTime)
      BY <3>1, <3>2 DEF Regrants
    <3>4. QED
      BY <1>2, <2>1, <3>2, <3>3
  <2>3. CASE ClosePlayerSession(o, k) \/ CloseSessionByDelegate(o, k)
    <3>1. NoSession \in Sessions /\ ~NoSession.exists /\ 0 \in Nat /\ 0 <= now + SessionTime
      BY <1>1 DEF NoSession, Sessions
    <3>2. /\ sessions' = [sessions EXCEPT ![o][k] = NoSession]
          /\ granted' = [granted EXCEPT ![o][k] = 0]
          /\ now' = now /\ signer' \in {NoPlayer, k}
      BY <2>3 DEF ClosePlayerSession, CloseSessionByDelegate, Dropped, vars
    <3>3. Regrants(o, k, NoSession, 0)
      BY <3>1, <3>2 DEF Regrants
    <3>4. QED
      BY <1>2, <2>1, <3>2, <3>3
  <2>4. QED
    BY <1>3, <2>2, <2>3
<1>4. ASSUME UNCHANGED <<sessions, granted>>, signer' \in SessionKeys \cup {NoPlayer}
      PROVE  Goal
  <2>1. now' \in Nat /\ now' >= now
    <3>1. now' = now \/ now' = now + 1
      BY GameView, ClockStep DEF SessionInv, Deposits, DepositStakeSession
    <3>2. QED
      BY <1>1, <3>1
  <2>2. GrantsBounded'
    BY <1>1, <1>4, <2>1 DEF GrantsBounded
  <2>3. QED
    BY <1>1, <1>4, <2>2 DEF SessionsGranted
<1> HIDE DEF Goal
<1>5. Goal
  BY <1>1, <1>3, <1>4 DEF SessionNext, sessionVars
<1>6. QED
  BY <1>5 DEF Goal

LEMMA SessionStep == SessionInv /\ [SessionNext]_sessionVars => SessionInv'
<1> SUFFICES ASSUME SessionInv, [SessionNext]_sessionVars PROVE SessionInv'
  OBVIOUS
<1>1. IInv' /\ TournamentsReal' /\ keyPurse' \in [SessionKeys -> Nat]
  <2>1. CASE [Next]_vars /\ keyPurse' = keyPurse
    <3>1. IInv'
      BY <2>1, GameStep DEF SessionInv
    <3>2. TournamentsReal'
      BY <2>1, RealStep DEF SessionInv, IInv
    <3>3. QED
      BY <2>1, <3>1, <3>2 DEF SessionInv, SessionTypeOK
  <2>2. CASE Deposits
    BY <2>2, KeyDeposits DEF Deposits
  <2>3. QED
    BY <2>1, <2>2, GameView DEF SessionInv
<1>2. SessionTypeOK'
  BY <1>1, SessionsAfter DEF IInv, SessionTypeOK
<1>3. QED
  BY <1>1, <1>2, SessionsAfter DEF SessionInv

(* The invariant of the game survives the sessions: no instruction a key   *)
(* may sign or pay for gets a game, an escrow or a tournament out of order.*)
THEOREM SessionInvariant == SessionSpec => []SessionInv
<1>1. SessionInit => SessionInv
  <2> SUFFICES ASSUME SessionInit PROVE SessionInv
    OBVIOUS
  <2>1. IInv /\ TournamentsReal
    BY GameStarts, TournamentsStart DEF SessionInit
  <2>2. /\ sessions \in [Accounts -> [SessionKeys -> Sessions]]
        /\ keyPurse \in [SessionKeys -> Nat] /\ granted \in [Accounts -> [SessionKeys -> Nat]]
    BY SessionAssumption DEF SessionInit, Sessions, NoSession
  <2>3. SessionTypeOK
    BY <2>1, <2>2 DEF SessionInit, SessionTypeOK, IInv
  <2>4. now \in Nat /\ SessionTime \in Nat
    BY <2>3, SessionAssumption DEF SessionTypeOK, TypeOK
  <2>5. SessionsGranted /\ GrantsBounded
    BY <2>4 DEF SessionInit, SessionsGranted, GrantsBounded, NoSession
  <2>6. QED
    BY <2>1, <2>3, <2>5 DEF SessionInv
<1>2. QED
  BY <1>1, SessionStep, PTL DEF SessionSpec

(* Every account of the composition holds values of its type.              *)
THEOREM SessionTypes == SessionSpec => []SessionTypeOK
<1>1. SessionInv => SessionTypeOK
  BY DEF SessionInv
<1>2. QED
  BY <1>1, SessionInvariant, PTL

-----------------------------------------------------------------------------
(* What a key may do in whose name.                                        *)

LEMMA Trusted ==
  ASSUME SessionInv, NEW o \in Accounts, NEW k \in SessionKeys, Authorized(o, k)
  PROVE  now < granted[o][k]
<1>1. /\ now \in Nat /\ granted[o][k] \in Nat /\ sessions[o][k].expires \in Nat
      /\ sessions[o][k].expires <= granted[o][k]
  BY DEF SessionInv, SessionTypeOK, TypeOK, SessionsGranted, Sessions, Authorized
<1>2. QED
  BY <1>1 DEF Authorized

(* A game that keeps its players, commitments and guesses is not a move of *)
(* anybody.                                                                *)
LEMMA Idle ==
  ASSUME NEW game, NEW next, NEW p,
         \/ next.state = "Absent"
         \/ /\ next.player = game.player /\ next.commit = game.commit
            /\ next.guess = game.guess
  PROVE  ~Plays(game, next, p)
BY DEF Plays

(* An instruction in one player's name that leaves the escrows alone and   *)
(* changes only one game is a move of that player.                         *)
LEMMA OneGame ==
  ASSUME games \in [GameIds -> Games], NEW g \in GameIds, NEW new, NEW p \in Players, NEW q,
         games' = [games EXCEPT ![g] = new],
         Plays(games[g], new, p) => p = q,
         \A t \in Tournaments : escrows'[t][p] = escrows[t][p],
         ActsFor(p)
  PROVE  p = q
<1>1. PICK h \in GameIds : Plays(games[h], games'[h], p)
  BY DEF ActsFor
<1>2. CASE h = g
  BY <1>1, <1>2
<1>3. CASE h # g
  BY <1>1, <1>3, Idle
<1>4. QED
  BY <1>2, <1>3

LEMMA CreatesForNobody ==
  ASSUME SessionInv, NEW t \in Tournaments, NEW q \in Players, NEW secret \in Matchups,
         CreateGame(t, q, secret), NEW p \in Players
  PROVE  ~ActsFor(p)
<1> DEFINE new == [NoGame EXCEPT !.state = "Pending", !.tournament = t, !.secret = secret,
                                 !.player[1] = q, !.lamports = Stake]
<1>1. /\ gameCount \in GameIds /\ gameCount \in Nat /\ games \in [GameIds -> Games]
      /\ games[gameCount].state = "Absent" /\ GameInv(games[gameCount], slot)
  BY GameAssumption DEF SessionInv, IInv, TypeOK, Fresh, CreateGame, GameIds
<1>2. gameCount' = gameCount + 1 /\ games' = [games EXCEPT ![gameCount] = new]
  BY DEF CreateGame
<1>3. /\ new.commit = [i \in Seats |-> Unset] /\ new.guess = [i \in Seats |-> Unset]
      /\ new.player[2] = NoPlayer
  BY DEF NoGame, Seats
<1> HIDE DEF new
<1>4. Committed(games[gameCount]) = {} /\ Revealed(games[gameCount]) = {}
  <2>1. Committed(games[gameCount]) = {} /\ Seats # {}
    BY <1>1 DEF GameInv, Shaped, Seats
  <2>2. QED
    BY <1>1, <2>1 DEF GameInv, Hidden
<1>5. ~Plays(games[gameCount], new, p)
  <2>1. \A i \in Seats :
          new.commit[i] = games[gameCount].commit[i] /\ new.guess[i] = games[gameCount].guess[i]
    BY <1>3, <1>4 DEF Committed, Revealed
  <2>2. p # NoPlayer
    BY GameAssumption
  <2>3. QED
    BY <1>3, <2>1, <2>2 DEF Plays
<1>6. ASSUME NEW g \in GameIds PROVE ~Plays(games[g], games'[g], p)
  <2>1. CASE g = gameCount
    BY <1>1, <1>2, <1>5, <2>1
  <2>2. CASE g # gameCount
    BY <1>1, <1>2, <2>2, Idle
  <2>3. QED
    BY <2>1, <2>2
<1>7. gameCount' # gameCount
  BY <1>1, <1>2
<1>8. QED
  BY <1>6, <1>7 DEF ActsFor

LEMMA JoinsForItself ==
  ASSUME SessionInv, NEW g \in GameIds, NEW q \in Players, JoinGame(g, q),
         NEW p \in Players, ActsFor(p)
  PROVE  p = q
<1> DEFINE t == games[g].tournament
           new == Join(games[g], q)
<1>1. /\ games \in [GameIds -> Games] /\ games[g] \in Games /\ t \in Tournaments
      /\ escrows \in [Tournaments -> [Players -> Escrows]]
      /\ games' = [games EXCEPT ![g] = new]
      /\ escrows' = [escrows EXCEPT ![t][q] = Consume(escrows[t][q])]
  BY DEF SessionInv, IInv, TypeOK, Games, JoinGame
<1>2. new.commit = games[g].commit /\ new.guess = games[g].guess /\ new.player[2] = q
      /\ new.player[1] = games[g].player[1]
  BY <1>1 DEF Join, Games, Seats
<1> HIDE DEF new, t
<1>3. Plays(games[g], new, p) => p = q
  BY <1>2 DEF Plays
<1>4. p # q => \A u \in Tournaments : escrows'[u][p] = escrows[u][p]
  BY <1>1
<1>5. QED
  BY <1>1, <1>3, <1>4, OneGame

LEMMA CommitsForItself ==
  ASSUME SessionInv, NEW g \in GameIds, NEW i \in Seats, NEW guess \in Guesses,
         CommitGuess(g, i, guess), NEW p \in Players, ActsFor(p)
  PROVE  p = games[g].player[i]
<1> DEFINE new == Commit(games[g], i, guess)
<1>1. /\ games \in [GameIds -> Games] /\ games[g] \in Games
      /\ games' = [games EXCEPT ![g] = new] /\ escrows' = escrows
  BY DEF SessionInv, IInv, TypeOK, CommitGuess
<1>2. /\ new.player = games[g].player /\ new.guess = games[g].guess
      /\ \A j \in Seats : j # i => new.commit[j] = games[g].commit[j]
  BY <1>1 DEF Commit, Games
<1> HIDE DEF new
<1>3. Plays(games[g], new, p) => p = games[g].player[i]
  BY <1>2 DEF Plays
<1>4. QED
  BY <1>1, <1>3, OneGame

LEMMA RevealsForItself ==
  ASSUME SessionInv, NEW g \in GameIds, NEW i \in Seats, RevealGuess(g, i),
         NEW p \in Players, ActsFor(p)
  PROVE  p = games[g].player[i]
<1> DEFINE game == Reveal(games[g], i)
<1>1. /\ games \in [GameIds -> Games] /\ games[g] \in Games /\ game \in Games
  BY RevealType DEF SessionInv, IInv, TypeOK
<1>2. /\ game.player = games[g].player /\ game.commit = games[g].commit
      /\ \A j \in Seats : j # i => game.guess[j] = games[g].guess[j]
  BY <1>1 DEF Reveal, Games
<1>3. \/ games' = [games EXCEPT ![g] = game]
      \/ \E paid : games' = [games EXCEPT ![g] = Settled(game, paid)]
  BY SettleGames DEF RevealGuess
<1>4. escrows' = escrows
  BY DEF RevealGuess, Settle
<1> HIDE DEF game
<1>5. ASSUME NEW paid
      PROVE  /\ Settled(game, paid).player = game.player
             /\ Settled(game, paid).commit = game.commit
             /\ Settled(game, paid).guess = game.guess
  BY <1>1 DEF Settled, Games
<1>6. PICK new : /\ games' = [games EXCEPT ![g] = new]
                 /\ new.player = game.player /\ new.commit = game.commit
                 /\ new.guess = game.guess
  BY <1>3, <1>5
<1>7. Plays(games[g], new, p) => p = games[g].player[i]
  BY <1>2, <1>6 DEF Plays
<1>8. QED
  BY <1>1, <1>4, <1>6, <1>7, OneGame

LEMMA DepositsForItself ==
  ASSUME SessionInv, NEW t \in Tournaments, NEW q \in Players, NEW k \in SessionKeys,
         DepositStakeSession(t, q, k), NEW p \in Players, ActsFor(p)
  PROVE  p = q
<1>1. /\ escrows \in [Tournaments -> [Players -> Escrows]] /\ games' = games
      /\ escrows' = [escrows EXCEPT ![t][q] = Funded(escrows[t][q])]
  BY DEF SessionInv, IInv, TypeOK, DepositStakeSession
<1>2. \A g \in GameIds : ~Plays(games[g], games'[g], p)
  BY <1>1, Idle
<1>3. p # q => \A u \in Tournaments : escrows'[u][p] = escrows[u][p]
  BY <1>1
<1>4. QED
  BY <1>2, <1>3 DEF ActsFor

(* A session key moves for a player only within SESSION_DURATION_SECONDS   *)
(* of that player's grant to it, and never once the session was closed.    *)
THEOREM DelegationRunsOut == SessionSpec => DelegationExpires
<1> DEFINE A == \A p \in Players :
                  ActsFor(p) /\ signer' # NoPlayer => now < granted[p][signer']
<1>1. ASSUME SessionInv, SessionNext, NEW p \in Players, ActsFor(p), signer' # NoPlayer
      PROVE  now < granted[p][signer']
  <2>1. p \in Accounts /\ Players \subseteq Accounts
    BY DEF Accounts
  <2>2. ASSUME NEW k \in SessionKeys, SignedByKey(k) PROVE now < granted[p][k]
    <3>1. ASSUME NEW t \in Tournaments, NEW q \in Players, NEW secret \in Matchups,
                 NEW m \in Keys, CreateGameSession(t, q, secret, m, k)
          PROVE  FALSE
      BY <1>1, <3>1, CreatesForNobody DEF CreateGameSession
    <3>2. ASSUME NEW g \in GameIds, NEW q \in Players, JoinGameSession(g, q, k)
          PROVE  now < granted[p][k]
      <4>1. p = q
        BY <1>1, <3>2, JoinsForItself DEF JoinGameSession
      <4>2. QED
        BY <1>1, <2>1, <3>2, <4>1, Trusted DEF JoinGameSession
    <3>3. ASSUME NEW g \in GameIds, NEW i \in Seats, NEW guess \in Guesses, NEW q \in Players,
                 CommitGuessSession(g, i, guess, q, k)
          PROVE  now < granted[p][k]
      <4>1. p = q
        BY <1>1, <3>3, CommitsForItself DEF CommitGuessSession
      <4>2. QED
        BY <1>1, <2>1, <3>3, <4>1, Trusted DEF CommitGuessSession
    <3>4. ASSUME NEW g \in GameIds, NEW i \in Seats, NEW q \in Players,
                 RevealGuessSession(g, i, q, k)
          PROVE  now < granted[p][k]
      <4>1. p = q
        BY <1>1, <3>4, RevealsForItself DEF RevealGuessSession
      <4>2. QED
        BY <1>1, <2>1, <3>4, <4>1, Trusted DEF RevealGuessSession
    <3>5. QED
      BY <2>2, <3>1, <3>2, <3>3, <3>4 DEF SignedByKey
  <2>3. ASSUME NEW t \in Tournaments, NEW q \in Players, NEW k \in SessionKeys,
               DepositStakeSession(t, q, k)
        PROVE  now < granted[p][k]
    <3>1. p = q /\ Authorized(q, k)
      BY <1>1, <2>3, DepositsForItself DEF DepositStakeSession
    <3>2. QED
      BY <1>1, <2>1, <3>1, Trusted
  <2>4. ASSUME NEW g \in GameIds, NEW k \in SessionKeys, CloseGameByKey(g, k) PROVE FALSE
    <3>1. games' = [games EXCEPT ![g] = NoGame] /\ escrows' = escrows
      BY <2>4 DEF CloseGameByKey
    <3>2. games \in [GameIds -> Games] /\ NoGame.state = "Absent"
      BY <1>1 DEF SessionInv, IInv, TypeOK, NoGame
    <3>3. ASSUME NEW h \in GameIds PROVE ~Plays(games[h], games'[h], p)
      <4>1. CASE h = g
        BY <3>1, <3>2, <4>1, Idle
      <4>2. CASE h # g
        BY <3>1, <3>2, <4>2, Idle
      <4>3. QED
        BY <4>1, <4>2
    <3>4. QED
      BY <1>1, <3>1, <3>3 DEF ActsFor
  <2>5. ASSUME NEW o \in Owners, NEW k \in SessionKeys, CloseSessionByDelegate(o, k) PROVE FALSE
    <3>1. games' = games /\ escrows' = escrows
      BY <2>5 DEF CloseSessionByDelegate, vars
    <3>2. QED
      BY <1>1, <3>1, Idle DEF ActsFor
  <2>6. QED
    BY <1>1, <2>2, <2>3, <2>4, <2>5 DEF SessionNext, PaidByKey, CreatePlayerSession,
       ClosePlayerSession
<1>2. SessionInv /\ [SessionNext]_sessionVars => [A]_sessionVars
  BY <1>1
<1>3. QED
  BY <1>2, SessionInvariant, PTL DEF SessionSpec, DelegationExpires

(* Only open sessions of the present matchmaker let their key start games. *)
THEOREM StartsByMatchmaker == SessionSpec => MatchmakerStarts
<1> DEFINE A == gameCount' # gameCount /\ signer' # NoPlayer =>
                  now < granted[config.matchmaker][signer']
<1>1. ASSUME SessionInv, SessionNext, gameCount' # gameCount, signer' # NoPlayer
      PROVE  now < granted[config.matchmaker][signer']
  <2>1. config.matchmaker \in Accounts
    BY <1>1 DEF SessionInv, IInv, TypeOK, Configs, Accounts
  <2>2. ASSUME NEW k \in SessionKeys, SignedByKey(k) PROVE now < granted[config.matchmaker][k]
    <3>1. ASSUME NEW t \in Tournaments, NEW q \in Players, NEW secret \in Matchups,
                 NEW m \in Keys, CreateGameSession(t, q, secret, m, k)
          PROVE  now < granted[config.matchmaker][k]
      BY <1>1, <2>1, <3>1, Trusted DEF CreateGameSession
    <3>2. ASSUME NEW g \in GameIds, NEW q \in Players, JoinGameSession(g, q, k)
          PROVE  gameCount' = gameCount
      BY <3>2 DEF JoinGameSession, JoinGame
    <3>3. ASSUME NEW g \in GameIds, NEW i \in Seats, NEW guess \in Guesses, NEW q \in Players,
                 CommitGuessSession(g, i, guess, q, k)
          PROVE  gameCount' = gameCount
      BY <3>3 DEF CommitGuessSession, CommitGuess
    <3>4. ASSUME NEW g \in GameIds, NEW i \in Seats, NEW q \in Players,
                 RevealGuessSession(g, i, q, k)
          PROVE  gameCount' = gameCount
      BY <3>4, SettleGames DEF RevealGuessSession, RevealGuess
    <3>5. QED
      BY <1>1, <2>2, <3>1, <3>2, <3>3, <3>4 DEF SignedByKey
  <2>3. ASSUME NEW k \in SessionKeys, PaidByKey(k) PROVE gameCount' = gameCount
    BY <2>3 DEF PaidByKey, DepositStakeSession, CloseGameByKey
  <2>4. ASSUME NEW o \in Owners, NEW k \in SessionKeys, CloseSessionByDelegate(o, k)
        PROVE  gameCount' = gameCount
    BY <2>4 DEF CloseSessionByDelegate, vars
  <2>5. QED
    BY <1>1, <2>2, <2>3, <2>4 DEF SessionNext, CreatePlayerSession, ClosePlayerSession
<1>2. SessionInv /\ [SessionNext]_sessionVars => [A]_sessionVars
  BY <1>1
<1>3. QED
  BY <1>2, SessionInvariant, PTL DEF SessionSpec, MatchmakerStarts

-----------------------------------------------------------------------------
(* The wallets of the game are some of the wallets of the composition.     *)

Lift(book, keys) ==
  [a \in Accounts \cup SessionKeys |-> IF a \in Accounts THEN book[a] ELSE keys[a]]

LEMMA LiftPaid ==
  ASSUME NEW book, DOMAIN book = Accounts, book = [a \in DOMAIN book |-> book[a]],
         NEW a \in Accounts, NEW amount, NEW keys
  PROVE  LET new == W!Paid(book, a, amount) IN
         /\ Lift(new, keys) = D!Paid(Lift(book, keys), a, amount)
         /\ DOMAIN new = Accounts /\ new = [b \in DOMAIN new |-> new[b]]
BY DEF Lift, W!Paid, D!Paid

LEMMA LiftPurses == Purses = Lift(wallet, keyPurse) /\ Purses' = Lift(wallet', keyPurse')
BY DEF Purses, Lift

(* A payment out of, or into, one wallet of the game.                      *)
LEMMA OnePaid ==
  ASSUME wallet \in [Accounts -> Nat], NEW a \in Accounts, NEW amount,
         wallet' = W!Paid(wallet, a, amount), keyPurse' = keyPurse
  PROVE  Purses' = D!Paid(Purses, a, amount)
<1>1. DOMAIN wallet = Accounts /\ wallet = [b \in DOMAIN wallet |-> wallet[b]]
  OBVIOUS
<1>2. QED
  BY <1>1, LiftPaid, LiftPurses

LEMMA DivideLifts ==
  ASSUME wallet \in [Accounts -> Nat], keyPurse' = keyPurse, NEW event,
         NEW a \in Players, NEW b \in Players, NEW outcome, NEW key \in Keys, NEW fee,
         W!Divide(event, a, b, outcome, key, fee)
  PROVE  D!Divide(event, a, b, outcome, key, fee)
<1> DEFINE first == W!Paid(wallet, a, outcome[1])
           second == W!Paid(first, b, outcome[2])
<1>1. DOMAIN wallet = Accounts /\ wallet = [c \in DOMAIN wallet |-> wallet[c]]
  OBVIOUS
<1>2. a \in Accounts /\ b \in Accounts /\ key \in Accounts
  BY DEF Accounts
<1>3. /\ Lift(first, keyPurse) = D!Paid(Lift(wallet, keyPurse), a, outcome[1])
      /\ DOMAIN first = Accounts /\ first = [c \in DOMAIN first |-> first[c]]
  BY <1>1, <1>2, LiftPaid
<1> HIDE DEF first
<1>4. /\ Lift(second, keyPurse) = D!Paid(Lift(first, keyPurse), b, outcome[2])
      /\ DOMAIN second = Accounts /\ second = [c \in DOMAIN second |-> second[c]]
  BY <1>2, <1>3, LiftPaid
<1> HIDE DEF second
<1>5. Lift(W!Paid(second, key, fee), keyPurse) = D!Paid(Lift(second, keyPurse), key, fee)
  BY <1>2, <1>4, LiftPaid
<1>6. /\ wallet' = W!Paid(second, key, fee)
      /\ fee <= 2 * Stake - outcome[1] - outcome[2]
      /\ Pools' = D!Paid(Pools, event, 2 * Stake - outcome[1] - outcome[2] - fee)
  BY DEF W!Divide, W!Paid, D!Paid, first, second
<1>7. Purses' = D!Paid(D!Paid(D!Paid(Purses, a, outcome[1]), b, outcome[2]), key, fee)
  BY <1>3, <1>4, <1>5, <1>6, LiftPurses
<1>8. QED
  BY <1>6, <1>7 DEF D!Divide

LEMMA SettleLifts ==
  ASSUME SessionInv, keyPurse' = keyPurse, NEW g \in GameIds, W!Settle(g)
  PROVE  D!Settle(g)
<1>1. wallet \in [Accounts -> Nat] /\ Wagers[g].parties \subseteq Players
  <2>1. games[g] \in Games
    BY DEF SessionInv, IInv, TypeOK
  <2>2. Parties(games[g]) \subseteq Players
    BY <2>1 DEF Parties, Games
  <2>3. QED
    BY <2>2 DEF SessionInv, IInv, TypeOK, Wagers, WagerOf
<1>2. PICK a, b \in Wagers[g].parties :
        a # b /\ \E outcome \in W!Outcomes, key \in Keys, fee \in 0 .. 2 * Stake :
                   W!Divide(Wagers[g].event, a, b, outcome, key, fee)
  BY DEF W!Settle
<1>3. PICK outcome \in W!Outcomes, key \in Keys, fee \in 0 .. 2 * Stake :
        W!Divide(Wagers[g].event, a, b, outcome, key, fee)
  BY <1>2
<1>4. D!Divide(Wagers[g].event, a, b, outcome, key, fee) /\ outcome \in D!Outcomes
  BY <1>1, <1>3, DivideLifts DEF W!Outcomes, D!Outcomes
<1>5. QED
  BY <1>2, <1>4 DEF W!Settle, D!Settle

LEMMA MovesLift ==
  ASSUME SessionInv, keyPurse' = keyPurse, W!Move
  PROVE  D!Move
<1>1. wallet \in [Accounts -> Nat] /\ Players \subseteq Accounts
  BY DEF SessionInv, IInv, TypeOK, Accounts
<1>2. wallet' = wallet => Purses' = Purses
  BY LiftPurses
<1>3. ASSUME NEW t \in Tournaments, NEW p \in Players, NEW backer \in Accounts,
             W!Pledge(t, p, backer)
      PROVE  D!Move
  <2>1. /\ backer = p /\ <<p, p>> \in {<<q, q>> : q \in Players} \cup (SessionKeys \X Players)
        /\ wallet[p] >= Stake /\ wallet' = W!Paid(wallet, p, -Stake)
    BY <1>3 DEF W!Pledge
  <2>2. Purses' = D!Paid(Purses, p, -Stake) /\ Purses[p] >= Stake
    BY <1>1, <2>1, OnePaid DEF Purses
  <2>3. D!Pledge(t, p, p)
    BY <1>3, <2>1, <2>2 DEF W!Pledge, D!Pledge
  <2>4. QED
    BY <1>1, <2>3 DEF D!Move
<1>4. ASSUME NEW t \in Tournaments, NEW p \in Players, W!TakeBack(t, p) PROVE D!Move
  <2>1. Purses' = D!Paid(Purses, p, Stake)
    BY <1>1, <1>4, OnePaid DEF W!TakeBack
  <2>2. D!TakeBack(t, p)
    BY <1>4, <2>1 DEF W!TakeBack, D!TakeBack
  <2>3. QED
    BY <2>2 DEF D!Move
<1>5. ASSUME NEW g \in GameIds, NEW t \in Tournaments, NEW p \in Players, W!Open(g, t, p)
      PROVE  D!Move
  <2>1. D!Open(g, t, p)
    BY <1>2, <1>5 DEF W!Open, D!Open
  <2>2. QED
    BY <2>1 DEF D!Move
<1>6. ASSUME NEW g \in GameIds, NEW p \in Players, W!Match(g, p) PROVE D!Move
  <2>1. D!Match(g, p)
    BY <1>2, <1>6 DEF W!Match, D!Match
  <2>2. QED
    BY <2>1 DEF D!Move
<1>7. ASSUME NEW g \in GameIds, W!Settle(g) PROVE D!Move
  BY <1>7, SettleLifts DEF D!Move
<1>8. ASSUME NEW g \in GameIds, W!Forget(g) PROVE D!Move
  <2>1. D!Forget(g)
    BY <1>2, <1>8 DEF W!Forget, D!Forget, W!NoWager, D!NoWager
  <2>2. QED
    BY <2>1 DEF D!Move
<1>9. ASSUME NEW t \in Tournaments, NEW p \in Players, NEW amount \in 1 .. Pools[t],
             W!Reward(t, p, amount)
      PROVE  D!Move
  <2>1. Purses' = D!Paid(Purses, p, amount)
    BY <1>1, <1>9, OnePaid DEF W!Reward
  <2>2. D!Reward(t, p, amount)
    BY <1>9, <2>1 DEF W!Reward, D!Reward, W!Paid, D!Paid
  <2>3. QED
    BY <2>2 DEF D!Move
<1>10. QED
  BY <1>3, <1>4, <1>5, <1>6, <1>7, <1>8, <1>9 DEF W!Move

LEMMA DelegatedInit == SessionInit => D!Init
<1> SUFFICES ASSUME SessionInit PROVE D!Init
  OBVIOUS
<1>1. W!Init /\ wallet \in [Accounts -> Nat]
  BY WagerInit, TypeInit DEF SessionInit, TypeOK
<1>2. \A k \in SessionKeys : keyPurse[k] \in Nat
  BY SessionAssumption DEF SessionInit
<1>3. Purses \in [Accounts \cup SessionKeys -> Nat]
  BY <1>1, <1>2 DEF Purses
<1>4. W!NoWager = D!NoWager
  BY DEF W!NoWager, D!NoWager
<1>5. QED
  BY <1>1, <1>3, <1>4 DEF W!Init, D!Init

(* The composition implements the wager contract: no signature and no      *)
(* payment of a session key makes money move in any other way.             *)
THEOREM SessionsImplementWager == SessionSpec => DelegatedWager
<1>1. ASSUME SessionInv, [SessionNext]_sessionVars
      PROVE  D!Move \/ UNCHANGED D!state
  <2>1. CASE [Next]_vars /\ keyPurse' = keyPurse
    <3>1. W!Move \/ UNCHANGED W!state
      BY <1>1, <2>1, WagerMoves DEF SessionInv
    <3>2. UNCHANGED W!state => UNCHANGED D!state
      BY <2>1, LiftPurses DEF W!state, D!state
    <3>3. QED
      BY <1>1, <2>1, <3>1, <3>2, MovesLift
  <2>2. CASE Deposits
    BY <1>1, <2>2, KeyDeposits DEF Deposits, D!Move
  <2>3. QED
    BY <1>1, <2>1, <2>2, GameView DEF SessionInv
<1>2. SessionInv /\ [SessionNext]_sessionVars => [D!Next]_(D!state)
  BY <1>1 DEF D!Next
<1>3. QED
  BY <1>2, DelegatedInit, SessionInvariant, PTL DEF SessionSpec, D!Spec, DelegatedWager

-----------------------------------------------------------------------------
(* The money of the composition: that of the game and that of the keys.    *)

InKeys == SumFunction(keyPurse)

LEMMA MoneySplit ==
  ASSUME SessionInv
  PROVE  D!Worth = W!Worth + InKeys /\ W!Worth \in Int /\ InKeys \in Int
<1>1. /\ TypeOK /\ keyPurse \in [SessionKeys -> Int] /\ IsFiniteSet(SessionKeys)
      /\ Accounts \cap SessionKeys = {}
  BY SessionAssumption DEF SessionInv, IInv, SessionTypeOK
<1>2. /\ wallet \in [Accounts -> Int] /\ InWallets \in Int /\ Staked \in Int
      /\ AtPlay \in Int /\ InPools \in Int
  BY <1>1, MoneyTyped
<1>3. /\ \A a \in Accounts : Purses[a] = wallet[a]
      /\ \A k \in SessionKeys : Purses[k] = keyPurse[k]
      /\ DOMAIN Purses = Accounts \cup SessionKeys
  BY <1>1 DEF Purses
<1>4. \A a \in Accounts \cup SessionKeys : Purses[a] \in Int
  BY <1>1, <1>2, <1>3
<1>5. SumFunction(Purses) = SumFunctionOnSet(Purses, Accounts) + SumFunctionOnSet(Purses, SessionKeys)
  BY <1>1, <1>3, <1>4, FiniteAccounts, SumUnion DEF SumFunction
<1>6. SumFunctionOnSet(Purses, Accounts) = InWallets
  BY <1>2, <1>3, FiniteAccounts, SumSame DEF SumFunction, InWallets
<1>7. SumFunctionOnSet(Purses, SessionKeys) = InKeys
  BY <1>1, <1>3, SumSame DEF SumFunction, InKeys
<1>8. D!Worth = SumFunction(Purses) + Staked + AtPlay + InPools
  <2>1. \A f : D!SumFunction(f) = SumFunction(f)
    BY DEF D!SumFunction, D!SumFunctionOnSet, D!FoldFunctionOnSet, D!MapThenFoldSet,
           SumFunction, SumFunctionOnSet, FoldFunctionOnSet, MapThenFoldSet
  <2>2. QED
    BY <2>1 DEF D!Worth, Staked, TableSum, PotsOf, AtPlay, InPools
<1>9. InKeys \in Int
  BY <1>1, SumFunctionType DEF InKeys
<1>10. QED
  BY <1>2, <1>5, <1>6, <1>7, <1>8, <1>9, WorthIs

(* A delegated deposit takes from the key what it adds to the pledge.      *)
LEMMA DepositConserves ==
  ASSUME SessionInv, Deposits
  PROVE  W!Worth' + InKeys' = W!Worth + InKeys
<1>1. PICK t \in Tournaments, p \in Players, k \in SessionKeys : DepositStakeSession(t, p, k)
  BY DEF Deposits
<1>2. /\ TypeOK /\ keyPurse \in [SessionKeys -> Int] /\ IsFiniteSet(SessionKeys)
      /\ Stake \in Int /\ 0 - Stake \in Int
  BY SessionAssumption, GameAssumption DEF SessionInv, IInv, SessionTypeOK
<1>3. D!Pledge(t, p, k)
  BY <1>1, KeyDeposits
<1>4. RewrittenAt(Pledged, Pledged', t, p, Stake) /\ Pledged[t][p] = 0
  BY <1>3 DEF D!Pledge, RewrittenAt
<1>5. Staked' = Staked + Stake
  <2>1. Staked' = Staked + (Stake - Pledged[t][p])
    BY <1>2, <1>4, StakedAfter
  <2>2. QED
    BY <1>2, <1>4, <2>1
<1>6. InKeys' = InKeys - Stake
  <2> DEFINE v == keyPurse[k] - Stake
  <2>1. Rewritten(keyPurse, keyPurse', k, v) /\ v \in Int /\ v - keyPurse[k] = 0 - Stake
    BY <1>1, <1>2 DEF DepositStakeSession, Rewritten
  <2> HIDE DEF v
  <2>2. SumFunction(keyPurse') = SumFunction(keyPurse) + (v - keyPurse[k])
    BY <1>2, <2>1, SumExcept
  <2>3. SumFunction(keyPurse) \in Int
    BY <1>2, SumFunctionType
  <2>4. QED
    BY <1>2, <2>1, <2>2, <2>3 DEF InKeys
<1>7. UNCHANGED <<InWallets, AtPlay, InPools>>
  <2>1. wallet' = wallet /\ Wagers' = Wagers /\ Pools' = Pools
    BY <1>1, <1>3 DEF DepositStakeSession, D!Pledge
  <2>2. QED
    BY <2>1 DEF InWallets, AtPlay, InPools
<1>8. InWallets \in Int /\ Staked \in Int /\ AtPlay \in Int /\ InPools \in Int /\ InKeys \in Int
  <2>1. InKeys \in Int
    BY MoneySplit
  <2>2. QED
    BY <1>2, <2>1, MoneyTyped
<1>9. QED
  BY <1>2, <1>5, <1>6, <1>7, <1>8, WorthIs

Brought == Funds * Cardinality(Players) + KeyFunds * Cardinality(SessionKeys)
TogetherOwned == W!Worth + InKeys = Brought

LEMMA TogetherAtStart == SessionInit => TogetherOwned
<1> SUFFICES ASSUME SessionInit PROVE TogetherOwned
  OBVIOUS
<1>1. W!Worth = Funds * Cardinality(Players)
  BY WorthAtStart DEF SessionInit, Conservation
<1>2. InKeys = KeyFunds * Cardinality(SessionKeys)
  <2> DEFINE P == SessionKeys
  <2>1. /\ IsFiniteSet(SessionKeys) /\ P \in SUBSET SessionKeys /\ KeyFunds \in Int
        /\ keyPurse = [k \in SessionKeys |-> IF k \in P THEN KeyFunds ELSE 0]
    BY SessionAssumption DEF SessionInit
  <2> HIDE DEF P
  <2>2. QED
    BY <2>1, SumOfShares DEF InKeys, P
<1>3. QED
  BY <1>1, <1>2 DEF TogetherOwned, Brought

(* With the keys counted the lamports are those that were brought: no      *)
(* delegated deposit is charged twice or not at all, and a key gains       *)
(* nothing by closing a game.                                              *)
THEOREM DelegationConserves == SessionSpec => []DelegatedConservation
<1>1. ASSUME SessionInv, TogetherOwned, [SessionNext]_sessionVars
      PROVE  TogetherOwned'
  <2>1. Brought' = Brought
    BY DEF Brought
  <2>2. CASE [Next]_vars /\ keyPurse' = keyPurse
    <3>1. W!Worth' = W!Worth
      BY <1>1, <2>2, StepConserves DEF SessionInv
    <3>2. InKeys' = InKeys
      BY <2>2 DEF InKeys
    <3>3. QED
      BY <1>1, <2>1, <3>1, <3>2 DEF TogetherOwned
  <2>3. CASE Deposits
    BY <1>1, <2>1, <2>3, DepositConserves DEF TogetherOwned
  <2>4. QED
    BY <1>1, <2>2, <2>3, GameView DEF SessionInv
<1>2. SessionInv /\ TogetherOwned /\ [SessionNext]_sessionVars => TogetherOwned'
  BY <1>1
<1>3. SessionInv /\ TogetherOwned => DelegatedConservation
  BY MoneySplit DEF TogetherOwned, DelegatedConservation, Brought
<1>4. QED
  BY <1>2, <1>3, TogetherAtStart, SessionInvariant, PTL DEF SessionSpec

=============================================================================
